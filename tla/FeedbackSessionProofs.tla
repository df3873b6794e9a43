------------------------- MODULE FeedbackSessionProofs -------------------------
(***************************************************************************)
(* Theorems about FeedbackSession, for any number of tabs, searches, ids   *)
(* and log entries, and any clamp of the weights.                          *)
(***************************************************************************)
EXTENDS FeedbackSession, WellFoundedInduction, TLAPS

-------------------------------------------------------------------------------
(***************************************************************************)
(* The inductive invariant.                                                *)
(***************************************************************************)
\* The operation of a tab: its first step is the one that has been sent, and an
\* acknowledged step is recorded.
Operating ==
    \A c \in Tabs :
        /\ choice[c] = NoChoice => steps[c] = <<>>
        /\ steps[c] # <<>> => session[c] # NoSession /\ steps[c][1].id # NoId
        /\ \A j \in 2..Len(steps[c]) : steps[c][j].id = NoId
        /\ search[c] # NoSearch => ~inFlight[c]
        /\ inFlight[c] => steps[c] # <<>>
        /\ reply[c] # "none" => inFlight[c]
        /\ reply[c] = "ok" => Recorded(steps[c][1].id)

\* A session belongs to one tab, and one that a search has not yet brought to its
\* tab has written nothing.
Owned ==
    /\ \A c \in Tabs : session[c] <= sessions
    /\ \A c, d \in Tabs : session[c] = session[d] /\ session[c] # NoSession => c = d
    /\ \A r \in wire : r.session <= sessions
    /\ \A r \in wire, d \in Tabs : r.session = session[d] => r.tab = d
    /\ \A i \in DOMAIN log : IsEvent(log[i]) => log[i].session <= sessions
    /\ \A c \in Tabs : search[c] # NoSearch =>
         /\ search[c].session <= sessions
         /\ \A d \in Tabs : search[c].session # session[d]
         /\ \A d \in Tabs \ {c} : search[c].session # search[d].session
         /\ \A r \in wire : r.session # search[c].session
         /\ \A i \in DOMAIN log : IsEvent(log[i]) => log[i].session # search[c].session

\* The request of the first step of a tab.
RequestOf(c) ==
    [tab |-> c, session |-> session[c], id |-> steps[c][1].id, slot |-> steps[c][1].slot,
     action |-> steps[c][1].action, replaces |-> steps[c][1].replaces]

\* An id names one request, one first step and one event, and these agree.
Identified ==
    /\ \A r \in wire : r.id <= ids
    /\ \A r, q \in wire : r.id = q.id => r = q
    /\ \A i \in DOMAIN log : IsEvent(log[i]) => log[i].id <= ids
    /\ \A c \in Tabs : steps[c] # <<>> =>
         /\ steps[c][1].id <= ids
         /\ \A r \in wire : r.id = steps[c][1].id => r = RequestOf(c)
         /\ \A i \in DOMAIN log : IsEvent(log[i]) /\ log[i].id = steps[c][1].id =>
              /\ log[i].slot = steps[c][1].slot /\ log[i].action = steps[c][1].action
              /\ log[i].session = session[c]
         /\ \A d \in Tabs \ {c} : steps[d] # <<>> => steps[d][1].id # steps[c][1].id

\* A request that is not recorded is that of the tab's first step, if the tab still
\* has its session, and the only one of its session.
Pending ==
    /\ \A r \in wire : ~Recorded(r.id) /\ session[r.tab] = r.session =>
         steps[r.tab] # <<>> /\ steps[r.tab][1].id = r.id
    /\ \A r, q \in wire :
         ~Recorded(r.id) /\ ~Recorded(q.id) /\ r.session = q.session => r = q

\* What the tab will show of the slot once it has read the answer it has coming.
Coming(c, s) == steps[c] # <<>> /\ steps[c][1].slot = s /\ Recorded(steps[c][1].id)
KnownId(c, s) == IF Coming(c, s) THEN steps[c][1].id ELSE latest[c][s]
KnownAction(c, s) == IF Coming(c, s) THEN steps[c][1].action ELSE shown[c][s]

\* A tab knows the newest event of the slot, if that is its session's.
Synced ==
    \A c \in Tabs, s \in Slots :
        LET k == LatestOf(s) IN
        session[c] # NoSession /\ k # 0 /\ log[k].session = session[c] =>
            KnownId(c, s) = log[k].id /\ KnownAction(c, s) = log[k].action

\* A first step replaces what the tab knows, and only what it knows is cleared.
Replacing ==
    /\ \A c \in Tabs : steps[c] # <<>> =>
         steps[c][1].replaces = latest[c][steps[c][1].slot]
    /\ \A c \in Tabs : \A j \in DOMAIN steps[c] :
         steps[c][j].action = Nothing => latest[c][steps[c][j].slot] # NoId
    /\ \A c \in Tabs, s \in Slots : shown[c][s] # Nothing => latest[c][s] # NoId
    /\ \A c \in Tabs, s \in Slots : search[c] # NoSearch =>
         (search[c].selections[s].action # Nothing => search[c].selections[s].id # NoId)

\* The session has written the newest event of the slot, with this action.
Rated(n, s, a) ==
    LatestOf(s) # 0 /\ log[LatestOf(s)].session = n /\ log[LatestOf(s)].action = a

\* The action excludes the other one, on the other slot.
Excludes(a, s, b) ==
    \/ a = "mood" /\ s = "rating" /\ b = "less"
    \/ a = "less" /\ s = "preferred" /\ b = "mood"

\* What a step excludes is not known to be set, or an earlier step changes it; a
\* plan has no steps that exclude one another; and no request that is on its way
\* meets what it excludes in its own session.
Exclusive ==
    /\ \A c \in Tabs : \A j \in DOMAIN steps[c] : \A s \in Slots, b \in AnyAction :
         Excludes(steps[c][j].action, s, b) =>
           /\ KnownAction(c, s) # b \/ \E i \in 1..(j - 1) : steps[c][i].slot = s
           /\ \A i \in DOMAIN steps[c] : ~ (steps[c][i].slot = s /\ steps[c][i].action = b)
    /\ \A r \in wire : \A s \in Slots, b \in AnyAction :
         ~Recorded(r.id) /\ Excludes(r.action, s, b) => ~Rated(r.session, s, b)
    /\ \A n \in 1..MaxSessions : ~ (Rated(n, "rating", "less") /\ Rated(n, "preferred", "mood"))

\* Since the tab read its selections, only its own session has changed the history.
Quiet(c) ==
    \A i \in (since[c] + 1)..Len(log) : IsEvent(log[i]) /\ log[i].session = session[c]

\* Then the tab knows the newest events, and no journal since them is invalid; the
\* same holds of the answer of a search; and only a tab whose history is not quiet
\* is refused.
Anchored ==
    /\ Len(log) <= MaxLog
    /\ \A c \in Tabs : since[c] <= Len(log)
    /\ \A c \in Tabs, s \in Slots :
         session[c] # NoSession /\ Quiet(c) /\ KnownId(c, s) # NoId =>
           /\ LatestOf(s) # 0 /\ log[LatestOf(s)].id = KnownId(c, s)
           /\ Intact(LatestOf(s))
    /\ \A c \in Tabs : search[c] # NoSearch =>
         /\ search[c].at <= Len(log)
         /\ search[c].at = Len(log) => search[c].selections = Selections
    /\ \A c \in Tabs : reply[c] = "conflict" \/ refused[c] => session[c] # NoSession /\ ~Quiet(c)

\* The journals: after a valid event come events only, a live one holds what was
\* learned before and after it, and what is learned is what the log teaches.
JournalIn(entries, l) ==
    /\ \A i \in DOMAIN entries : IsEvent(entries[i]) /\ entries[i].valid =>
         \A j \in i..Len(entries) : IsEvent(entries[j])
    /\ \A i \in DOMAIN entries : IsLive(entries[i]) /\ entries[i].valid =>
         entries[i].before = Lessons(entries)[i - 1] /\ entries[i].after = Lessons(entries)[i]
    /\ l = Lessons(entries)[Len(entries)]

Journal == JournalIn(log, learned)

FeedbackInv ==
    /\ FeedbackTypeOK /\ Operating /\ Owned /\ Identified /\ Pending
    /\ Synced /\ Replacing /\ Exclusive /\ Anchored /\ Journal

-------------------------------------------------------------------------------
(***************************************************************************)
(* Least elements, induction along an interval, and recursion along one.   *)
(***************************************************************************)
LEMMA Least ==
    ASSUME NEW T \in SUBSET Nat, T # {}
    PROVE  \E n \in T : \A m \in T : n <= m
<1> DEFINE R == {p \in Nat \X Nat : p[1] < p[2]}
<1>1. IsWellFoundedOn(OpToRel(<, Nat), Nat)
    BY NatLessThanWellFounded
<1>2. R = OpToRel(<, Nat)
    BY DEF OpToRel
<1>3. IsWellFoundedOn(R, Nat)
    BY <1>1, <1>2
<1>4. \E n \in T : \A m \in T : ~ (<<m, n>> \in R)
  <2> HIDE DEF R
  <2> QED
      BY <1>3, WFMin
<1>5. PICK n \in T : \A m \in T : ~ (<<m, n>> \in R)
    BY <1>4
<1>6. n \in Nat /\ \A m \in T : m \in Nat /\ ~ (m < n)
    BY <1>5
<1>7. \A m \in T : n <= m
    BY <1>6
<1> QED
    BY <1>7

LEMMA Along ==
    ASSUME NEW S, NEW after, NEW first \in Nat, NEW last \in Nat, first <= last,
           after[first] \in S,
           \A n \in (first + 1)..last : after[n - 1] \in S => after[n] \in S
    PROVE  after[last] \in S
<1> DEFINE Missed == {n \in first..last : after[n] \notin S}
<1>1. SUFFICES ASSUME Missed # {} PROVE FALSE
    OBVIOUS
<1>2. PICK n \in Missed : \A m \in Missed : n <= m
  <2>1. Missed \in SUBSET Nat
      OBVIOUS
  <2> HIDE DEF Missed
  <2> QED
      BY <1>1, <2>1, Least
<1>3. n # first /\ n \in (first + 1)..last
    BY <1>2
<1>4. n - 1 \in first..last /\ n - 1 \notin Missed
    BY <1>2, <1>3
<1>5. after[n - 1] \in S
    BY <1>4
<1> QED
    BY <1>2, <1>3, <1>5

LEMMA MaxFacts ==
    ASSUME NEW n \in Nat, NEW T \in SUBSET (1..n), T # {}
    PROVE  Max(T) \in T /\ \A m \in T : m <= Max(T)
<1> DEFINE U == {n - m : m \in T}
<1>1. U \in SUBSET Nat /\ U # {}
  <2>1. \A m \in T : m \in 1..n
      OBVIOUS
  <2>2. \A m \in 1..n : n - m \in Nat
      OBVIOUS
  <2> QED
      BY <2>1, <2>2
<1>2. PICK u \in U : \A v \in U : u <= v
  <2> HIDE DEF U
  <2> QED
      BY <1>1, Least
<1>3. PICK x \in T : u = n - x
    BY <1>2
<1>4. \A m \in T : n - m \in U
    OBVIOUS
<1>5. \A m \in T : x >= m
  <2>1. \A m \in T : m \in 1..n
      OBVIOUS
  <2>2. x \in 1..n
      BY <2>1
  <2> HIDE DEF U
  <2>3. \A m \in T : n - x <= n - m
      BY <1>2, <1>3, <1>4
  <2> QED
      BY <2>1, <2>2, <2>3
<1> QED
    BY <1>5 DEF Max

LEMMA MinFacts ==
    ASSUME NEW T \in SUBSET Nat, T # {}
    PROVE  Min(T) \in T /\ \A m \in T : Min(T) <= m
<1>1. \E x \in T : \A m \in T : x <= m
    BY Least
<1> QED
    BY <1>1 DEF Min

\* A recursive definition along an interval, with a step that stays in S, has a value.
Solvable(S, a, b, start, F) ==
    \E g \in [a..b -> S] : \A n \in a..b : g[n] = IF n = a THEN start ELSE F[<<g[n - 1], n>>]

LEMMA Recursion ==
    ASSUME NEW S, NEW a \in Nat, NEW b \in Nat, a <= b, NEW start \in S,
           NEW F \in [S \X Nat -> S]
    PROVE  Solvable(S, a, b, start, F)
<1> DEFINE Built(g, m) == /\ g \in [a..m -> S]
                          /\ \A n \in a..m : g[n] = IF n = a THEN start ELSE F[<<g[n - 1], n>>]
           Buildable == {m \in a..b : \E g : Built(g, m)}
           have == [m \in a..b |-> m]
<1>1. a \in Buildable
  <2> DEFINE g == [n \in a..a |-> start]
  <2>1. Built(g, a)
      OBVIOUS
  <2>2. a \in a..b
      OBVIOUS
  <2> HIDE DEF Built, g
  <2> QED
      BY <2>1, <2>2
<1>2. ASSUME NEW m \in (a + 1)..b, m - 1 \in Buildable
      PROVE  m \in Buildable
  <2>1. PICK g : Built(g, m - 1)
      BY <1>2
  <2> DEFINE v == F[<<g[m - 1], m>>]
             h == [n \in a..m |-> IF n = m THEN v ELSE g[n]]
  <2>2. g[m - 1] \in S /\ v \in S
    <3>1. m - 1 \in a..(m - 1) /\ m \in Nat
        OBVIOUS
    <3>2. g[m - 1] \in S
        BY <2>1, <3>1
    <3> QED
        BY <3>1, <3>2
  <2>3. h \in [a..m -> S]
    <3>1. \A n \in a..m : n # m => n \in a..(m - 1)
        OBVIOUS
    <3> HIDE DEF v
    <3> QED
        BY <2>1, <2>2, <3>1
  <2>4. \A n \in a..m : h[n] = IF n = a THEN start ELSE F[<<h[n - 1], n>>]
    <3>1. \A n \in a..(m - 1) : g[n] = IF n = a THEN start ELSE F[<<g[n - 1], n>>]
        BY <2>1
    <3>2. \A n \in a..(m - 1) : h[n] = g[n]
        OBVIOUS
    <3>3. h[m] = v /\ m - 1 \in a..(m - 1) /\ m # a
        OBVIOUS
    <3>4. \A n \in (a + 1)..(m - 1) : n - 1 \in a..(m - 1)
        OBVIOUS
    <3>5. \A n \in a..m : n = m \/ n = a \/ n \in (a + 1)..(m - 1)
        OBVIOUS
    <3>6. \A n \in (a + 1)..(m - 1) : n \in a..(m - 1) /\ n # a
        OBVIOUS
    <3>7. h[a] = start /\ a \in a..(m - 1)
      <4>1. a \in a..(m - 1)
          OBVIOUS
      <4> HIDE DEF h
      <4> QED
          BY <3>1, <3>2, <4>1
    <3>8. v = F[<<h[m - 1], m>>]
        BY <3>2, <3>3
    <3>9. \A n \in (a + 1)..(m - 1) : h[n] = F[<<h[n - 1], n>>]
        BY <3>1, <3>2, <3>4, <3>6
    <3> HIDE DEF h, v
    <3> QED
        BY <3>3, <3>5, <3>6, <3>7, <3>8, <3>9
  <2>5. Built(h, m)
    <3> HIDE DEF h
    <3> QED
        BY <2>3, <2>4
  <2> HIDE DEF Built
  <2> QED
      BY <2>5
<1>3. b \in Buildable
  <2> HIDE DEF Buildable
  <2>1. \A n \in (a + 1)..b : have[n - 1] \in Buildable => have[n] \in Buildable
      BY <1>2
  <2>2. have[a] \in Buildable
      BY <1>1
  <2>3. have[b] \in Buildable
    <3> HIDE DEF have
    <3> QED
        BY <2>1, <2>2, Along
  <2> QED
      BY <2>3
<1>4. PICK g : Built(g, b)
    BY <1>3
<1> QED
    BY <1>4 DEF Solvable

-------------------------------------------------------------------------------
(***************************************************************************)
(* What is learned from a log.                                             *)
(***************************************************************************)
Zero == [weight |-> 0, term |-> 0]

LEMMA TeachFacts ==
    ASSUME NEW l \in Learned, NEW e \in LogEntries
    PROVE  /\ Teach(l, e) \in Learned
           /\ IsEvent(e) => Apply(l, e.action) \in Learned
           /\ IsEvent(e) => Teach(l, e) = IF IsLive(e) THEN Apply(l, e.action) ELSE l
<1>1. \A n \in Int : Clamped(n) \in -Cap..Cap
    BY FeedbackBoundsAssumption DEF Clamped
<1>2. \A a : Delta(a) \in {-1, 0, 1}
    BY DEF Delta
<1>3. l.weight \in Int /\ l.term \in Int /\ l = [weight |-> l.weight, term |-> l.term]
    BY FeedbackBoundsAssumption DEF Learned
<1>4. \A a : Apply(l, a) \in Learned
    BY <1>1, <1>2, <1>3 DEF Apply, Learned
<1>5. /\ [l EXCEPT !.weight = Clamped(@ + 1)] \in Learned
      /\ [l EXCEPT !.term = 0] \in Learned
    BY <1>1, <1>3, FeedbackBoundsAssumption DEF Learned
<1>6. IsEvent(e) => e.kind # "legacy" /\ e.kind # "reset"
    BY DEF IsEvent
<1>7. IsLive(e) => IsEvent(e)
    BY DEF IsLive
<1> QED
    BY <1>4, <1>5, <1>6, <1>7 DEF Teach

LEMMA LessonsFacts ==
    ASSUME NEW L \in Seq(LogEntries)
    PROVE  /\ Lessons(L) \in [0..Len(L) -> Learned]
           /\ Lessons(L)[0] = Zero
           /\ \A n \in 1..Len(L) : Lessons(L)[n] = Teach(Lessons(L)[n - 1], L[n])
<1> DEFINE N == Len(L)
           F == [p \in Learned \X Nat |-> IF p[2] \in 1..N THEN Teach(p[1], L[p[2]]) ELSE p[1]]
           Solves(g) == g = [i \in 0..N |-> IF i = 0 THEN Zero ELSE Teach(g[i - 1], L[i])]
<1>1. N \in Nat /\ \A i \in 1..N : L[i] \in LogEntries
    OBVIOUS
<1>2. F \in [Learned \X Nat -> Learned]
    BY <1>1, TeachFacts
<1>3. Zero \in Learned
    BY FeedbackBoundsAssumption DEF Zero, Learned
<1>4. PICK g \in [0..N -> Learned] :
        \A n \in 0..N : g[n] = IF n = 0 THEN Zero ELSE F[<<g[n - 1], n>>]
  <2>1. 0 \in Nat /\ 0 <= N
      BY <1>1
  <2>2. Solvable(Learned, 0, N, Zero, F)
    <3> HIDE DEF F, N
    <3> QED
        BY <1>1, <1>2, <1>3, <2>1, Recursion
  <2> HIDE DEF F, N
  <2> QED
      BY <2>2 DEF Solvable
<1>5. Solves(g)
  <2>1. \A n \in 1..N : n - 1 \in 0..N /\ n \in 0..N /\ n # 0 /\ n \in Nat
      BY <1>1
  <2>2. \A n \in 1..N : F[<<g[n - 1], n>>] = Teach(g[n - 1], L[n])
      BY <2>1
  <2>3. \A n \in 0..N : n # 0 => n \in 1..N
      BY <1>1
  <2>4. \A n \in 0..N : g[n] = IF n = 0 THEN Zero ELSE F[<<g[n - 1], n>>]
      BY <1>4
  <2>5. \A n \in 0..N : g[n] = IF n = 0 THEN Zero ELSE Teach(g[n - 1], L[n])
    <3> HIDE DEF F, N
    <3> QED
        BY <2>2, <2>3, <2>4
  <2>6. g = [n \in 0..N |-> g[n]]
      OBVIOUS
  <2> HIDE DEF F, N
  <2> QED
      BY <2>5, <2>6
<1> DEFINE taught == CHOOSE f : Solves(f)
<1>6. Solves(taught)
  <2> HIDE DEF Solves
  <2> QED
      BY <1>5
<1>7. Lessons(L) = taught
    BY DEF Lessons, Zero
<1> HIDE DEF taught
<1>8. \A n \in 0..N : taught[n] = IF n = 0 THEN Zero ELSE Teach(taught[n - 1], L[n])
    BY <1>6
<1>9. taught[0] = Zero
  <2>1. 0 \in 0..N
      BY <1>1
  <2> QED
      BY <1>8, <2>1
<1>10. \A n \in 1..N : taught[n] = Teach(taught[n - 1], L[n])
    BY <1>1, <1>8
<1>11. \A n \in 0..N : taught[n] \in Learned
  <2>1. SUFFICES ASSUME NEW n \in 0..N PROVE taught[n] \in Learned
      OBVIOUS
  <2>2. \A m \in 1..n : taught[m - 1] \in Learned => taught[m] \in Learned
    <3>1. \A m \in 1..n : m \in 1..N /\ L[m] \in LogEntries
        BY <1>1
    <3> QED
        BY <1>10, <3>1, TeachFacts
  <2>3. taught[0] \in Learned /\ n \in Nat /\ 0 <= n
      BY <1>3, <1>9, <1>1
  <2> HIDE DEF N
  <2> QED
      BY <2>2, <2>3, Along
<1>12. taught = [n \in 0..N |-> taught[n]]
    BY <1>6
<1> HIDE DEF N
<1>13. taught \in [0..N -> Learned]
    BY <1>11, <1>12
<1> QED
    BY <1>7, <1>9, <1>10, <1>13 DEF N

LEMMA SameLessons ==
    ASSUME NEW L \in Seq(LogEntries), NEW M \in Seq(LogEntries),
           NEW m \in 0..Len(L), m <= Len(M),
           \A i \in 1..m : \A l \in Learned : Teach(l, L[i]) = Teach(l, M[i])
    PROVE  \A n \in 0..m : Lessons(L)[n] = Lessons(M)[n]
<1>1. SUFFICES ASSUME NEW n \in 0..m PROVE Lessons(L)[n] = Lessons(M)[n]
    OBVIOUS
<1> DEFINE same == [i \in 0..n |-> IF Lessons(L)[i] = Lessons(M)[i] THEN 1 ELSE 0]
<1>2. n \in Nat /\ 0 <= n /\ 0 \in 0..n /\ \A i \in 1..n : i \in 0..n /\ i - 1 \in 0..n
    OBVIOUS
<1>3. same[0] \in {1}
    BY <1>2, LessonsFacts
<1>4. \A i \in (0 + 1)..n : same[i - 1] \in {1} => same[i] \in {1}
  <2>1. SUFFICES ASSUME NEW i \in 1..n, Lessons(L)[i - 1] = Lessons(M)[i - 1]
                 PROVE  Lessons(L)[i] = Lessons(M)[i]
      BY <1>2
  <2>2. i \in 1..m /\ i \in 1..Len(L) /\ i \in 1..Len(M) /\ i - 1 \in 0..Len(L)
      OBVIOUS
  <2>3. Lessons(L)[i - 1] \in Learned
      BY <2>2, LessonsFacts
  <2> QED
      BY <2>1, <2>2, <2>3, LessonsFacts
<1>5. same[n] \in {1}
  <2> HIDE DEF same
  <2> QED
      BY <1>2, <1>3, <1>4, Along
<1> QED
    BY <1>2, <1>5

\* Events that are not live teach nothing.
LEMMA IdleLessons ==
    ASSUME NEW L \in Seq(LogEntries), NEW a \in 0..Len(L), NEW b \in a..Len(L),
           \A i \in (a + 1)..b : IsEvent(L[i]) /\ ~IsLive(L[i])
    PROVE  Lessons(L)[b] = Lessons(L)[a]
<1> DEFINE S == {Lessons(L)[a]}
<1>1. a \in Nat /\ b \in Nat /\ a <= b
    OBVIOUS
<1>2. \A i \in (a + 1)..b : Lessons(L)[i - 1] \in S => Lessons(L)[i] \in S
  <2>1. SUFFICES ASSUME NEW i \in (a + 1)..b PROVE Lessons(L)[i] = Lessons(L)[i - 1]
      OBVIOUS
  <2>2. i \in 1..Len(L) /\ i - 1 \in 0..Len(L) /\ L[i] \in LogEntries
      BY <1>1
  <2>3. Lessons(L)[i - 1] \in Learned
      BY <2>2, LessonsFacts
  <2>4. Teach(Lessons(L)[i - 1], L[i]) = Lessons(L)[i - 1]
      BY <2>2, <2>3, TeachFacts
  <2> QED
      BY <2>2, <2>4, LessonsFacts
<1>3. Lessons(L)[a] \in S
    OBVIOUS
<1>4. Lessons(L)[b] \in S
  <2> HIDE DEF S
  <2> QED
      BY <1>1, <1>2, <1>3, Along
<1> QED
    BY <1>4

LEMMA EntryFacts ==
    ASSUME NEW e \in LogEntries, IsEvent(e)
    PROVE  /\ e \in [kind : {"event"}, id : 1..MaxIds, slot : Slots, action : AnyAction,
                     session : 1..MaxSessions, superseded : BOOLEAN, valid : BOOLEAN,
                     before : Learned, after : Learned]
           /\ e.action \in Actions(e.slot)
           /\ e.id \in 1..MaxIds /\ e.slot \in Slots /\ e.session \in 1..MaxSessions
           /\ e.before \in Learned /\ e.after \in Learned
           /\ e.superseded \in BOOLEAN /\ e.valid \in BOOLEAN
<1>1. ~ (e \in [kind : {"legacy", "reset"}])
    BY DEF IsEvent
<1> QED
    BY <1>1 DEF LogEntries

LEMMA ReplayedFacts ==
    ASSUME log \in Seq(LogEntries), NEW k \in 1..Len(log), IsEvent(log[k]),
           \A i \in k..Len(log) : IsEvent(log[i])
    PROVE  /\ \A n \in k..Len(log) : Replayed(k)[n] \in Learned
           /\ Replayed(k)[k] = log[k].before
           /\ \A n \in (k + 1)..Len(log) :
                Replayed(k)[n] = IF IsLive(log[n]) THEN Apply(Replayed(k)[n - 1], log[n].action)
                                 ELSE Replayed(k)[n - 1]
<1> DEFINE N == Len(log)
           Again(l, n) == IF IsLive(log[n]) THEN Apply(l, log[n].action) ELSE l
           F == [p \in Learned \X Nat |-> IF p[2] \in k..N THEN Again(p[1], p[2]) ELSE p[1]]
           Solves(g) == g = [i \in k..N |-> IF i = k THEN log[k].before
                                            ELSE IF IsLive(log[i]) THEN Apply(g[i - 1], log[i].action)
                                            ELSE g[i - 1]]
<1>1. N \in Nat /\ k \in Nat /\ k <= N /\ \A i \in k..N : log[i] \in LogEntries
    OBVIOUS
<1>2. \A l \in Learned : \A n \in k..N : Again(l, n) \in Learned
    BY <1>1, TeachFacts
<1>3. F \in [Learned \X Nat -> Learned]
  <2> HIDE DEF Again
  <2> QED
      BY <1>2
<1>4. log[k].before \in Learned
    BY <1>1, EntryFacts
<1>5. Solvable(Learned, k, N, log[k].before, F)
  <2> HIDE DEF F, N
  <2> QED
      BY <1>1, <1>3, <1>4, Recursion
<1>6. PICK g \in [k..N -> Learned] :
        \A n \in k..N : g[n] = IF n = k THEN log[k].before ELSE F[<<g[n - 1], n>>]
  <2> HIDE DEF F
  <2> QED
      BY <1>5 DEF Solvable
<1>7. \A n \in (k + 1)..N : n - 1 \in k..N /\ n \in k..N /\ n # k /\ n \in Nat
    BY <1>1
<1>8. Solves(g)
  <2>1. \A n \in (k + 1)..N : F[<<g[n - 1], n>>] = Again(g[n - 1], n)
    <3> HIDE DEF Again
    <3> QED
        BY <1>7
  <2>2. \A n \in k..N : n # k => n \in (k + 1)..N
      BY <1>1
  <2>3. \A n \in k..N : g[n] = IF n = k THEN log[k].before ELSE Again(g[n - 1], n)
    <3> HIDE DEF F, Again
    <3> QED
        BY <1>6, <2>1, <2>2
  <2>4. g = [n \in k..N |-> g[n]]
      OBVIOUS
  <2> HIDE DEF F, N
  <2> QED
      BY <2>3, <2>4
<1> DEFINE taught == CHOOSE f : Solves(f)
<1>9. Solves(taught)
  <2> HIDE DEF Solves
  <2> QED
      BY <1>8
<1>10. Replayed(k) = taught
    BY DEF Replayed
<1> HIDE DEF taught, F
<1>11. \A n \in k..N : taught[n] = IF n = k THEN log[k].before ELSE Again(taught[n - 1], n)
    BY <1>9
<1> HIDE DEF Solves
<1>12. taught[k] = log[k].before
    BY <1>1, <1>11
<1>13. \A n \in (k + 1)..N : taught[n] = Again(taught[n - 1], n)
  <2> HIDE DEF Again, N
  <2> QED
      BY <1>7, <1>11
<1>14. \A n \in k..N : taught[n] \in Learned
  <2>1. SUFFICES ASSUME NEW n \in k..N PROVE taught[n] \in Learned
      OBVIOUS
  <2> HIDE DEF Again
  <2>2. \A m \in (k + 1)..n : taught[m - 1] \in Learned => taught[m] \in Learned
    <3>1. \A m \in (k + 1)..n : m \in (k + 1)..N /\ m \in k..N
        BY <1>1
    <3> QED
        BY <1>2, <1>13, <3>1
  <2>3. taught[k] \in Learned /\ n \in Nat /\ k <= n
      BY <1>4, <1>12, <1>1
  <2> HIDE DEF N
  <2> QED
      BY <1>1, <2>2, <2>3, Along
<1> QED
    BY <1>10, <1>12, <1>13, <1>14

\* Replaying a log whose events from k on are live in M, except k, teaches what M does.
LEMMA ReplayedTeaches ==
    ASSUME log \in Seq(LogEntries), NEW k \in 1..Len(log), IsEvent(log[k]),
           \A i \in k..Len(log) : IsEvent(log[i]),
           NEW M \in Seq(LogEntries), Len(M) = Len(log), Lessons(M)[k] = log[k].before,
           \A i \in (k + 1)..Len(log) :
               IsEvent(M[i]) /\ (IsLive(M[i]) <=> IsLive(log[i])) /\ M[i].action = log[i].action
    PROVE  \A n \in k..Len(log) : Replayed(k)[n] = Lessons(M)[n]
<1>1. SUFFICES ASSUME NEW n \in k..Len(log) PROVE Replayed(k)[n] = Lessons(M)[n]
    OBVIOUS
<1> DEFINE same == [i \in k..n |-> IF Replayed(k)[i] = Lessons(M)[i] THEN 1 ELSE 0]
<1>2. n \in Nat /\ k \in Nat /\ k <= n /\ k \in k..n
    OBVIOUS
<1>3. \A i \in (k + 1)..n : /\ i \in k..n /\ i - 1 \in k..n /\ i - 1 \in k..Len(log)
                            /\ i \in (k + 1)..Len(log) /\ i \in 1..Len(M)
    OBVIOUS
<1>4. same[k] \in {1}
    BY <1>2, ReplayedFacts
<1>5. \A i \in (k + 1)..n : same[i - 1] \in {1} => same[i] \in {1}
  <2>1. SUFFICES ASSUME NEW i \in (k + 1)..n, Replayed(k)[i - 1] = Lessons(M)[i - 1]
                 PROVE  Replayed(k)[i] = Lessons(M)[i]
      BY <1>3
  <2>2. Replayed(k)[i - 1] \in Learned
      BY <1>3, ReplayedFacts
  <2>3. M[i] \in LogEntries
      BY <1>3
  <2>4. Teach(Replayed(k)[i - 1], M[i])
          = IF IsLive(log[i]) THEN Apply(Replayed(k)[i - 1], log[i].action) ELSE Replayed(k)[i - 1]
      BY <1>3, <2>2, <2>3, TeachFacts
  <2>5. Lessons(M)[i] = Teach(Lessons(M)[i - 1], M[i])
      BY <1>3, LessonsFacts
  <2>6. Replayed(k)[i] = IF IsLive(log[i]) THEN Apply(Replayed(k)[i - 1], log[i].action)
                         ELSE Replayed(k)[i - 1]
      BY <1>3, ReplayedFacts
  <2> QED
      BY <2>1, <2>4, <2>5, <2>6
<1>6. same[n] \in {1}
  <2> HIDE DEF same
  <2> QED
      BY <1>2, <1>4, <1>5, Along
<1> QED
    BY <1>2, <1>6

-------------------------------------------------------------------------------
(***************************************************************************)
(* What a write does to the log and the journals.                          *)
(***************************************************************************)
SameEvent(e, f) ==
    /\ IsEvent(f) <=> IsEvent(e)
    /\ IsEvent(e) => /\ f.id = e.id /\ f.slot = e.slot /\ f.action = e.action
                     /\ f.session = e.session

LEMMA AppendFacts ==
    ASSUME NEW L \in Seq(LogEntries), NEW l \in Learned, JournalIn(L, l),
           NEW e \in LogEntries, IsLive(e), e.before = l, e.after = Apply(l, e.action)
    PROVE  JournalIn(Append(L, e), e.after)
<1> DEFINE M == Append(L, e)
<1>1. /\ M \in Seq(LogEntries) /\ Len(M) = Len(L) + 1 /\ Len(L) \in Nat
      /\ \A i \in 1..Len(L) : M[i] = L[i]
      /\ M[Len(L) + 1] = e
    OBVIOUS
<1> HIDE DEF M
<1>2. \A n \in 0..Len(L) : Lessons(M)[n] = Lessons(L)[n]
  <2>1. Len(L) \in 0..Len(L) /\ Len(L) <= Len(M)
      BY <1>1
  <2>2. \A i \in 1..Len(L) : \A x \in Learned : Teach(x, L[i]) = Teach(x, M[i])
      BY <1>1
  <2> QED
      BY <1>1, <2>1, <2>2, SameLessons
<1>3. IsEvent(e)
    BY DEF IsLive
<1>4. Lessons(M)[Len(L) + 1] = Apply(l, e.action)
  <2>1. Lessons(M)[Len(L)] = l
      BY <1>1, <1>2 DEF JournalIn
  <2>2. Lessons(M)[Len(L) + 1] = Teach(Lessons(M)[Len(L)], M[Len(L) + 1])
    <3>1. Len(L) + 1 \in 1..Len(M) /\ (Len(L) + 1) - 1 = Len(L)
        BY <1>1
    <3> QED
        BY <1>1, <3>1, LessonsFacts
  <2> QED
      BY <1>1, <1>3, <2>1, <2>2, TeachFacts
<1>5. DOMAIN M = 1..(Len(L) + 1) /\ DOMAIN L = 1..Len(L)
    BY <1>1
<1>6. ASSUME NEW i \in 1..(Len(L) + 1), IsEvent(M[i]) /\ M[i].valid
      PROVE  \A j \in i..Len(M) : IsEvent(M[j])
  <2>1. CASE i = Len(L) + 1
    <3>1. \A j \in i..Len(M) : j = i
        BY <1>1, <2>1
    <3> QED
        BY <1>6, <3>1
  <2>2. CASE i \in 1..Len(L)
    <3>1. \A j \in i..Len(L) : IsEvent(L[j])
        BY <1>1, <1>5, <1>6, <2>2 DEF JournalIn
    <3>2. \A j \in i..Len(M) : j = Len(L) + 1 \/ (j \in i..Len(L) /\ j \in 1..Len(L))
      <4>1. SUFFICES ASSUME NEW n \in Nat, i \in 1..n
                     PROVE  \A j \in i..(n + 1) : j = n + 1 \/ (j \in i..n /\ j \in 1..n)
          BY <1>1, <2>2
      <4> QED
          BY <4>1
    <3> QED
        BY <1>1, <1>3, <3>1, <3>2
  <2> QED
      BY <1>1, <2>1, <2>2
<1>7. ASSUME NEW i \in 1..(Len(L) + 1), IsLive(M[i]) /\ M[i].valid
      PROVE  M[i].before = Lessons(M)[i - 1] /\ M[i].after = Lessons(M)[i]
  <2>1. CASE i = Len(L) + 1
    <3>1. i - 1 = Len(L) /\ Len(L) \in 0..Len(L)
        BY <1>1, <2>1
    <3>2. Lessons(M)[Len(L)] = l
        BY <1>2, <3>1 DEF JournalIn
    <3> QED
        BY <1>1, <1>4, <2>1, <3>1, <3>2
  <2>2. CASE i \in 1..Len(L)
    <3>1. i - 1 \in 0..Len(L) /\ i \in 0..Len(L)
        BY <1>1, <2>2
    <3>2. L[i].before = Lessons(L)[i - 1] /\ L[i].after = Lessons(L)[i]
        BY <1>1, <1>5, <1>7, <2>2 DEF JournalIn
    <3> QED
        BY <1>1, <1>2, <2>2, <3>1, <3>2
  <2> QED
      BY <1>1, <2>1, <2>2
<1>8. e.after = Lessons(M)[Len(M)]
    BY <1>1, <1>4
<1>9. JournalIn(M, e.after)
    BY <1>1, <1>5, <1>6, <1>7, <1>8 DEF JournalIn
<1> QED
    BY <1>9 DEF M

LEMMA MarkFacts ==
    ASSUME NEW L \in Seq(LogEntries), NEW l \in Learned, JournalIn(L, l),
           NEW e \in [kind : {"legacy", "reset"}],
           NEW M \in Seq(LogEntries), Len(M) = Len(L) + 1, M[Len(L) + 1] = e,
           \A i \in 1..Len(L) : /\ SameEvent(L[i], M[i])
                                /\ IsEvent(L[i]) => ~M[i].valid /\ M[i].superseded = L[i].superseded
                                /\ ~IsEvent(L[i]) => M[i] = L[i]
    PROVE  JournalIn(M, Teach(l, e))
<1>1. Len(L) \in Nat /\ DOMAIN M = 1..(Len(L) + 1) /\ ~IsEvent(e) /\ e \in LogEntries
    BY DEF IsEvent, LogEntries
<1>2. \A i \in 1..Len(L) : \A x \in Learned : Teach(x, L[i]) = Teach(x, M[i])
  <2>1. SUFFICES ASSUME NEW i \in 1..Len(L), NEW x \in Learned, IsEvent(L[i])
                 PROVE  Teach(x, L[i]) = Teach(x, M[i])
      OBVIOUS
  <2>2. L[i] \in LogEntries /\ M[i] \in LogEntries /\ IsEvent(M[i]) /\ M[i].action = L[i].action
      BY <1>1, <2>1 DEF SameEvent
  <2>3. IsLive(M[i]) <=> IsLive(L[i])
      BY <2>1, <2>2 DEF IsLive
  <2>4. Teach(x, L[i]) = IF IsLive(L[i]) THEN Apply(x, L[i].action) ELSE x
      BY <2>1, <2>2, TeachFacts
  <2>5. Teach(x, M[i]) = IF IsLive(M[i]) THEN Apply(x, M[i].action) ELSE x
      BY <2>1, <2>2, TeachFacts
  <2> QED
      BY <2>2, <2>3, <2>4, <2>5
<1>3. \A n \in 0..Len(L) : Lessons(M)[n] = Lessons(L)[n]
  <2> DEFINE m == Len(L)
  <2>1. m \in 0..Len(L) /\ m <= Len(M)
      BY <1>1
  <2>2. \A i \in 1..m : \A x \in Learned : Teach(x, L[i]) = Teach(x, M[i])
      BY <1>2
  <2> HIDE DEF m
  <2>3. \A n \in 0..m : Lessons(L)[n] = Lessons(M)[n]
      BY <2>1, <2>2, SameLessons
  <2> QED
      BY <2>3 DEF m
<1>4. \A i \in 1..(Len(L) + 1) : ~ (IsEvent(M[i]) /\ M[i].valid)
  <2>1. \A i \in 1..(Len(L) + 1) : i = Len(L) + 1 \/ i \in 1..Len(L)
      BY <1>1
  <2> QED
      BY <1>1, <2>1 DEF SameEvent
<1>5. Lessons(M)[Len(M)] = Teach(l, e)
  <2>1. Len(M) \in 1..Len(M) /\ Len(M) - 1 = Len(L) /\ Len(L) \in 0..Len(L)
      BY <1>1
  <2>2. Lessons(M)[Len(M)] = Teach(Lessons(M)[Len(L)], e)
      BY <2>1, LessonsFacts
  <2> QED
      BY <1>3, <2>1, <2>2 DEF JournalIn
<1>6. \A i \in 1..(Len(L) + 1) : ~ (IsLive(M[i]) /\ M[i].valid)
    BY <1>4 DEF IsLive
<1> QED
    BY <1>1, <1>4, <1>5, <1>6 DEF JournalIn

LEMMA RetractedFacts ==
    ASSUME log \in Seq(LogEntries), learned \in Learned, Journal,
           NEW k \in 1..Len(log), IsLive(log[k]), Intact(k)
    PROVE  /\ Retracted(k).log \in Seq(LogEntries)
           /\ Len(Retracted(k).log) = Len(log)
           /\ \A i \in 1..Len(log) :
                /\ SameEvent(log[i], Retracted(k).log[i])
                /\ IsEvent(log[i]) => Retracted(k).log[i].valid = log[i].valid
                /\ IsLive(Retracted(k).log[i]) <=> IsLive(log[i]) /\ i # k
           /\ Retracted(k).learned \in Learned
           /\ JournalIn(Retracted(k).log, Retracted(k).learned)
<1> DEFINE N == Len(log)
           M == Retracted(k).log
           R == Replayed(k)
<1>1. N \in Nat /\ k \in Nat /\ k <= N /\ DOMAIN log = 1..N /\ k \in k..N
      /\ \A i \in 1..N : log[i] \in LogEntries
    OBVIOUS
<1>2. IsEvent(log[k]) /\ log[k].valid
    BY <1>1 DEF IsLive, Intact, LiveSince
<1>3. \A i \in k..N : IsEvent(log[i]) /\ i \in 1..N
    BY <1>1, <1>2 DEF Journal, JournalIn
<1>4. \A n \in k..N : R[n] \in Learned
    BY <1>2, <1>3, ReplayedFacts
<1>5. /\ M = [i \in 1..N |->
                IF i = k THEN [log[i] EXCEPT !.superseded = TRUE]
                ELSE IF i > k /\ IsLive(log[i])
                THEN [log[i] EXCEPT !.before = R[i - 1], !.after = R[i]]
                ELSE log[i]]
      /\ Retracted(k).learned = R[N]
    BY <1>1 DEF Retracted
<1>6. \A i \in 1..N : M[i] = IF i = k THEN [log[i] EXCEPT !.superseded = TRUE]
                             ELSE IF i > k /\ IsLive(log[i])
                             THEN [log[i] EXCEPT !.before = R[i - 1], !.after = R[i]]
                             ELSE log[i]
    BY <1>5
<1> HIDE DEF R, M
<1>7. \A i \in 1..N : i < k \/ ~IsLive(log[i]) => i = k \/ M[i] = log[i]
  <2>1. SUFFICES ASSUME NEW i \in 1..N, i # k, ~ (i > k /\ IsLive(log[i])) PROVE M[i] = log[i]
      BY <1>1
  <2> QED
      BY <1>6, <2>1
<1>8. M[k] = [log[k] EXCEPT !.superseded = TRUE]
    BY <1>1, <1>6
<1>9. \A i \in (k + 1)..N : IsLive(log[i]) => M[i] = [log[i] EXCEPT !.before = R[i - 1], !.after = R[i]]
  <2>1. \A i \in (k + 1)..N : i \in 1..N /\ i # k /\ i > k
      BY <1>1
  <2> QED
      BY <1>6, <2>1
<1>10. \A i \in 1..N : i \in (k + 1)..N \/ i = k \/ i < k
    BY <1>1
<1>11. \A i \in 1..N : M[i] \in LogEntries /\ SameEvent(log[i], M[i])
                       /\ (IsEvent(log[i]) => M[i].valid = log[i].valid)
                       /\ (IsLive(M[i]) <=> IsLive(log[i]) /\ i # k)
  <2>1. ASSUME NEW i \in 1..N, i = k
        PROVE  /\ M[i] \in LogEntries /\ SameEvent(log[i], M[i])
               /\ (IsEvent(log[i]) => M[i].valid = log[i].valid)
               /\ ~IsLive(M[i])
    <3>1. log[k] \in [kind : {"event"}, id : 1..MaxIds, slot : Slots, action : AnyAction,
                      session : 1..MaxSessions, superseded : BOOLEAN, valid : BOOLEAN,
                      before : Learned, after : Learned]
          /\ log[k].action \in Actions(log[k].slot)
        BY <1>1, <1>2, EntryFacts
    <3>2. M[k].kind = log[k].kind /\ M[k].id = log[k].id /\ M[k].slot = log[k].slot
          /\ M[k].action = log[k].action /\ M[k].session = log[k].session
          /\ M[k].valid = log[k].valid /\ M[k].superseded = TRUE
        BY <1>8, <3>1
    <3>3. M[k] \in [kind : {"event"}, id : 1..MaxIds, slot : Slots, action : AnyAction,
                    session : 1..MaxSessions, superseded : BOOLEAN, valid : BOOLEAN,
                    before : Learned, after : Learned]
        BY <1>8, <3>1
    <3>4. M[k] \in LogEntries
        BY <3>1, <3>2, <3>3 DEF LogEntries
    <3> QED
        BY <2>1, <3>2, <3>4 DEF SameEvent, IsEvent, IsLive
  <2>2. ASSUME NEW i \in (k + 1)..N, IsLive(log[i])
        PROVE  /\ M[i] \in LogEntries /\ SameEvent(log[i], M[i])
               /\ M[i].valid = log[i].valid
               /\ IsLive(M[i])
    <3>1. IsEvent(log[i]) /\ log[i] \in LogEntries
        BY <1>1, <2>2 DEF IsLive
    <3>2. log[i] \in [kind : {"event"}, id : 1..MaxIds, slot : Slots, action : AnyAction,
                      session : 1..MaxSessions, superseded : BOOLEAN, valid : BOOLEAN,
                      before : Learned, after : Learned]
          /\ log[i].action \in Actions(log[i].slot)
        BY <3>1, EntryFacts
    <3>3. R[i - 1] \in Learned /\ R[i] \in Learned
      <4>1. i - 1 \in k..N /\ i \in k..N
          BY <1>1
      <4> QED
          BY <1>4, <4>1
    <3>4. M[i] = [log[i] EXCEPT !.before = R[i - 1], !.after = R[i]]
        BY <1>9, <2>2
    <3>5. M[i].kind = log[i].kind /\ M[i].id = log[i].id /\ M[i].slot = log[i].slot
          /\ M[i].action = log[i].action /\ M[i].session = log[i].session
          /\ M[i].valid = log[i].valid /\ M[i].superseded = log[i].superseded
        BY <3>2, <3>4
    <3>6. M[i] \in [kind : {"event"}, id : 1..MaxIds, slot : Slots, action : AnyAction,
                    session : 1..MaxSessions, superseded : BOOLEAN, valid : BOOLEAN,
                    before : Learned, after : Learned]
        BY <3>2, <3>3, <3>4
    <3>7. M[i] \in LogEntries
        BY <3>2, <3>5, <3>6 DEF LogEntries
    <3> QED
        BY <2>2, <3>5, <3>7 DEF SameEvent, IsEvent, IsLive
  <2>3. ASSUME NEW i \in 1..N, i # k, M[i] = log[i]
        PROVE  /\ M[i] \in LogEntries /\ SameEvent(log[i], M[i])
               /\ (IsEvent(log[i]) => M[i].valid = log[i].valid)
               /\ (IsLive(M[i]) <=> IsLive(log[i]))
      BY <1>1, <2>3 DEF SameEvent
  <2> QED
      BY <1>7, <1>10, <2>1, <2>2, <2>3
<1>12. M \in Seq(LogEntries) /\ Len(M) = N /\ DOMAIN M = 1..N
  <2>1. M = [i \in 1..N |-> M[i]]
      BY <1>5
  <2>2. \A i \in 1..N : M[i] \in LogEntries
      BY <1>11
  <2> QED
      BY <1>1, <2>1, <2>2
<1>13. \A i \in 0..(k - 1) : Lessons(M)[i] = Lessons(log)[i]
  <2>1. k - 1 \in 0..Len(M) /\ k - 1 <= Len(log)
      BY <1>1, <1>12
  <2>2. \A i \in 1..(k - 1) : i \in 1..N /\ i < k /\ i # k
      BY <1>1
  <2>3. \A i \in 1..(k - 1) : \A l \in Learned : Teach(l, M[i]) = Teach(l, log[i])
      BY <1>7, <2>2
  <2> QED
      BY <1>12, <2>1, <2>3, SameLessons
<1>14. Lessons(M)[k] = log[k].before
  <2>1. log[k].before = Lessons(log)[k - 1]
      BY <1>1, <1>2 DEF Journal, JournalIn
  <2>2. k - 1 \in 0..(k - 1) /\ k - 1 \in 0..Len(M) /\ k \in 0..Len(M) /\ k \in (k - 1)..Len(M)
      BY <1>1, <1>12
  <2>3. \A i \in ((k - 1) + 1)..k : i = k
      BY <1>1
  <2>4. IsEvent(M[k]) /\ ~IsLive(M[k])
      BY <1>1, <1>2, <1>11 DEF SameEvent
  <2>5. Lessons(M)[k] = Lessons(M)[k - 1]
      BY <1>12, <2>2, <2>3, <2>4, IdleLessons
  <2> QED
      BY <1>13, <2>1, <2>2, <2>5
<1>15. \A n \in k..N : R[n] = Lessons(M)[n]
  <2>1. \A i \in (k + 1)..N : i \in k..N /\ i \in 1..N /\ i # k
      BY <1>1
  <2>2. \A i \in (k + 1)..N :
          IsEvent(M[i]) /\ (IsLive(M[i]) <=> IsLive(log[i])) /\ M[i].action = log[i].action
      BY <1>3, <1>11, <2>1 DEF SameEvent
  <2> QED
      BY <1>2, <1>3, <1>12, <1>14, <2>2, ReplayedTeaches DEF R
<1>16. ASSUME NEW i \in 1..N, IsLive(M[i]), M[i].valid
       PROVE  M[i].before = Lessons(M)[i - 1] /\ M[i].after = Lessons(M)[i]
  <2>1. IsLive(log[i]) /\ i # k /\ IsEvent(log[i])
      BY <1>11, <1>16 DEF IsLive
  <2>2. log[i].valid
      BY <1>11, <1>16, <2>1
  <2>3. CASE i < k
    <3>1. M[i] = log[i] /\ i - 1 \in 0..(k - 1) /\ i \in 0..(k - 1)
        BY <1>1, <1>7, <2>1, <2>3
    <3>2. log[i].before = Lessons(log)[i - 1] /\ log[i].after = Lessons(log)[i]
        BY <1>1, <2>1, <2>2 DEF Journal, JournalIn
    <3> QED
        BY <1>13, <3>1, <3>2
  <2>4. CASE i \in (k + 1)..N
    <3>1. M[i] = [log[i] EXCEPT !.before = R[i - 1], !.after = R[i]]
        BY <1>9, <2>1, <2>4
    <3>2. M[i].before = R[i - 1] /\ M[i].after = R[i]
      <4>1. log[i] \in [kind : {"event"}, id : 1..MaxIds, slot : Slots, action : AnyAction,
                        session : 1..MaxSessions, superseded : BOOLEAN, valid : BOOLEAN,
                        before : Learned, after : Learned]
          BY <1>1, <2>1, EntryFacts
      <4> QED
          BY <3>1, <4>1
    <3>3. i - 1 \in k..N /\ i \in k..N
        BY <1>1, <2>4
    <3> QED
        BY <1>15, <3>2, <3>3
  <2> QED
      BY <1>10, <2>1, <2>3, <2>4
<1>17. ASSUME NEW i \in 1..N, IsEvent(M[i]), M[i].valid
       PROVE  \A j \in i..N : IsEvent(M[j])
  <2>1. IsEvent(log[i]) /\ log[i].valid
      BY <1>11, <1>17 DEF SameEvent
  <2>2. \A j \in i..N : IsEvent(log[j]) /\ j \in 1..N
      BY <1>1, <2>1 DEF Journal, JournalIn
  <2> QED
      BY <1>11, <2>2 DEF SameEvent
<1>18. R[N] = Lessons(M)[N] /\ R[N] \in Learned
  <2>1. N \in k..N
      BY <1>1
  <2> QED
      BY <1>4, <1>15, <2>1
<1>19. JournalIn(M, R[N])
    BY <1>12, <1>16, <1>17, <1>18 DEF JournalIn
<1> QED
    BY <1>5, <1>11, <1>12, <1>18, <1>19 DEF M

-------------------------------------------------------------------------------
(***************************************************************************)
(* The three ways in which a step may treat the log.                       *)
(***************************************************************************)
\* The event of r is added; of the others only one of its slot is superseded.
Grown(r) ==
    /\ log' \in Seq(LogEntries) /\ learned' \in Learned
    /\ Len(log') = Len(log) + 1 /\ Len(log) < MaxLog
    /\ \A i \in 1..Len(log) :
         /\ SameEvent(log[i], log'[i])
         /\ IsEvent(log[i]) => log'[i].valid = log[i].valid
         /\ IsLive(log'[i]) => IsLive(log[i])
         /\ IsLive(log[i]) /\ log[i].slot # r.slot => IsLive(log'[i])
    /\ IsLive(log'[Len(log) + 1]) /\ log'[Len(log) + 1].valid
    /\ log'[Len(log) + 1].id = r.id /\ log'[Len(log) + 1].slot = r.slot
    /\ log'[Len(log) + 1].action = r.action /\ log'[Len(log) + 1].session = r.session
    /\ Journal'

\* A mark is added, and no event changes but in its validity.
Marked ==
    /\ log' \in Seq(LogEntries) /\ learned' \in Learned
    /\ Len(log') = Len(log) + 1 /\ Len(log) < MaxLog
    /\ \A i \in 1..Len(log) : /\ SameEvent(log[i], log'[i])
                              /\ IsLive(log'[i]) <=> IsLive(log[i])
    /\ ~IsEvent(log'[Len(log) + 1])
    /\ Journal'

\* The server may neither replace anything nor start a lineage.
Rejected(r) ==
    /\ ~ (r.replaces # NoId /\ Replaceable(r))
    /\ ~ (r.replaces = NoId /\ Startable(r))

LEMMA LatestFacts ==
    ASSUME log \in Seq(LogEntries), NEW s
    PROVE  /\ LatestOf(s) \in 0..Len(log)
           /\ LatestOf(s) # 0 => LatestOf(s) \in LiveOf(s)
           /\ \A i \in LiveOf(s) : LatestOf(s) # 0 /\ i <= LatestOf(s)
<1>1. Len(log) \in Nat /\ LiveOf(s) \in SUBSET (1..Len(log))
    BY DEF LiveOf
<1>2. CASE LiveOf(s) = {}
    BY <1>1, <1>2 DEF LatestOf
<1>3. CASE LiveOf(s) # {}
  <2>1. Max(LiveOf(s)) \in LiveOf(s) /\ \A m \in LiveOf(s) : m <= Max(LiveOf(s))
      BY <1>1, <1>3, MaxFacts
  <2>2. LatestOf(s) = Max(LiveOf(s))
      BY <1>3 DEF LatestOf
  <2>3. LatestOf(s) \in 1..Len(log)
      BY <1>1, <2>1, <2>2
  <2> QED
      BY <1>1, <2>1, <2>2, <2>3
<1> QED
    BY <1>2, <1>3

\* An index above all others of the slot is the latest one.
LEMMA LatestIs ==
    ASSUME log \in Seq(LogEntries), NEW s, NEW k \in LiveOf(s), \A i \in LiveOf(s) : i <= k
    PROVE  LatestOf(s) = k
<1>1. LatestOf(s) \in LiveOf(s) /\ k <= LatestOf(s)
    BY LatestFacts
<1>2. LatestOf(s) \in Nat /\ k \in Nat
  <2>1. LiveOf(s) \subseteq 1..Len(log) /\ Len(log) \in Nat
      BY DEF LiveOf
  <2> QED
      BY <1>1, <2>1
<1> QED
    BY <1>1, <1>2

LEMMA GrownFacts ==
    ASSUME log \in Seq(LogEntries), NEW r, Grown(r)
    PROVE  /\ \A id : Recorded(id)' <=> (Recorded(id) \/ id = r.id)
           /\ LatestOf(r.slot)' = Len(log) + 1
           /\ \A s : s # r.slot => LatestOf(s)' = LatestOf(s)
           /\ \A k \in 1..Len(log) : Intact(k) => Intact(k)'
           /\ \A k : k = Len(log) + 1 => Intact(k)'
<1> DEFINE N == Len(log)
<1>1. /\ N \in Nat /\ DOMAIN log = 1..N /\ DOMAIN log' = 1..(N + 1) /\ Len(log') = N + 1
      /\ log' \in Seq(LogEntries)
    BY DEF Grown
<1>2. \A i \in 1..(N + 1) : i \in 1..N \/ i = N + 1
    BY <1>1
<1>3. /\ \A i \in 1..N : /\ SameEvent(log[i], log'[i])
                         /\ IsEvent(log[i]) => log'[i].valid = log[i].valid
                         /\ IsLive(log'[i]) => IsLive(log[i])
                         /\ IsLive(log[i]) /\ log[i].slot # r.slot => IsLive(log'[i])
      /\ IsLive(log'[N + 1]) /\ log'[N + 1].valid
      /\ log'[N + 1].id = r.id /\ log'[N + 1].slot = r.slot
    BY DEF Grown
<1>4. IsEvent(log'[N + 1]) /\ \A e : IsLive(e) => IsEvent(e)
    BY <1>3 DEF IsLive
<1>5. N + 1 \in 1..(N + 1) /\ \A i \in 1..N : i \in 1..(N + 1) /\ i # N + 1 /\ i <= N + 1 /\ i \in Nat
    BY <1>1
<1> HIDE DEF N
<1>6. ASSUME NEW id
      PROVE  Recorded(id)' <=> (Recorded(id) \/ id = r.id)
  <2>1. Recorded(id)' <=> \E i \in 1..(N + 1) : IsEvent(log'[i]) /\ log'[i].id = id
      BY <1>1 DEF Recorded, IsEvent
  <2>2. Recorded(id) <=> \E i \in 1..N : IsEvent(log[i]) /\ log[i].id = id
      BY <1>1 DEF Recorded
  <2>3. \A i \in 1..N : (IsEvent(log'[i]) /\ log'[i].id = id) <=> (IsEvent(log[i]) /\ log[i].id = id)
      BY <1>3 DEF SameEvent
  <2> QED
      BY <1>2, <1>3, <1>4, <1>5, <2>1, <2>2, <2>3
<1>7. LatestOf(r.slot)' = N + 1
  <2>1. LiveOf(r.slot)' = {i \in 1..(N + 1) : IsLive(log'[i]) /\ log'[i].slot = r.slot'}
      BY <1>1 DEF LiveOf, IsLive, IsEvent
  <2>2. N + 1 \in LiveOf(r.slot)'
      BY <1>3, <1>5, <2>1
  <2>3. \A i \in LiveOf(r.slot)' : i <= N + 1
      BY <1>1, <2>1
  <2>4. LatestOf(r.slot)' \in LiveOf(r.slot)' /\ \A i \in LiveOf(r.slot)' : i <= LatestOf(r.slot)'
    <3>1. LiveOf(r.slot)' \in SUBSET (1..(N + 1)) /\ N + 1 \in Nat
        BY <1>1, <2>1
    <3>2. LatestOf(r.slot)' = Max(LiveOf(r.slot)')
        BY <2>2 DEF LatestOf
    <3> QED
        BY <2>2, <3>1, <3>2, MaxFacts
  <2> QED
      BY <1>1, <2>1, <2>2, <2>3, <2>4
<1>8. ASSUME NEW s, s # r.slot
      PROVE  LatestOf(s)' = LatestOf(s)
  <2>1. LiveOf(s)' = {i \in 1..(N + 1) : IsLive(log'[i]) /\ log'[i].slot = s}
      BY <1>1 DEF LiveOf, IsLive, IsEvent
  <2>2. LiveOf(s) = {i \in 1..N : IsLive(log[i]) /\ log[i].slot = s}
      BY <1>1 DEF LiveOf
  <2>3. \A i \in 1..N : (IsLive(log'[i]) /\ log'[i].slot = s) <=> (IsLive(log[i]) /\ log[i].slot = s)
      BY <1>3, <1>4, <1>8 DEF SameEvent
  <2>4. \A i : i \in LiveOf(s)' <=> i \in LiveOf(s)
      BY <1>2, <1>3, <1>5, <1>8, <2>1, <2>2, <2>3
  <2>5. LiveOf(s)' = LiveOf(s)
      BY <2>4
  <2> QED
      BY <2>5 DEF LatestOf
<1>9. ASSUME NEW k \in 1..N, Intact(k)
      PROVE  Intact(k)'
  <2>1. \A i \in k..(N + 1) : i = N + 1 \/ (i \in 1..N /\ i \in k..N)
      BY <1>1
  <2>2. \A i \in k..N : IsLive(log[i]) => log[i].valid
      BY <1>9 DEF Intact, LiveSince, N
  <2>3. \A i \in k..(N + 1) : IsLive(log'[i]) => log'[i].valid
      BY <1>3, <1>4, <2>1, <2>2
  <2> QED
      BY <1>1, <2>3 DEF Intact, LiveSince, IsLive, IsEvent
<1>10. ASSUME NEW k, k = N + 1
       PROVE  Intact(k)'
  <2>1. \A i \in k..(N + 1) : i = N + 1
      BY <1>1, <1>10
  <2>2. \A i \in k..(N + 1) : IsLive(log'[i]) => log'[i].valid
      BY <1>3, <2>1
  <2> QED
      BY <1>1, <2>2 DEF Intact, LiveSince, IsLive, IsEvent
<1> QED
    BY <1>6, <1>7, <1>8, <1>9, <1>10 DEF N

LEMMA MarkedFacts ==
    ASSUME log \in Seq(LogEntries), Marked
    PROVE  /\ \A id : Recorded(id)' <=> Recorded(id)
           /\ \A s : LatestOf(s)' = LatestOf(s)
<1> DEFINE N == Len(log)
<1>1. /\ N \in Nat /\ DOMAIN log = 1..N /\ DOMAIN log' = 1..(N + 1)
      /\ \A i \in 1..N : SameEvent(log[i], log'[i]) /\ (IsLive(log'[i]) <=> IsLive(log[i]))
      /\ ~IsEvent(log'[N + 1])
    BY DEF Marked
<1>2. \A i \in 1..(N + 1) : i \in 1..N \/ i = N + 1
    BY <1>1
<1>3. ~IsLive(log'[N + 1]) /\ \A e : IsLive(e) => IsEvent(e)
    BY <1>1 DEF IsLive
<1>4. \A i \in 1..N : i \in 1..(N + 1)
    BY <1>1
<1> HIDE DEF N
<1>5. ASSUME NEW id
      PROVE  Recorded(id)' <=> Recorded(id)
  <2>1. Recorded(id)' <=> \E i \in 1..(N + 1) : IsEvent(log'[i]) /\ log'[i].id = id
      BY <1>1 DEF Recorded, IsEvent
  <2>2. Recorded(id) <=> \E i \in 1..N : IsEvent(log[i]) /\ log[i].id = id
      BY <1>1 DEF Recorded
  <2>3. \A i \in 1..N : (IsEvent(log'[i]) /\ log'[i].id = id) <=> (IsEvent(log[i]) /\ log[i].id = id)
      BY <1>1 DEF SameEvent
  <2> QED
      BY <1>1, <1>2, <1>4, <2>1, <2>2, <2>3
<1>6. ASSUME NEW s
      PROVE  LatestOf(s)' = LatestOf(s)
  <2>1. LiveOf(s)' = {i \in 1..(N + 1) : IsLive(log'[i]) /\ log'[i].slot = s}
      BY <1>1 DEF LiveOf, IsLive, IsEvent
  <2>2. LiveOf(s) = {i \in 1..N : IsLive(log[i]) /\ log[i].slot = s}
      BY <1>1 DEF LiveOf
  <2>3. \A i \in 1..N : (IsLive(log'[i]) /\ log'[i].slot = s) <=> (IsLive(log[i]) /\ log[i].slot = s)
      BY <1>1, <1>3 DEF SameEvent
  <2>4. \A i : i \in LiveOf(s)' <=> i \in LiveOf(s)
      BY <1>2, <1>3, <1>4, <2>1, <2>2, <2>3
  <2>5. LiveOf(s)' = LiveOf(s)
      BY <2>4
  <2> QED
      BY <2>5 DEF LatestOf
<1> QED
    BY <1>5, <1>6

LEMMA SameLogFacts ==
    ASSUME log' = log
    PROVE  /\ \A id : Recorded(id)' <=> Recorded(id)
           /\ \A s : LatestOf(s)' = LatestOf(s)
           /\ \A k : Intact(k)' <=> Intact(k)
           /\ Selections' = Selections
           /\ learned' = learned => (Journal' <=> Journal)
<1>1. \A id : Recorded(id)' <=> Recorded(id)
    BY DEF Recorded, IsEvent
<1>2. \A s : LiveOf(s)' = LiveOf(s)
    BY DEF LiveOf, IsLive, IsEvent
<1>3. \A s : LatestOf(s)' = LatestOf(s)
    BY <1>2 DEF LatestOf
<1>4. \A k : Intact(k)' <=> Intact(k)
    BY DEF Intact, LiveSince, IsLive, IsEvent
<1>5. Selections' = Selections
    BY DEF Selections, LatestOf, LiveOf, Intact, LiveSince, IsLive, IsEvent
<1>6. learned' = learned => (Journal' <=> Journal)
    BY DEF Journal, JournalIn, Lessons, IsLive, IsEvent
<1> QED
    BY <1>1, <1>3, <1>4, <1>5, <1>6

-------------------------------------------------------------------------------
(***************************************************************************)
(* What Record, LegacySearch and ResetFeelProfile do.                      *)
(***************************************************************************)
\* The event that Inserted adds to the log of st.
EventOf(r, before) ==
    [kind |-> "event", id |-> r.id, slot |-> r.slot, action |-> r.action,
     session |-> r.session, superseded |-> FALSE, valid |-> TRUE,
     before |-> before, after |-> Apply(before, r.action)]

LEMMA EventOfFacts ==
    ASSUME NEW r \in Requests, NEW l \in Learned
    PROVE  /\ EventOf(r, l) \in LogEntries /\ IsLive(EventOf(r, l)) /\ EventOf(r, l).valid
           /\ EventOf(r, l).id = r.id /\ EventOf(r, l).slot = r.slot
           /\ EventOf(r, l).action = r.action /\ EventOf(r, l).session = r.session
           /\ EventOf(r, l).before = l /\ EventOf(r, l).after = Apply(l, r.action)
           /\ Apply(l, r.action) \in Learned
<1> DEFINE e == [kind |-> "event", id |-> r.id, slot |-> r.slot, action |-> r.action,
                 session |-> r.session, superseded |-> FALSE, valid |-> TRUE,
                 before |-> l, after |-> l]
<1>1. /\ r.id \in 1..MaxIds /\ r.slot \in Slots /\ r.action \in AnyAction
      /\ r.session \in 1..MaxSessions /\ r.action \in Actions(r.slot)
    BY DEF Requests
<1>2. e \in LogEntries /\ IsEvent(e) /\ e.action = r.action
    BY <1>1 DEF LogEntries, IsEvent
<1>3. Apply(l, r.action) \in Learned
  <2> HIDE DEF e
  <2> QED
      BY <1>2, TeachFacts
<1>4. EventOf(r, l) \in LogEntries
    BY <1>1, <1>3 DEF LogEntries, EventOf
<1> QED
    BY <1>3, <1>4 DEF EventOf, IsLive, IsEvent

\* Inserted after a state of the store whose log differs from the present one at
\* most in one event of the slot, superseded, and in journals.
LEMMA InsertedFacts ==
    ASSUME NEW r \in Requests, NEW st, Inserted(r, st), Len(log) < MaxLog,
           log \in Seq(LogEntries),
           st.log \in Seq(LogEntries), st.learned \in Learned, JournalIn(st.log, st.learned),
           Len(st.log) = Len(log),
           \A i \in 1..Len(log) :
               /\ SameEvent(log[i], st.log[i])
               /\ IsEvent(log[i]) => st.log[i].valid = log[i].valid
               /\ IsLive(st.log[i]) => IsLive(log[i])
               /\ IsLive(log[i]) /\ log[i].slot # r.slot => IsLive(st.log[i])
    PROVE  Grown(r)
<1> DEFINE e == EventOf(r, st.learned)
<1>1. e \in LogEntries /\ IsLive(e) /\ e.valid
      /\ e.id = r.id /\ e.slot = r.slot /\ e.action = r.action /\ e.session = r.session
      /\ e.before = st.learned /\ e.after = Apply(st.learned, e.action)
      /\ Apply(st.learned, r.action) \in Learned
    BY EventOfFacts
<1>2. learned' = Apply(st.learned, r.action) /\ log' = Append(st.log, e)
    BY DEF Inserted, EventOf
<1> HIDE DEF e
<1>3. JournalIn(log', learned')
    BY <1>1, <1>2, AppendFacts
<1>4. Journal'
    BY <1>3 DEF Journal, JournalIn, Lessons, IsEvent, IsLive
<1>5. /\ log' \in Seq(LogEntries) /\ Len(log') = Len(log) + 1
      /\ log'[Len(log) + 1] = e
      /\ \A i \in 1..Len(log) : log'[i] = st.log[i]
    BY <1>1, <1>2
<1> QED
    BY <1>1, <1>2, <1>4, <1>5 DEF Grown

LEMMA RecordFacts ==
    ASSUME FeedbackTypeOK, Journal, NEW r \in wire, Record(r)
    PROVE  \/ Recorded(r.id) /\ Answer(r, "ok") /\ log' = log /\ learned' = learned
           \/ ~Recorded(r.id) /\ Answer(r, "ok") /\ Grown(r)
           \/ /\ ~Recorded(r.id) /\ Answer(r, "conflict") /\ log' = log /\ learned' = learned
              /\ Rejected(r)
<1>1. /\ log \in Seq(LogEntries) /\ learned \in Learned /\ r \in Requests
      /\ \A i, j \in DOMAIN log : (IsEvent(log[i]) /\ IsEvent(log[j]) /\ log[i].id = log[j].id) => i = j
    BY DEF FeedbackTypeOK
<1>2. CASE Recorded(r.id)
    BY <1>2 DEF Record, serverVars
<1>3. CASE ~Recorded(r.id) /\ r.replaces # NoId /\ Replaceable(r)
  <2>1. PICK k \in {i \in DOMAIN log : IsEvent(log[i]) /\ log[i].id = r.replaces} :
          Inserted(r, Retracted(k))
      BY <1>3 DEF Record
  <2>2. Len(log) < MaxLog /\ Answer(r, "ok")
      BY <1>3 DEF Record
  <2> DEFINE m == LatestOf(r.slot)
  <2>3. m # 0 /\ log[m].id = r.replaces /\ Intact(m)
      BY <1>3 DEF Replaceable, Editable
  <2>4. m \in DOMAIN log /\ IsLive(log[m]) /\ log[m].slot = r.slot
      BY <1>1, <2>3, LatestFacts DEF LiveOf
  <2>5. k = m
      BY <1>1, <2>1, <2>3, <2>4 DEF IsLive
  <2> HIDE DEF m
  <2>6. k \in 1..Len(log) /\ IsLive(log[k]) /\ Intact(k) /\ log[k].slot = r.slot
      BY <1>1, <2>3, <2>4, <2>5
  <2>7. /\ Retracted(k).log \in Seq(LogEntries)
        /\ Len(Retracted(k).log) = Len(log)
        /\ \A i \in 1..Len(log) :
             /\ SameEvent(log[i], Retracted(k).log[i])
             /\ IsEvent(log[i]) => Retracted(k).log[i].valid = log[i].valid
             /\ IsLive(Retracted(k).log[i]) <=> IsLive(log[i]) /\ i # k
        /\ Retracted(k).learned \in Learned
        /\ JournalIn(Retracted(k).log, Retracted(k).learned)
      BY <1>1, <2>6, RetractedFacts
  <2> DEFINE st == Retracted(k)
  <2>8. \A i \in 1..Len(log) :
          /\ IsLive(st.log[i]) => IsLive(log[i])
          /\ IsLive(log[i]) /\ log[i].slot # r.slot => IsLive(st.log[i])
      BY <2>6, <2>7
  <2>9. Inserted(r, st)
      BY <2>1
  <2> HIDE DEF st
  <2>10. Grown(r)
      BY <1>1, <2>2, <2>7, <2>8, <2>9, InsertedFacts DEF st
  <2> QED
      BY <1>3, <2>2, <2>10
<1>4. CASE ~Recorded(r.id) /\ r.replaces = NoId /\ Startable(r)
  <2> DEFINE st == [log |-> log, learned |-> learned]
  <2>1. Inserted(r, st) /\ Len(log) < MaxLog /\ Answer(r, "ok")
      BY <1>4 DEF Record
  <2>2. st.log = log /\ st.learned = learned
      OBVIOUS
  <2>3. JournalIn(st.log, st.learned)
      BY DEF Journal
  <2> HIDE DEF st
  <2>4. \A i \in 1..Len(log) :
          /\ SameEvent(log[i], st.log[i])
          /\ IsEvent(log[i]) => st.log[i].valid = log[i].valid
          /\ IsLive(st.log[i]) => IsLive(log[i])
          /\ IsLive(log[i]) /\ log[i].slot # r.slot => IsLive(st.log[i])
      BY <2>2 DEF SameEvent
  <2>5. Grown(r)
      BY <1>1, <2>1, <2>2, <2>3, <2>4, InsertedFacts
  <2> QED
      BY <1>4, <2>1, <2>5
<1>5. CASE ~Recorded(r.id) /\ Rejected(r)
    BY <1>5 DEF Record, Rejected, serverVars
<1> QED
    BY <1>2, <1>3, <1>4, <1>5 DEF Rejected

LEMMA InvalidatedFacts ==
    ASSUME log \in Seq(LogEntries), learned \in Learned, Journal, Len(log) < MaxLog,
           NEW mark \in {"legacy", "reset"}, Invalidated(mark),
           learned' = Teach(learned, [kind |-> mark])
    PROVE  Marked
<1> DEFINE N == Len(log)
           e == [kind |-> mark]
           M == [i \in DOMAIN log |-> IF IsEvent(log[i]) THEN [log[i] EXCEPT !.valid = FALSE] ELSE log[i]]
<1>1. N \in Nat /\ DOMAIN log = 1..N /\ \A i \in 1..N : log[i] \in LogEntries
    OBVIOUS
<1>2. e \in [kind : {"legacy", "reset"}] /\ ~IsEvent(e) /\ e \in LogEntries
    BY DEF IsEvent, LogEntries
<1>3. log' = Append(M, e)
    BY DEF Invalidated
<1>4. \A i \in 1..N : M[i] \in LogEntries /\ SameEvent(log[i], M[i])
                      /\ (IsEvent(log[i]) => ~M[i].valid /\ M[i].superseded = log[i].superseded)
                      /\ (~IsEvent(log[i]) => M[i] = log[i])
                      /\ (IsLive(M[i]) <=> IsLive(log[i]))
  <2>1. ASSUME NEW i \in 1..N, IsEvent(log[i])
        PROVE  M[i] \in LogEntries /\ SameEvent(log[i], M[i]) /\ IsEvent(M[i])
               /\ ~M[i].valid /\ M[i].superseded = log[i].superseded
    <3>1. log[i] \in [kind : {"event"}, id : 1..MaxIds, slot : Slots, action : AnyAction,
                      session : 1..MaxSessions, superseded : BOOLEAN, valid : BOOLEAN,
                      before : Learned, after : Learned]
          /\ log[i].action \in Actions(log[i].slot)
        BY <1>1, <2>1, EntryFacts
    <3>2. M[i] = [log[i] EXCEPT !.valid = FALSE]
        BY <1>1, <2>1
    <3> HIDE DEF M
    <3>3. M[i].kind = log[i].kind /\ M[i].id = log[i].id /\ M[i].slot = log[i].slot
          /\ M[i].action = log[i].action /\ M[i].session = log[i].session
          /\ M[i].valid = FALSE /\ M[i].superseded = log[i].superseded
        BY <3>1, <3>2
    <3>4. M[i] \in [kind : {"event"}, id : 1..MaxIds, slot : Slots, action : AnyAction,
                    session : 1..MaxSessions, superseded : BOOLEAN, valid : BOOLEAN,
                    before : Learned, after : Learned]
        BY <3>1, <3>2
    <3>5. M[i] \in LogEntries
        BY <3>1, <3>3, <3>4 DEF LogEntries
    <3> QED
        BY <2>1, <3>3, <3>5 DEF SameEvent, IsEvent
  <2>2. ASSUME NEW i \in 1..N, ~IsEvent(log[i])
        PROVE  M[i] = log[i]
      BY <1>1, <2>2
  <2> HIDE DEF M
  <2> QED
      BY <1>1, <2>1, <2>2 DEF SameEvent, IsLive
<1>5. M \in Seq(LogEntries) /\ Len(M) = N
  <2>1. M = [i \in 1..N |-> M[i]]
      BY <1>1
  <2> HIDE DEF M
  <2> QED
      BY <1>1, <1>4, <2>1
<1> HIDE DEF M, e
<1>6. /\ log' \in Seq(LogEntries) /\ Len(log') = N + 1 /\ log'[N + 1] = e
      /\ \A i \in 1..N : log'[i] = M[i]
    BY <1>1, <1>2, <1>3, <1>5
<1>7. \A i \in 1..N : /\ SameEvent(log[i], log'[i])
                      /\ IsEvent(log[i]) => ~log'[i].valid /\ log'[i].superseded = log[i].superseded
                      /\ ~IsEvent(log[i]) => log'[i] = log[i]
                      /\ IsLive(log'[i]) <=> IsLive(log[i])
    BY <1>4, <1>6
<1>8. learned' = Teach(learned, e)
    BY DEF e
<1>9. JournalIn(log', learned')
    BY <1>2, <1>6, <1>7, <1>8, MarkFacts DEF Journal
<1>10. Journal'
    BY <1>9 DEF Journal, JournalIn, Lessons, IsEvent, IsLive
<1>11. learned' \in Learned
    BY <1>2, <1>8, TeachFacts
<1> QED
    BY <1>2, <1>6, <1>7, <1>10, <1>11 DEF Marked

LEMMA WritesMark ==
    ASSUME FeedbackTypeOK, Journal, LegacySearch \/ ResetFeelProfile
    PROVE  Marked
<1>1. log \in Seq(LogEntries) /\ learned \in Learned
    BY DEF FeedbackTypeOK
<1>2. CASE LegacySearch
  <2>1. Teach(learned, [kind |-> "legacy"]) = [learned EXCEPT !.weight = Clamped(@ + 1)]
      BY DEF Teach, IsLive, IsEvent
  <2> QED
      BY <1>1, <1>2, <2>1, InvalidatedFacts DEF LegacySearch
<1>3. CASE ResetFeelProfile
  <2>1. Teach(learned, [kind |-> "reset"]) = [learned EXCEPT !.term = 0]
      BY DEF Teach, IsLive, IsEvent
  <2> QED
      BY <1>1, <1>3, <2>1, InvalidatedFacts DEF ResetFeelProfile
<1> QED
    BY <1>2, <1>3

-------------------------------------------------------------------------------
(***************************************************************************)
(* What the client does: plans, requests and selections.                   *)
(***************************************************************************)
\* What the invariant asks of the steps that remain of a plan, not yet sent.
Planned(c, todo) ==
    /\ todo \in Seq(StepsOf)
    /\ \A j \in DOMAIN todo :
         /\ todo[j].id = NoId
         /\ todo[j].action = Nothing => KnownId(c, todo[j].slot) # NoId
         /\ \A s \in Slots, b \in AnyAction : Excludes(todo[j].action, s, b) =>
              /\ KnownAction(c, s) # b \/ \E i \in 1..(j - 1) : todo[i].slot = s
              /\ \A i \in DOMAIN todo : ~ (todo[i].slot = s /\ todo[i].action = b)

LEMMA NeededFacts ==
    ASSUME NEW p \in StepsOf, NEW condition \in BOOLEAN
    PROVE  /\ condition => Needed(condition, p) = <<p>>
           /\ ~condition => Needed(condition, p) = <<>>
    BY DEF Needed

LEMMA StepFacts ==
    ASSUME NEW s \in Slots, NEW a \in Actions(s)
    PROVE  /\ Step(s, a) \in StepsOf
           /\ Step(s, a).slot = s /\ Step(s, a).action = a /\ Step(s, a).id = NoId
<1>1. a \in AnyAction
    BY DEF Actions, AnyAction, Slots
<1>2. 0 \in 0..MaxIds
    BY FeedbackBoundsAssumption
<1> QED
    BY <1>1, <1>2 DEF Step, StepsOf, NoId

LEMMA JoinFacts ==
    ASSUME NEW p, NEW q
    PROVE  /\ <<>> \o <<>> = <<>> /\ <<>> \o <<p>> = <<p>> /\ <<p>> \o <<>> = <<p>>
           /\ <<p>> \o <<q>> = <<p, q>> /\ <<p, q>> \o <<>> = <<p, q>>
<1>1. <<p>> \o <<q>> = <<p, q>>
  <2> DEFINE t == <<p>> \o <<q>>
  <2>1. t \in Seq({p, q}) /\ Len(t) = 2 /\ t[1] = p /\ t[2] = q
    <3>1. <<p>> \in Seq({p, q}) /\ <<q>> \in Seq({p, q})
        OBVIOUS
    <3>2. Len(<<p>>) = 1 /\ Len(<<q>>) = 1
        OBVIOUS
    <3> QED
        BY <3>1, <3>2
  <2> HIDE DEF t
  <2>2. t = <<p, q>>
      BY <2>1
  <2> QED
      BY <2>2 DEF t
<1>2. <<p, q>> \o <<>> = <<p, q>>
    OBVIOUS
<1>3. <<p>> \o <<>> = <<p>>
    OBVIOUS
<1> QED
    BY <1>1, <1>2, <1>3

\* A plan of one or two steps.
LEMMA OneStep ==
    ASSUME NEW c \in Tabs, NEW p \in StepsOf, p.id = NoId,
           p.action = Nothing => KnownId(c, p.slot) # NoId,
           \A s \in Slots, b \in AnyAction : Excludes(p.action, s, b) => KnownAction(c, s) # b
    PROVE  Planned(c, <<p>>)
<1>1. <<p>> \in Seq(StepsOf) /\ DOMAIN <<p>> = {1} /\ <<p>>[1] = p
    OBVIOUS
<1>2. \A s, b : ~ (Excludes(p.action, s, b) /\ p.action = b)
    BY DEF Excludes
<1> QED
    BY <1>1, <1>2 DEF Planned

LEMMA TwoSteps ==
    ASSUME NEW c \in Tabs, NEW p \in StepsOf, NEW q \in StepsOf, p.id = NoId, q.id = NoId,
           p.action = Nothing => KnownId(c, p.slot) # NoId,
           q.action = Nothing => KnownId(c, q.slot) # NoId,
           \A s \in Slots, b \in AnyAction : ~Excludes(p.action, s, b),
           \A s \in Slots, b \in AnyAction : Excludes(q.action, s, b) =>
               (KnownAction(c, s) # b \/ p.slot = s) /\ ~ (p.slot = s /\ p.action = b)
    PROVE  Planned(c, <<p, q>>)
<1>1. <<p, q>> \in Seq(StepsOf) /\ DOMAIN <<p, q>> = {1, 2} /\ <<p, q>>[1] = p /\ <<p, q>>[2] = q
    OBVIOUS
<1>2. \A s, b : ~ (Excludes(q.action, s, b) /\ q.action = b)
    BY DEF Excludes
<1>3. 1 \in 1..(2 - 1)
    OBVIOUS
<1> QED
    BY <1>1, <1>2, <1>3 DEF Planned

LEMMA PlanFacts ==
    ASSUME FeedbackTypeOK, Replacing, NEW c \in Tabs, steps[c] = <<>>, NEW ch \in FeedbackChoices
    PROVE  Planned(c, Plan(c, ch))
<1>1. \A s \in Slots : /\ KnownId(c, s) = latest[c][s] /\ KnownAction(c, s) = shown[c][s]
                       /\ shown[c][s] \in Actions(s)
                       /\ shown[c][s] # Nothing => KnownId(c, s) # NoId
    BY DEF KnownId, KnownAction, Coming, FeedbackTypeOK, Replacing
<1>2. /\ Actions("rating") = {"more", "less", "nothing"} /\ Actions("preferred") = {"mood", "nothing"}
      /\ Slots = {"rating", "preferred"} /\ Nothing = "nothing"
    BY DEF Actions, Slots, Nothing
<1> DEFINE rated == shown[c]["rating"]
           liked == shown[c]["preferred"]
           clear == Step("preferred", Nothing)
           unrate == Step("rating", Nothing)
           heart == Step("preferred", "mood")
<1>3. /\ rated \in {"more", "less", "nothing"} /\ liked \in {"mood", "nothing"}
      /\ KnownAction(c, "rating") = rated /\ KnownAction(c, "preferred") = liked
      /\ rated # "nothing" => KnownId(c, "rating") # NoId
      /\ liked # "nothing" => KnownId(c, "preferred") # NoId
    BY <1>1, <1>2
<1>4. /\ clear \in StepsOf /\ clear.slot = "preferred" /\ clear.action = "nothing" /\ clear.id = NoId
      /\ unrate \in StepsOf /\ unrate.slot = "rating" /\ unrate.action = "nothing" /\ unrate.id = NoId
      /\ heart \in StepsOf /\ heart.slot = "preferred" /\ heart.action = "mood" /\ heart.id = NoId
    BY <1>2, StepFacts
<1>5. CASE ch.slot = "restore"
  <2>1. ch.rating \in {"more", "nothing"} /\ ch.preferred \in BOOLEAN
      BY <1>2, <1>5 DEF FeedbackChoices
  <2> DEFINE rate == Step("rating", ch.rating)
             p == Needed(~ch.preferred /\ liked # Nothing, clear)
             q == Needed(rated # ch.rating, rate)
             h == Needed(ch.preferred /\ liked = Nothing, heart)
  <2>2. rate \in StepsOf /\ rate.slot = "rating" /\ rate.action = ch.rating /\ rate.id = NoId
      BY <1>2, <2>1, StepFacts
  <2>3. Plan(c, ch) = p \o q \o h
      BY <1>5 DEF Plan
  <2>4. /\ ~ch.preferred /\ liked # "nothing" => p = <<clear>>
        /\ ~ (~ch.preferred /\ liked # "nothing") => p = <<>>
        /\ rated # ch.rating => q = <<rate>>
        /\ rated = ch.rating => q = <<>>
        /\ ch.preferred /\ liked = "nothing" => h = <<heart>>
        /\ ~ (ch.preferred /\ liked = "nothing") => h = <<>>
      BY <1>2 DEF Needed
  <2> HIDE DEF p, q, h, rate, clear, unrate, heart, rated, liked
  <2>5. \/ Plan(c, ch) = <<>>
        \/ Plan(c, ch) = <<clear>> /\ liked # "nothing"
        \/ Plan(c, ch) = <<rate>> /\ rated # ch.rating
        \/ Plan(c, ch) = <<heart>> /\ rated = ch.rating
        \/ Plan(c, ch) = <<clear, rate>> /\ liked # "nothing" /\ rated # ch.rating
        \/ Plan(c, ch) = <<rate, heart>> /\ rated # ch.rating
    <3>1. CASE p = <<clear>> /\ q = <<rate>> /\ h = <<>>
        BY <2>1, <2>3, <2>4, <3>1, JoinFacts
    <3>2. CASE p = <<clear>> /\ q = <<>> /\ h = <<>>
        BY <2>1, <2>3, <2>4, <3>2
    <3>3. CASE p = <<>> /\ q = <<rate>> /\ h = <<>>
        BY <2>1, <2>3, <2>4, <3>3
    <3>4. CASE p = <<>> /\ q = <<>> /\ h = <<>>
        BY <2>1, <2>3, <2>4, <3>4
    <3>5. CASE p = <<>> /\ q = <<rate>> /\ h = <<heart>>
        BY <2>1, <2>3, <2>4, <3>5, JoinFacts
    <3>6. CASE p = <<>> /\ q = <<>> /\ h = <<heart>>
        BY <2>1, <2>3, <2>4, <3>6
    <3> QED
        BY <2>4, <3>1, <3>2, <3>3, <3>4, <3>5, <3>6
  <2>6. CASE Plan(c, ch) = <<>>
      BY <2>6 DEF Planned
  <2>7. CASE Plan(c, ch) = <<clear>> /\ liked # "nothing"
      BY <1>2, <1>3, <1>4, <2>7, OneStep DEF Excludes
  <2>8. CASE Plan(c, ch) = <<rate>> /\ rated # ch.rating
      BY <1>2, <1>3, <2>1, <2>2, <2>8, OneStep DEF Excludes
  <2>9. CASE Plan(c, ch) = <<heart>> /\ rated = ch.rating
      BY <1>2, <1>3, <1>4, <2>1, <2>9, OneStep DEF Excludes
  <2>10. CASE Plan(c, ch) = <<clear, rate>> /\ liked # "nothing" /\ rated # ch.rating
      BY <1>2, <1>3, <1>4, <2>1, <2>2, <2>10, TwoSteps DEF Excludes
  <2>11. CASE Plan(c, ch) = <<rate, heart>> /\ rated # ch.rating
      BY <1>2, <1>3, <1>4, <2>1, <2>2, <2>11, TwoSteps DEF Excludes
  <2> QED
      BY <2>5, <2>6, <2>7, <2>8, <2>9, <2>10, <2>11
<1>6. CASE ch.slot # "restore"
  <2>1. /\ ch.slot \in {"rating", "preferred"}
        /\ ch.slot = "rating" => ch.action \in {"more", "less"}
        /\ ch.slot = "preferred" => ch.action = "mood"
      BY <1>2, <1>6 DEF FeedbackChoices
  <2> DEFINE a == IF shown[c][ch.slot] = ch.action THEN Nothing ELSE ch.action
             set == Step(ch.slot, a)
             p == Needed(a = "less" /\ liked # Nothing, clear)
             q == Needed(a = "mood" /\ rated = "less", unrate)
  <2>2. /\ a \in Actions(ch.slot) /\ a \in {"more", "less", "mood", "nothing"}
        /\ a = "mood" => ch.slot = "preferred"
        /\ a = "less" => ch.slot = "rating"
        /\ a = "nothing" => shown[c][ch.slot] # Nothing
      BY <1>2, <2>1
  <2>3. set \in StepsOf /\ set.slot = ch.slot /\ set.action = a /\ set.id = NoId
      BY <1>2, <2>1, <2>2, StepFacts
  <2>4. a = "nothing" => KnownId(c, ch.slot) # NoId
      BY <1>1, <1>2, <2>1, <2>2
  <2>5. Plan(c, ch) = p \o q \o <<set>>
      BY <1>6 DEF Plan
  <2>6. /\ a = "less" /\ liked # "nothing" => p = <<clear>>
        /\ ~ (a = "less" /\ liked # "nothing") => p = <<>>
        /\ a = "mood" /\ rated = "less" => q = <<unrate>>
        /\ ~ (a = "mood" /\ rated = "less") => q = <<>>
      BY <1>2 DEF Needed
  <2> HIDE DEF p, q, a, set, clear, unrate, heart, rated, liked
  <2>7. \/ Plan(c, ch) = <<clear, set>> /\ a = "less" /\ liked # "nothing"
        \/ Plan(c, ch) = <<unrate, set>> /\ a = "mood" /\ rated = "less"
        \/ /\ Plan(c, ch) = <<set>>
           /\ a = "less" => liked = "nothing"
           /\ a = "mood" => rated # "less"
    <3>1. CASE p = <<clear>> /\ q = <<>>
        BY <2>5, <2>6, <3>1, JoinFacts
    <3>2. CASE p = <<>> /\ q = <<unrate>>
        BY <2>5, <2>6, <3>2, JoinFacts
    <3>3. CASE p = <<>> /\ q = <<>>
        BY <2>5, <2>6, <3>3
    <3> QED
        BY <2>6, <3>1, <3>2, <3>3
  <2>8. CASE Plan(c, ch) = <<clear, set>> /\ a = "less" /\ liked # "nothing"
      BY <1>2, <1>3, <1>4, <2>3, <2>4, <2>8, TwoSteps DEF Excludes
  <2>9. CASE Plan(c, ch) = <<unrate, set>> /\ a = "mood" /\ rated = "less"
      BY <1>2, <1>3, <1>4, <2>3, <2>4, <2>9, TwoSteps DEF Excludes
  <2>10. CASE /\ Plan(c, ch) = <<set>>
              /\ a = "less" => liked = "nothing"
              /\ a = "mood" => rated # "less"
      BY <1>2, <1>3, <2>3, <2>4, <2>10, OneStep DEF Excludes
  <2> QED
      BY <2>7, <2>8, <2>9, <2>10
<1> QED
    BY <1>5, <1>6

LEMMA SendFacts ==
    ASSUME FeedbackTypeOK, NEW c \in Tabs, NEW todo \in Seq(StepsOf), todo # <<>>,
           todo[1].id <= ids, NEW known \in [Slots -> 0..MaxIds], session[c] # NoSession,
           Send(c, todo, known)
    PROVE  /\ steps' = [steps EXCEPT ![c] = Frozen(c, todo, known)]
           /\ Frozen(c, todo, known) \in Seq(StepsOf)
           /\ Len(Frozen(c, todo, known)) = Len(todo) /\ Frozen(c, todo, known) # <<>>
           /\ \A j \in 2..Len(todo) : Frozen(c, todo, known)[j] = todo[j]
           /\ Frozen(c, todo, known)[1].slot = todo[1].slot
           /\ Frozen(c, todo, known)[1].action = todo[1].action
           /\ todo[1].id # NoId => Frozen(c, todo, known) = todo /\ ids' = ids
           /\ todo[1].id = NoId => /\ Frozen(c, todo, known)[1].id = ids + 1 /\ ids' = ids + 1
                                   /\ Frozen(c, todo, known)[1].replaces = known[todo[1].slot]
           /\ ids' \in 0..MaxIds
           /\ wire' \subseteq Requests
           /\ wire' = wire \cup {[tab |-> c, session |-> session[c],
                                  id |-> Frozen(c, todo, known)[1].id, slot |-> todo[1].slot,
                                  action |-> todo[1].action,
                                  replaces |-> Frozen(c, todo, known)[1].replaces]}
           /\ inFlight' = [inFlight EXCEPT ![c] = TRUE] /\ reply' = [reply EXCEPT ![c] = "none"]
<1> DEFINE sent == Frozen(c, todo, known)
           first == [todo[1] EXCEPT !.id = ids + 1, !.replaces = known[todo[1].slot]]
<1>1. /\ ids \in 0..MaxIds /\ MaxIds \in Nat /\ session[c] \in 1..MaxSessions /\ wire \subseteq Requests
      /\ ids \in Nat
  <2>1. session[c] \in 0..MaxSessions /\ session[c] # 0 /\ MaxSessions \in Nat
      BY FeedbackBoundsAssumption DEF FeedbackTypeOK, NoSession
  <2> QED
      BY <2>1, FeedbackBoundsAssumption DEF FeedbackTypeOK
<1>2. Len(todo) \in Nat /\ 1 \in 1..Len(todo) /\ todo[1] \in StepsOf
    OBVIOUS
<1>3. /\ todo[1] \in [slot : Slots, action : AnyAction, id : 0..MaxIds, replaces : 0..MaxIds]
      /\ todo[1].action \in Actions(todo[1].slot)
    BY <1>2 DEF StepsOf
<1>4. /\ sent[1].id <= MaxIds
      /\ ids' = IF sent[1].id > ids THEN sent[1].id ELSE ids
      /\ steps' = [steps EXCEPT ![c] = sent]
      /\ wire' = wire \cup {[tab |-> c, session |-> session[c], id |-> sent[1].id, slot |-> sent[1].slot,
                             action |-> sent[1].action, replaces |-> sent[1].replaces]}
      /\ inFlight' = [inFlight EXCEPT ![c] = TRUE] /\ reply' = [reply EXCEPT ![c] = "none"]
    BY DEF Send
<1>5. /\ first.slot = todo[1].slot /\ first.action = todo[1].action /\ first.id = ids + 1
      /\ first.replaces = known[todo[1].slot] /\ known[todo[1].slot] \in 0..MaxIds
      /\ ids + 1 \in 0..MaxIds => first \in StepsOf
  <2>1. known[todo[1].slot] \in 0..MaxIds
      BY <1>3
  <2> QED
      BY <1>1, <1>3, <2>1 DEF StepsOf
<1>6. todo[1].id = NoId => sent = [todo EXCEPT ![1] = first]
    BY DEF Frozen
<1>7. todo[1].id # NoId => sent = todo
    BY DEF Frozen
<1> HIDE DEF sent, first
<1>8. CASE todo[1].id # NoId
  <2>1. /\ sent[1].id = todo[1].id /\ sent[1].slot = todo[1].slot /\ sent[1].action = todo[1].action
        /\ sent[1].replaces = todo[1].replaces /\ ids' = ids /\ sent = todo
        /\ todo[1].id \in 1..MaxIds
      BY <1>1, <1>3, <1>4, <1>7, <1>8 DEF NoId
  <2>2. [tab |-> c, session |-> session[c], id |-> sent[1].id, slot |-> sent[1].slot,
         action |-> sent[1].action, replaces |-> sent[1].replaces] \in Requests
      BY <1>1, <1>3, <2>1 DEF Requests
  <2> QED
      BY <1>1, <1>4, <1>8, <2>1, <2>2 DEF sent
<1>9. CASE todo[1].id = NoId
  <2>1. sent = [todo EXCEPT ![1] = first]
      BY <1>6, <1>9
  <2>2. sent[1] = first /\ Len(sent) = Len(todo) /\ \A j \in 2..Len(todo) : sent[j] = todo[j]
      BY <1>2, <2>1
  <2>3. ids + 1 \in 1..MaxIds /\ ids + 1 \in 0..MaxIds /\ ids' = ids + 1
      BY <1>1, <1>4, <1>5, <2>2
  <2>4. sent \in Seq(StepsOf) /\ sent # <<>>
    <3>1. first \in StepsOf
        BY <1>5, <2>3
    <3> QED
        BY <1>2, <2>1, <2>2, <3>1
  <2>5. [tab |-> c, session |-> session[c], id |-> sent[1].id, slot |-> sent[1].slot,
         action |-> sent[1].action, replaces |-> sent[1].replaces] \in Requests
      BY <1>1, <1>3, <1>5, <2>2, <2>3 DEF Requests
  <2> QED
      BY <1>1, <1>4, <1>5, <1>9, <2>2, <2>3, <2>4, <2>5 DEF sent
<1> QED
    BY <1>8, <1>9

LEMMA SelectionsFacts ==
    ASSUME FeedbackTypeOK
    PROVE  /\ Selections \in [Slots -> [id : 0..MaxIds, action : AnyAction]]
           /\ \A s \in Slots :
                /\ Selections[s].action \in Actions(s)
                /\ Selections[s].action # Nothing => Selections[s].id # NoId
                /\ Selections[s].id # NoId =>
                     /\ LatestOf(s) # 0 /\ log[LatestOf(s)].id = Selections[s].id
                     /\ Intact(LatestOf(s))
<1>1. SUFFICES ASSUME NEW s \in Slots
               PROVE  /\ Selections[s] \in [id : 0..MaxIds, action : AnyAction]
                      /\ Selections[s].action \in Actions(s)
                      /\ Selections[s].action # Nothing => Selections[s].id # NoId
                      /\ Selections[s].id # NoId =>
                           /\ LatestOf(s) # 0 /\ log[LatestOf(s)].id = Selections[s].id
                           /\ Intact(LatestOf(s))
    BY DEF Selections
<1> DEFINE k == LatestOf(s)
<1>2. Selections[s] = IF k # 0 /\ Intact(k) THEN [id |-> log[k].id, action |-> log[k].action]
                      ELSE [id |-> NoId, action |-> Nothing]
    BY DEF Selections
<1>3. k # 0 => /\ log[k].id \in 1..MaxIds /\ log[k].action \in AnyAction
               /\ log[k].action \in Actions(s)
  <2>1. SUFFICES ASSUME k # 0
                 PROVE  /\ log[k].id \in 1..MaxIds /\ log[k].action \in AnyAction
                        /\ log[k].action \in Actions(s)
      OBVIOUS
  <2>2. k \in LiveOf(s) /\ log \in Seq(LogEntries)
      BY <2>1, LatestFacts DEF FeedbackTypeOK
  <2>3. log[k] \in LogEntries /\ IsEvent(log[k]) /\ log[k].slot = s
      BY <2>2 DEF LiveOf, IsLive
  <2> QED
      BY <2>3, EntryFacts
<1>4. NoId \in 0..MaxIds /\ Nothing \in AnyAction /\ Nothing \in Actions(s)
    BY FeedbackBoundsAssumption DEF NoId, AnyAction, Actions
<1>5. CASE k # 0 /\ Intact(k)
  <2>1. Selections[s] = [id |-> log[k].id, action |-> log[k].action]
      BY <1>2, <1>5
  <2>2. log[k].id # NoId /\ log[k].id \in 0..MaxIds
      BY <1>3, <1>5, FeedbackBoundsAssumption DEF NoId
  <2> HIDE DEF k
  <2>3. Selections[s].id = log[k].id /\ Selections[s].action = log[k].action
      BY <2>1
  <2> QED
      BY <1>3, <1>5, <2>1, <2>2, <2>3 DEF k
<1>6. CASE ~ (k # 0 /\ Intact(k))
  <2>1. Selections[s] = [id |-> NoId, action |-> Nothing]
      BY <1>2, <1>6
  <2> QED
      BY <1>4, <2>1
<1> QED
    BY <1>5, <1>6

\* A live event is typed, and its index positive.
LEMMA LatestTyped ==
    ASSUME FeedbackTypeOK, NEW s, LatestOf(s) # 0
    PROVE  /\ LatestOf(s) \in 1..Len(log) /\ IsLive(log[LatestOf(s)])
           /\ IsEvent(log[LatestOf(s)]) /\ log[LatestOf(s)].slot = s
           /\ log[LatestOf(s)].id \in 1..MaxIds /\ log[LatestOf(s)].session \in 1..MaxSessions
           /\ log[LatestOf(s)].action \in AnyAction
           /\ Recorded(log[LatestOf(s)].id)
<1>1. LatestOf(s) \in LiveOf(s) /\ log \in Seq(LogEntries)
    BY LatestFacts DEF FeedbackTypeOK
<1>2. LatestOf(s) \in 1..Len(log) /\ IsLive(log[LatestOf(s)]) /\ log[LatestOf(s)].slot = s
      /\ IsEvent(log[LatestOf(s)]) /\ log[LatestOf(s)] \in LogEntries
    BY <1>1 DEF LiveOf, IsLive
<1>3. Recorded(log[LatestOf(s)].id)
    BY <1>1, <1>2 DEF Recorded
<1> QED
    BY <1>2, <1>3, EntryFacts

\* The acknowledged step is what the tab knows; the others are as planned.
LEMMA AcknowledgedFacts ==
    ASSUME FeedbackInv, NEW c \in Tabs, inFlight[c], reply[c] = "ok"
    PROVE  /\ steps[c] # <<>> /\ steps[c] \in Seq(StepsOf) /\ steps[c][1] \in StepsOf
           /\ session[c] # NoSession /\ search[c] = NoSearch
           /\ steps[c][1].id # NoId /\ Recorded(steps[c][1].id) /\ choice[c] # NoChoice
           /\ \A s \in Slots :
                /\ KnownId(c, s) = IF s = steps[c][1].slot THEN steps[c][1].id ELSE latest[c][s]
                /\ KnownAction(c, s) = IF s = steps[c][1].slot THEN steps[c][1].action ELSE shown[c][s]
           /\ Planned(c, Tail(steps[c]))
<1>1. /\ steps[c] # <<>> /\ steps[c] \in Seq(StepsOf) /\ Recorded(steps[c][1].id)
      /\ session[c] # NoSession /\ search[c] = NoSearch /\ steps[c][1].id # NoId
      /\ choice[c] # NoChoice
      /\ \A j \in 2..Len(steps[c]) : steps[c][j].id = NoId
    BY DEF FeedbackInv, FeedbackTypeOK, Operating
<1> DEFINE all == steps[c]
           rest == Tail(steps[c])
<1>2. /\ Len(all) \in Nat \ {0} /\ all[1] \in StepsOf /\ rest \in Seq(StepsOf)
      /\ Len(rest) = Len(all) - 1 /\ DOMAIN rest = 1..(Len(all) - 1) /\ DOMAIN all = 1..Len(all)
      /\ \A j \in 1..(Len(all) - 1) : rest[j] = all[j + 1] /\ j + 1 \in 2..Len(all) /\ j + 1 \in 1..Len(all)
    BY <1>1
<1>3. \A s \in Slots :
        /\ KnownId(c, s) = IF s = all[1].slot THEN all[1].id ELSE latest[c][s]
        /\ KnownAction(c, s) = IF s = all[1].slot THEN all[1].action ELSE shown[c][s]
    BY <1>1 DEF KnownId, KnownAction, Coming
<1> HIDE DEF all, rest
<1>4. ASSUME NEW j \in 1..(Len(all) - 1), rest[j].action = Nothing
      PROVE  KnownId(c, rest[j].slot) # NoId
  <2>1. j + 1 \in DOMAIN steps[c] /\ steps[c][j + 1].action = Nothing /\ steps[c][j + 1] = rest[j]
      BY <1>2, <1>4 DEF all
  <2>2. latest[c][rest[j].slot] # NoId
      BY <2>1 DEF FeedbackInv, Replacing
  <2>3. rest[j] \in StepsOf
      BY <1>2
  <2>4. rest[j].slot \in Slots
      BY <2>3 DEF StepsOf
  <2>5. all[1].id # NoId
      BY <1>1 DEF all
  <2> QED
      BY <1>3, <2>2, <2>4, <2>5
<1>5. ASSUME NEW j \in 1..(Len(all) - 1), NEW s \in Slots, NEW b \in AnyAction,
             Excludes(rest[j].action, s, b)
      PROVE  /\ KnownAction(c, s) # b \/ \E i \in 1..(j - 1) : rest[i].slot = s
             /\ \A i \in 1..(Len(all) - 1) : ~ (rest[i].slot = s /\ rest[i].action = b)
  <2>1. j + 1 \in DOMAIN steps[c] /\ Excludes(steps[c][j + 1].action, s, b)
      BY <1>2, <1>5 DEF all
  <2>2. /\ KnownAction(c, s) # b \/ \E i \in 1..((j + 1) - 1) : steps[c][i].slot = s
        /\ \A i \in DOMAIN steps[c] : ~ (steps[c][i].slot = s /\ steps[c][i].action = b)
      BY <2>1 DEF FeedbackInv, Exclusive
  <2>3. /\ KnownAction(c, s) # b \/ \E i \in 1..j : all[i].slot = s
        /\ \A i \in 1..Len(all) : ~ (all[i].slot = s /\ all[i].action = b)
    <3>1. (j + 1) - 1 = j /\ DOMAIN steps[c] = 1..Len(all) /\ steps[c] = all
        BY <1>2 DEF all
    <3> QED
        BY <2>2, <3>1
  <2>4. \A i \in 1..(Len(all) - 1) : ~ (rest[i].slot = s /\ rest[i].action = b)
      BY <1>2, <2>3
  <2>5. ASSUME KnownAction(c, s) = b
        PROVE  \E i \in 1..(j - 1) : rest[i].slot = s
    <3>1. PICK i \in 1..j : all[i].slot = s
        BY <2>3, <2>5
    <3>2. i # 1
      <4>1. 1 \in 1..Len(all)
          BY <1>2
      <4>2. ~ (all[1].slot = s /\ all[1].action = b)
          BY <2>3, <4>1
      <4> QED
          BY <1>3, <2>5, <3>1, <4>2
    <3>3. i - 1 \in 1..(j - 1) /\ i - 1 \in 1..(Len(all) - 1) /\ (i - 1) + 1 = i
        BY <1>2, <3>1, <3>2
    <3> QED
        BY <1>2, <3>1, <3>3
  <2> QED
      BY <2>4, <2>5
<1>6. \A j \in 1..(Len(all) - 1) : rest[j].id = NoId
    BY <1>1, <1>2 DEF all
<1>7. Planned(c, rest)
    BY <1>2, <1>4, <1>5, <1>6 DEF Planned
<1> QED
    BY <1>1, <1>2, <1>3, <1>7 DEF all, rest

-------------------------------------------------------------------------------
(***************************************************************************)
(* Types: a step leaves every variable in its set.                         *)
(***************************************************************************)
\* The parts of FeedbackTypeOK that concern the client, and the log.
ClientTypeOK ==
    /\ sessions \in 0..MaxSessions /\ ids \in 0..MaxIds
    /\ session \in [Tabs -> 0..MaxSessions] /\ since \in [Tabs -> 0..MaxLog]
    /\ shown \in [Tabs -> [Slots -> AnyAction]] /\ latest \in [Tabs -> [Slots -> 0..MaxIds]]
    /\ \A c \in Tabs, s \in Slots : shown[c][s] \in Actions(s)
    /\ choice \in [Tabs -> FeedbackChoices \cup {NoChoice}] /\ steps \in [Tabs -> Seq(StepsOf)]
    /\ inFlight \in [Tabs -> BOOLEAN] /\ refused \in [Tabs -> BOOLEAN]
    /\ search \in [Tabs -> Searches \cup {NoSearch}]
    /\ \A c \in Tabs, s \in Slots :
         search[c] # NoSearch => search[c].selections[s].action \in Actions(s)
    /\ wire \subseteq Requests
    /\ reply \in [Tabs -> {"none", "ok", "conflict"}]

UniqueIds ==
    \A i, j \in DOMAIN log : (IsEvent(log[i]) /\ IsEvent(log[j]) /\ log[i].id = log[j].id) => i = j

LEMMA TypeParts ==
    FeedbackTypeOK <=> log \in Seq(LogEntries) /\ learned \in Learned /\ ClientTypeOK /\ UniqueIds
    BY DEF FeedbackTypeOK, ClientTypeOK, UniqueIds

LEMMA ClientTypes ==
    ASSUME FeedbackInv, [Next]_vars
    PROVE  ClientTypeOK'
<1> USE DEF ClientTypeOK
<1>1. ClientTypeOK /\ FeedbackTypeOK
    BY DEF FeedbackInv, FeedbackTypeOK
<1>2. /\ {"none", "ok", "conflict"} = {"none", "ok", "conflict"} /\ 0 \in 0..MaxIds
      /\ 0 \in 0..MaxSessions /\ Len(log) \in 0..MaxLog /\ NoId = 0 /\ NoSession = 0
      /\ \A s \in Slots : Nothing \in Actions(s) /\ Nothing \in AnyAction
      /\ <<>> \in Seq(StepsOf)
  <2>1. Len(log) \in Nat
      BY DEF FeedbackInv, FeedbackTypeOK
  <2>2. Len(log) <= MaxLog
      BY DEF FeedbackInv, Anchored
  <2> QED
      BY <2>1, <2>2, FeedbackBoundsAssumption DEF Actions, AnyAction, NoId, NoSession
<1>3. ASSUME NEW c \in Tabs, StartSearch(c)
      PROVE  ClientTypeOK'
  <2>1. sessions' \in 1..MaxSessions /\ sessions' \in 0..MaxSessions
      BY <1>1, <1>3, FeedbackBoundsAssumption DEF StartSearch
  <2> DEFINE found == [session |-> sessions', selections |-> Selections, at |-> Len(log)]
  <2>2. found \in Searches /\ found.selections = Selections
      BY <1>1, <1>2, <2>1, SelectionsFacts DEF Searches
  <2>3. search' = [search EXCEPT ![c] = found]
      BY <1>3 DEF StartSearch
  <2> HIDE DEF found
  <2>4. search' \in [Tabs -> Searches \cup {NoSearch}]
      BY <1>1, <2>2, <2>3
  <2>5. \A d \in Tabs, s \in Slots :
          search'[d] # NoSearch => search'[d].selections[s].action \in Actions(s)
    <3>1. \A d \in Tabs : d # c => search'[d] = search[d]
        BY <1>1, <2>3
    <3>2. search'[c] = found
        BY <1>1, <2>3
    <3> QED
        BY <1>1, <2>2, <3>1, <3>2, SelectionsFacts
  <2> QED
      BY <1>1, <1>3, <2>1, <2>4, <2>5 DEF StartSearch, serverVars, displayVars, opVars
<1>4. ASSUME NEW c \in Tabs, EndSearch(c)
      PROVE  ClientTypeOK'
  <2>1. search[c] \in Searches /\ search[c] # NoSearch
      BY <1>1, <1>4 DEF EndSearch
  <2> DEFINE names == [s \in Slots |-> search[c].selections[s].id]
             acts == [s \in Slots |-> search[c].selections[s].action]
  <2>2. /\ search[c].session \in 0..MaxSessions /\ search[c].at \in 0..MaxLog
        /\ \A s \in Slots : search[c].selections[s] \in [id : 0..MaxIds, action : AnyAction]
      BY <2>1, FeedbackBoundsAssumption DEF Searches
  <2>3. names \in [Slots -> 0..MaxIds] /\ acts \in [Slots -> AnyAction]
      BY <2>2
  <2>4. \A s \in Slots : acts[s] \in Actions(s)
      BY <1>1, <2>1
  <2>5. /\ latest' = [latest EXCEPT ![c] = names] /\ shown' = [shown EXCEPT ![c] = acts]
      BY <1>4 DEF EndSearch
  <2> HIDE DEF names, acts
  <2>6. /\ latest' \in [Tabs -> [Slots -> 0..MaxIds]] /\ shown' \in [Tabs -> [Slots -> AnyAction]]
        /\ \A d \in Tabs, s \in Slots : shown'[d][s] \in Actions(s)
      BY <1>1, <2>3, <2>4, <2>5
  <2>7. /\ session' \in [Tabs -> 0..MaxSessions] /\ since' \in [Tabs -> 0..MaxLog]
        /\ choice' \in [Tabs -> FeedbackChoices \cup {NoChoice}] /\ steps' \in [Tabs -> Seq(StepsOf)]
        /\ refused' \in [Tabs -> BOOLEAN]
      BY <1>1, <1>2, <1>4, <2>2 DEF EndSearch
  <2>8. /\ search' \in [Tabs -> Searches \cup {NoSearch}]
        /\ \A d \in Tabs : search'[d] = IF d = c THEN NoSearch ELSE search[d]
      BY <1>1, <1>4 DEF EndSearch
  <2>9. \A d \in Tabs, s \in Slots :
          search'[d] # NoSearch => search'[d].selections[s].action \in Actions(s)
      BY <1>1, <2>8
  <2> QED
      BY <1>1, <1>4, <2>6, <2>7, <2>8, <2>9 DEF EndSearch
<1>5. ASSUME NEW c \in Tabs, FailSearch(c)
      PROVE  ClientTypeOK'
  <2>1. /\ search' \in [Tabs -> Searches \cup {NoSearch}]
        /\ \A d \in Tabs : search'[d] = IF d = c THEN NoSearch ELSE search[d]
      BY <1>1, <1>5 DEF FailSearch
  <2>2. \A d \in Tabs, s \in Slots :
          search'[d] # NoSearch => search'[d].selections[s].action \in Actions(s)
      BY <1>1, <2>1
  <2> QED
      BY <1>1, <1>5, <2>1, <2>2 DEF FailSearch, serverVars, displayVars, opVars
<1>6. ASSUME NEW c \in Tabs, Invalidate(c)
      PROVE  ClientTypeOK'
  <2> DEFINE names == [s \in Slots |-> NoId]
             acts == [s \in Slots |-> Nothing]
  <2>1. /\ names \in [Slots -> 0..MaxIds] /\ acts \in [Slots -> AnyAction]
        /\ \A s \in Slots : acts[s] \in Actions(s)
      BY <1>2
  <2>2. latest' = [latest EXCEPT ![c] = names] /\ shown' = [shown EXCEPT ![c] = acts]
      BY <1>6 DEF Invalidate
  <2> HIDE DEF names, acts
  <2>3. /\ latest' \in [Tabs -> [Slots -> 0..MaxIds]] /\ shown' \in [Tabs -> [Slots -> AnyAction]]
        /\ \A d \in Tabs, s \in Slots : shown'[d][s] \in Actions(s)
      BY <1>1, <2>1, <2>2
  <2>4. /\ session' \in [Tabs -> 0..MaxSessions]
        /\ choice' \in [Tabs -> FeedbackChoices \cup {NoChoice}] /\ steps' \in [Tabs -> Seq(StepsOf)]
        /\ refused' \in [Tabs -> BOOLEAN] /\ inFlight' \in [Tabs -> BOOLEAN]
        /\ reply' \in [Tabs -> {"none", "ok", "conflict"}]
      BY <1>1, <1>2, <1>6 DEF Invalidate
  <2>5. /\ search' \in [Tabs -> Searches \cup {NoSearch}]
        /\ \A d \in Tabs : search'[d] = IF d = c THEN NoSearch ELSE search[d]
      BY <1>1, <1>6 DEF Invalidate
  <2>6. \A d \in Tabs, s \in Slots :
          search'[d] # NoSearch => search'[d].selections[s].action \in Actions(s)
      BY <1>1, <2>5
  <2> QED
      BY <1>1, <1>6, <2>3, <2>4, <2>5, <2>6 DEF Invalidate
<1>7. ASSUME NEW c \in Tabs, NEW ch \in FeedbackChoices, Choose(c, ch)
      PROVE  ClientTypeOK'
  <2> DEFINE todo == IF choice[c] = NoChoice THEN Plan(c, ch) ELSE steps[c]
  <2>1. todo # <<>> /\ Send(c, todo, latest[c]) /\ session[c] # NoSession
      BY <1>7 DEF Choose
  <2>2. todo \in Seq(StepsOf) /\ todo[1].id <= ids
    <3>1. CASE choice[c] = NoChoice
      <4>1. steps[c] = <<>>
          BY <3>1 DEF FeedbackInv, Operating
      <4>2. Planned(c, Plan(c, ch))
          BY <1>1, <4>1, PlanFacts DEF FeedbackInv
      <4>3. todo = Plan(c, ch)
          BY <3>1
      <4> HIDE DEF todo
      <4>4. todo \in Seq(StepsOf) /\ 1 \in DOMAIN todo
          BY <2>1, <4>2, <4>3 DEF Planned
      <4>5. todo[1].id = 0 /\ ids \in Nat
          BY <1>1, <1>2, <4>2, <4>3, <4>4, FeedbackBoundsAssumption DEF Planned
      <4> QED
          BY <4>4, <4>5
    <3>2. CASE choice[c] # NoChoice
        BY <1>1, <2>1, <3>2 DEF FeedbackInv, Identified
    <3> QED
        BY <3>1, <3>2
  <2> HIDE DEF todo
  <2>3. latest[c] \in [Slots -> 0..MaxIds]
      BY <1>1
  <2>4. /\ steps' = [steps EXCEPT ![c] = Frozen(c, todo, latest[c])]
        /\ Frozen(c, todo, latest[c]) \in Seq(StepsOf)
        /\ ids' \in 0..MaxIds /\ wire' \subseteq Requests
        /\ inFlight' = [inFlight EXCEPT ![c] = TRUE] /\ reply' = [reply EXCEPT ![c] = "none"]
      BY <1>1, <2>1, <2>2, <2>3, SendFacts
  <2>5. /\ steps' \in [Tabs -> Seq(StepsOf)] /\ inFlight' \in [Tabs -> BOOLEAN]
        /\ reply' \in [Tabs -> {"none", "ok", "conflict"}]
      BY <1>1, <2>4
  <2>6. /\ choice' \in [Tabs -> FeedbackChoices \cup {NoChoice}]
        /\ refused' \in [Tabs -> BOOLEAN]
      BY <1>1, <1>7 DEF Choose
  <2> QED
      BY <1>1, <1>7, <2>4, <2>5, <2>6 DEF Choose, serverVars, displayVars
<1>8. ASSUME NEW c \in Tabs, RequestFails(c) \/ ReplyFails(c) \/ Refused(c)
      PROVE  ClientTypeOK'
    BY <1>1, <1>8 DEF RequestFails, ReplyFails, Refused, serverVars, displayVars
<1>9. ASSUME NEW c \in Tabs, Acknowledged(c)
      PROVE  ClientTypeOK'
  <2> DEFINE step == steps[c][1]
             rest == Tail(steps[c])
             known == [latest[c] EXCEPT ![step.slot] = step.id]
  <2>1. inFlight[c] /\ reply[c] = "ok"
      BY <1>9 DEF Acknowledged
  <2>2. /\ step \in StepsOf /\ session[c] # NoSession /\ Planned(c, rest)
      BY <2>1, AcknowledgedFacts
  <2>3. /\ step.slot \in Slots /\ step.id \in 0..MaxIds /\ step.action \in AnyAction
        /\ step.action \in Actions(step.slot)
      BY <2>2 DEF StepsOf
  <2>4. /\ latest' = [latest EXCEPT ![c] = known]
        /\ shown' = [shown EXCEPT ![c][step.slot] = step.action]
        /\ rest # <<>> => Send(c, rest, known) /\ choice' = choice
        /\ rest = <<>> => /\ steps' = [steps EXCEPT ![c] = <<>>] /\ choice' = [choice EXCEPT ![c] = NoChoice]
                          /\ inFlight' = [inFlight EXCEPT ![c] = FALSE]
                          /\ reply' = [reply EXCEPT ![c] = "none"]
                          /\ ids' = ids /\ wire' = wire
        /\ sessions' = sessions /\ session' = session /\ since' = since /\ refused' = refused
        /\ search' = search
      BY <1>9 DEF Acknowledged
  <2>5. known \in [Slots -> 0..MaxIds]
      BY <1>1, <2>3
  <2> HIDE DEF known, step
  <2>6. /\ latest' \in [Tabs -> [Slots -> 0..MaxIds]] /\ shown' \in [Tabs -> [Slots -> AnyAction]]
        /\ \A d \in Tabs, s \in Slots : shown'[d][s] \in Actions(s)
      BY <1>1, <2>3, <2>4, <2>5
  <2>7. CASE rest = <<>>
    <3> HIDE DEF rest
    <3>1. /\ choice' \in [Tabs -> FeedbackChoices \cup {NoChoice}]
          /\ steps' \in [Tabs -> Seq(StepsOf)]
      <4>1. choice' = [choice EXCEPT ![c] = NoChoice] /\ steps' = [steps EXCEPT ![c] = <<>>]
          BY <2>4, <2>7
      <4>2. choice' \in [Tabs -> FeedbackChoices \cup {NoChoice}]
          BY <1>1, <4>1
      <4>3. steps' \in [Tabs -> Seq(StepsOf)]
          BY <1>1, <1>2, <4>1
      <4> QED
          BY <4>2, <4>3
    <3>2. /\ inFlight' \in [Tabs -> BOOLEAN]
          /\ reply' \in [Tabs -> {"none", "ok", "conflict"}]
        BY <1>1, <2>4, <2>7
    <3>3. ids' = ids /\ wire' = wire
        BY <2>4, <2>7
    <3> QED
        BY <1>1, <2>4, <2>6, <3>1, <3>2, <3>3
  <2>8. CASE rest # <<>>
    <3> HIDE DEF rest
    <3>1. rest \in Seq(StepsOf) /\ rest[1].id <= ids
      <4>1. rest \in Seq(StepsOf) /\ 1 \in DOMAIN rest
          BY <2>2, <2>8 DEF Planned
      <4>2. rest[1].id = 0 /\ ids \in Nat
          BY <1>1, <1>2, <2>2, <4>1, FeedbackBoundsAssumption DEF Planned
      <4> QED
          BY <4>1, <4>2
    <3>2. /\ steps' = [steps EXCEPT ![c] = Frozen(c, rest, known)]
          /\ Frozen(c, rest, known) \in Seq(StepsOf)
          /\ ids' \in 0..MaxIds /\ wire' \subseteq Requests
          /\ inFlight' = [inFlight EXCEPT ![c] = TRUE] /\ reply' = [reply EXCEPT ![c] = "none"]
        BY <1>1, <2>2, <2>4, <2>5, <2>8, <3>1, SendFacts
    <3>3. /\ steps' \in [Tabs -> Seq(StepsOf)] /\ inFlight' \in [Tabs -> BOOLEAN]
          /\ reply' \in [Tabs -> {"none", "ok", "conflict"}]
        BY <1>1, <3>2
    <3> QED
        BY <1>1, <2>4, <2>6, <2>8, <3>2, <3>3
  <2> QED
      BY <2>7, <2>8
<1>10. ASSUME NEW r \in wire, Record(r)
       PROVE  ClientTypeOK'
  <2>1. \E a \in {"ok", "conflict"} : Answer(r, a)
      BY <1>10 DEF Record
  <2>2. wire' \subseteq Requests /\ reply' \in [Tabs -> {"none", "ok", "conflict"}]
      BY <1>1, <2>1 DEF Answer
  <2> QED
      BY <1>1, <1>10, <2>2 DEF Record, displayVars, opVars
<1>11. CASE LegacySearch \/ ResetFeelProfile
    BY <1>1, <1>11 DEF LegacySearch, ResetFeelProfile, displayVars, opVars
<1>12. CASE UNCHANGED vars
    BY <1>1, <1>12 DEF vars, displayVars, opVars
<1> QED
    BY <1>3, <1>4, <1>5, <1>6, <1>7, <1>8, <1>9, <1>10, <1>11, <1>12 DEF Next

-------------------------------------------------------------------------------
(***************************************************************************)
(* Steps that write nothing: failures, and searches that begin.            *)
(***************************************************************************)
LEMMA KnownFrame ==
    ASSUME log' = log, NEW c, steps'[c] = steps[c], latest'[c] = latest[c], shown'[c] = shown[c]
    PROVE  \A s : KnownId(c, s)' = KnownId(c, s) /\ KnownAction(c, s)' = KnownAction(c, s)
<1>1. \A id : Recorded(id)' <=> Recorded(id)
    BY SameLogFacts
<1>2. \A s : Coming(c, s)' <=> Coming(c, s)
    BY <1>1 DEF Coming
<1> QED
    BY <1>2 DEF KnownId, KnownAction

LEMMA QuietFrame ==
    ASSUME log' = log, NEW c, since'[c] = since[c], session'[c] = session[c]
    PROVE  Quiet(c)' <=> Quiet(c)
    BY DEF Quiet, IsEvent

LEMMA RatedFrame ==
    ASSUME log' = log
    PROVE  \A n, s, a : Rated(n, s, a)' <=> Rated(n, s, a)
    BY SameLogFacts DEF Rated

\* What does not depend on the choice, on replies and on searches.
LEMMA IdleStep ==
    ASSUME FeedbackInv, log' = log, learned' = learned, ids' = ids, session' = session,
           shown' = shown, latest' = latest, since' = since, steps' = steps, wire' = wire
    PROVE  /\ Identified' /\ Pending' /\ Synced' /\ Exclusive' /\ Journal'
           /\ \A c : Quiet(c)' <=> Quiet(c)
           /\ Replacing' <=>
                \A c \in Tabs, s \in Slots : search'[c] # NoSearch =>
                  (search'[c].selections[s].action # Nothing => search'[c].selections[s].id # NoId)
           /\ Anchored' <=>
                /\ \A c \in Tabs : search'[c] # NoSearch =>
                     /\ search'[c].at <= Len(log)
                     /\ search'[c].at = Len(log) => search'[c].selections = Selections
                /\ \A c \in Tabs : reply'[c] = "conflict" \/ refused'[c] =>
                     session[c] # NoSession /\ ~Quiet(c)
<1>1. /\ \A id : Recorded(id)' <=> Recorded(id)
      /\ \A s : LatestOf(s)' = LatestOf(s)
      /\ \A k : Intact(k)' <=> Intact(k)
      /\ Selections' = Selections
      /\ Journal'
    BY SameLogFacts DEF FeedbackInv
<1>2. \A c, s : KnownId(c, s)' = KnownId(c, s) /\ KnownAction(c, s)' = KnownAction(c, s)
    BY KnownFrame
<1>3. \A c : Quiet(c)' <=> Quiet(c)
    BY QuietFrame
<1>4. \A n, s, a : Rated(n, s, a)' <=> Rated(n, s, a)
    BY RatedFrame
<1>5. Identified'
    BY <1>1 DEF FeedbackInv, Identified, RequestOf, IsEvent
<1>6. Pending'
    BY <1>1 DEF FeedbackInv, Pending
<1>7. Synced'
    BY <1>1, <1>2 DEF FeedbackInv, Synced
<1>8. Exclusive'
    BY <1>1, <1>2, <1>4 DEF FeedbackInv, Exclusive, Excludes
<1>9. Replacing' <=>
        \A c \in Tabs, s \in Slots : search'[c] # NoSearch =>
          (search'[c].selections[s].action # Nothing => search'[c].selections[s].id # NoId)
    BY DEF FeedbackInv, Replacing
<1>10. Anchored' <=>
         /\ \A c \in Tabs : search'[c] # NoSearch =>
              /\ search'[c].at <= Len(log)
              /\ search'[c].at = Len(log) => search'[c].selections = Selections
         /\ \A c \in Tabs : reply'[c] = "conflict" \/ refused'[c] =>
              session[c] # NoSession /\ ~Quiet(c)
    BY <1>1, <1>2, <1>3 DEF FeedbackInv, Anchored
<1> QED
    BY <1>1, <1>3, <1>5, <1>6, <1>7, <1>8, <1>9, <1>10

Parts == Operating /\ Owned /\ Identified /\ Pending /\ Synced /\ Replacing /\ Exclusive
         /\ Anchored /\ Journal

LEMMA FailureStep ==
    ASSUME FeedbackInv,
           (\E c \in Tabs : RequestFails(c) \/ ReplyFails(c) \/ Refused(c)) \/ UNCHANGED vars
    PROVE  Parts'
<1>1. /\ log' = log /\ learned' = learned /\ ids' = ids /\ session' = session /\ sessions' = sessions
      /\ shown' = shown /\ latest' = latest /\ since' = since /\ steps' = steps /\ wire' = wire
      /\ search' = search /\ choice' = choice
    BY DEF RequestFails, ReplyFails, Refused, vars, serverVars, displayVars, opVars
<1>2. /\ inFlight \in [Tabs -> BOOLEAN] /\ refused \in [Tabs -> BOOLEAN]
      /\ reply \in [Tabs -> {"none", "ok", "conflict"}]
    BY DEF FeedbackInv, FeedbackTypeOK
<1>3. /\ \A d \in Tabs : inFlight'[d] => inFlight[d]
      /\ \A d \in Tabs : reply'[d] # "none" => reply'[d] = reply[d] /\ (inFlight[d] => inFlight'[d])
      /\ \A d \in Tabs : refused'[d] => refused[d] \/ reply[d] = "conflict"
    BY <1>2 DEF RequestFails, ReplyFails, Refused, Waiting, vars, opVars
<1>4. \A id : Recorded(id)' <=> Recorded(id)
    BY <1>1, SameLogFacts
<1>5. Operating'
    BY <1>1, <1>3, <1>4 DEF FeedbackInv, Operating
<1>6. Owned'
    BY <1>1 DEF FeedbackInv, Owned, IsEvent
<1>7. Replacing' /\ Anchored'
  <2>1. /\ \A c \in Tabs, s \in Slots : search'[c] # NoSearch =>
             (search'[c].selections[s].action # Nothing => search'[c].selections[s].id # NoId)
        /\ \A c \in Tabs : search'[c] # NoSearch =>
             /\ search'[c].at <= Len(log)
             /\ search'[c].at = Len(log) => search'[c].selections = Selections
        /\ \A c \in Tabs : reply'[c] = "conflict" \/ refused'[c] =>
             session[c] # NoSession /\ ~Quiet(c)
      BY <1>1, <1>3 DEF FeedbackInv, Replacing, Anchored
  <2> QED
      BY <1>1, <2>1, IdleStep
<1> QED
    BY <1>1, <1>5, <1>6, <1>7, IdleStep DEF Parts

LEMMA SearchStep ==
    ASSUME FeedbackInv, NEW c \in Tabs, StartSearch(c) \/ FailSearch(c)
    PROVE  Parts'
<1>1. /\ log' = log /\ learned' = learned /\ ids' = ids /\ session' = session
      /\ shown' = shown /\ latest' = latest /\ since' = since /\ steps' = steps /\ wire' = wire
      /\ choice' = choice /\ inFlight' = inFlight /\ refused' = refused /\ reply' = reply
    BY DEF StartSearch, FailSearch, serverVars, displayVars, opVars
<1>2. /\ search \in [Tabs -> Searches \cup {NoSearch}] /\ sessions \in Nat
      /\ log \in Seq(LogEntries) /\ session \in [Tabs -> 0..MaxSessions]
      /\ wire \subseteq Requests
    BY FeedbackBoundsAssumption DEF FeedbackInv, FeedbackTypeOK
<1>3. /\ \A d \in Tabs : d # c => search'[d] = search[d]
      /\ \/ search'[c] = NoSearch /\ sessions' = sessions
         \/ /\ ~inFlight[c] /\ sessions' = sessions + 1
            /\ search'[c] = [session |-> sessions', selections |-> Selections, at |-> Len(log)]
    BY <1>2 DEF StartSearch, FailSearch
<1>4. \A id : Recorded(id)' <=> Recorded(id)
    BY <1>1, SameLogFacts
<1>5. Operating'
    BY <1>1, <1>3, <1>4 DEF FeedbackInv, Operating
<1>6. Owned'
  <2>1. /\ \A d \in Tabs : session[d] \in Nat
        /\ \A r \in wire : r.session \in Nat
        /\ \A i \in DOMAIN log : IsEvent(log[i]) => log[i].session \in Nat
        /\ \A d \in Tabs : search[d] # NoSearch => search[d].session \in Nat /\ search[d].session # 0
    <3>1. \A i \in DOMAIN log : log[i] \in LogEntries
        BY <1>2
    <3>2. \A i \in DOMAIN log : IsEvent(log[i]) => log[i].session \in 1..MaxSessions
        BY <3>1, EntryFacts
    <3>3. \A d \in Tabs : search[d] # NoSearch => search[d].session \in 1..MaxSessions
        BY <1>2 DEF Searches
    <3>4. \A r \in wire : r.session \in 1..MaxSessions
        BY <1>2 DEF Requests
    <3> QED
        BY <1>2, <3>2, <3>3, <3>4, FeedbackBoundsAssumption
  <2>2. CASE search'[c] = NoSearch /\ sessions' = sessions
    <3>1. \A d \in Tabs : search'[d] # NoSearch => d # c /\ search'[d] = search[d] /\ search'[d].session # 0
        BY <1>3, <2>1, <2>2
    <3>2. search'[c].session = 0
        BY <2>2 DEF NoSearch, NoSession
    <3>3. \A d \in Tabs : \A e \in Tabs \ {d} :
            search'[d] # NoSearch => search'[d].session # search'[e].session
        BY <1>3, <3>1, <3>2 DEF FeedbackInv, Owned
    <3> QED
        BY <1>1, <2>2, <3>1, <3>3 DEF FeedbackInv, Owned, IsEvent
  <2>3. CASE /\ sessions' = sessions + 1
             /\ search'[c] = [session |-> sessions', selections |-> Selections, at |-> Len(log)]
    <3>1. search'[c].session = sessions + 1
        BY <2>3
    <3>2. \A n \in Nat : n <= sessions => n # sessions + 1 /\ n <= sessions'
        BY <1>2, <2>3
    <3>3. sessions + 1 <= sessions'
        BY <1>2, <2>3
    <3>4. \A d \in Tabs \ {c} : search'[d] # NoSearch => search'[d].session # sessions + 1
        BY <1>3, <2>1, <3>2 DEF FeedbackInv, Owned
    <3>5. \A d \in Tabs : session'[d] # sessions + 1 /\ session'[d] <= sessions'
        BY <1>1, <2>1, <3>2 DEF FeedbackInv, Owned
    <3>6. \A r \in wire' : r.session # sessions + 1 /\ r.session <= sessions'
        BY <1>1, <2>1, <3>2 DEF FeedbackInv, Owned
    <3>7. \A i \in DOMAIN log' : IsEvent(log'[i]) =>
            log'[i].session # sessions + 1 /\ log'[i].session <= sessions'
        BY <1>1, <2>1, <3>2 DEF FeedbackInv, Owned
    <3>8. /\ \A a, b \in Tabs : session'[a] = session'[b] /\ session'[a] # NoSession => a = b
          /\ \A r \in wire', d \in Tabs : r.session = session'[d] => r.tab = d
        BY <1>1 DEF FeedbackInv, Owned
    <3>9. ASSUME NEW d \in Tabs, search'[d] # NoSearch
          PROVE  /\ search'[d].session <= sessions'
                 /\ \A e \in Tabs : search'[d].session # session'[e]
                 /\ \A e \in Tabs \ {d} : search'[d].session # search'[e].session
                 /\ \A r \in wire' : r.session # search'[d].session
                 /\ \A i \in DOMAIN log' : IsEvent(log'[i]) => log'[i].session # search'[d].session
      <4>1. NoSearch.session = 0 /\ sessions + 1 # 0
          BY <1>2 DEF NoSearch, NoSession
      <4>2. CASE d = c
        <5>1. \A e \in Tabs \ {d} : search'[e].session # sessions + 1
            BY <3>4, <4>1, <4>2
        <5> QED
            BY <3>1, <3>3, <3>5, <3>6, <3>7, <4>2, <5>1
      <4>3. CASE d # c
        <5>1. search'[d] = search[d] /\ search[d] # NoSearch
            BY <1>3, <3>9, <4>3
        <5>2. \A e \in Tabs \ {d} : search'[d].session # search'[e].session
          <6>1. \A e \in Tabs \ {c, d} : search'[d].session # search'[e].session
              BY <1>3, <5>1 DEF FeedbackInv, Owned
          <6>2. search'[d].session # search'[c].session
              BY <3>1, <3>4, <3>9, <4>3
          <6> QED
              BY <6>1, <6>2
        <5> QED
            BY <1>1, <2>1, <3>2, <5>1, <5>2 DEF FeedbackInv, Owned, IsEvent
      <4> QED
          BY <4>2, <4>3
    <3> QED
        BY <3>5, <3>6, <3>7, <3>8, <3>9 DEF Owned, IsEvent
  <2> QED
      BY <1>3, <2>2, <2>3
<1>7. Replacing' /\ Anchored'
  <2>1. \A d \in Tabs, s \in Slots : search'[d] # NoSearch =>
          (search'[d].selections[s].action # Nothing => search'[d].selections[s].id # NoId)
      BY <1>3, SelectionsFacts DEF FeedbackInv, Replacing
  <2>2. \A d \in Tabs : search'[d] # NoSearch =>
          /\ search'[d].at <= Len(log)
          /\ search'[d].at = Len(log) => search'[d].selections = Selections
    <3>1. Len(log) <= Len(log)
        BY <1>2
    <3> QED
        BY <1>3, <3>1 DEF FeedbackInv, Anchored
  <2>3. \A d \in Tabs : reply'[d] = "conflict" \/ refused'[d] => session[d] # NoSession /\ ~Quiet(d)
      BY <1>1 DEF FeedbackInv, Anchored
  <2> QED
      BY <1>1, <2>1, <2>2, <2>3, IdleStep
<1> QED
    BY <1>1, <1>5, <1>6, <1>7, IdleStep DEF Parts

-------------------------------------------------------------------------------
(***************************************************************************)
(* Steps that begin a new slate: the end of a search, a change of account. *)
(***************************************************************************)
LEMMA SlateStep ==
    ASSUME FeedbackInv, NEW c \in Tabs, EndSearch(c) \/ Invalidate(c)
    PROVE  Parts'
<1>1. /\ log' = log /\ learned' = learned /\ ids' = ids /\ wire' = wire /\ sessions' = sessions
      /\ steps \in [Tabs -> Seq(StepsOf)] /\ search \in [Tabs -> Searches \cup {NoSearch}]
      /\ session \in [Tabs -> 0..MaxSessions] /\ since \in [Tabs -> 0..MaxLog]
      /\ reply \in [Tabs -> {"none", "ok", "conflict"}] /\ inFlight \in [Tabs -> BOOLEAN]
      /\ refused \in [Tabs -> BOOLEAN] /\ wire \subseteq Requests /\ log \in Seq(LogEntries)
      /\ shown \in [Tabs -> [Slots -> AnyAction]] /\ latest \in [Tabs -> [Slots -> 0..MaxIds]]
      /\ choice \in [Tabs -> FeedbackChoices \cup {NoChoice}]
    BY DEF EndSearch, Invalidate, serverVars, FeedbackInv, FeedbackTypeOK
<1>2. \A d \in Tabs : d # c =>
        /\ steps'[d] = steps[d] /\ session'[d] = session[d] /\ since'[d] = since[d]
        /\ shown'[d] = shown[d] /\ latest'[d] = latest[d] /\ choice'[d] = choice[d]
        /\ reply'[d] = reply[d] /\ inFlight'[d] = inFlight[d] /\ refused'[d] = refused[d]
        /\ search'[d] = search[d]
    BY <1>1 DEF EndSearch, Invalidate
<1>3. /\ steps'[c] = <<>> /\ choice'[c] = NoChoice /\ ~refused'[c] /\ search'[c] = NoSearch
      /\ ~inFlight'[c] /\ reply'[c] = "none"
  <2>1. CASE EndSearch(c)
    <3>1. /\ steps'[c] = <<>> /\ choice'[c] = NoChoice /\ ~refused'[c] /\ search'[c] = NoSearch
          /\ inFlight' = inFlight /\ reply' = reply /\ search[c] # NoSearch
        BY <1>1, <2>1 DEF EndSearch
    <3> QED
        BY <3>1 DEF FeedbackInv, Operating
  <2>2. CASE Invalidate(c)
      BY <1>1, <2>2 DEF Invalidate
  <2> QED
      BY <2>1, <2>2
<1>4. /\ \A r \in wire : r.session \in 1..MaxSessions
      /\ \A d \in Tabs : search[d] # NoSearch => search[d].session \in 1..MaxSessions
    BY <1>1 DEF Requests, Searches
<1>5. \/ /\ session'[c] = NoSession /\ since'[c] = since[c]
         /\ \A s \in Slots : latest'[c][s] = NoId /\ shown'[c][s] = Nothing
      \/ /\ search[c] # NoSearch /\ session'[c] = search[c].session /\ since'[c] = search[c].at
         /\ \A s \in Slots : /\ latest'[c][s] = search[c].selections[s].id
                             /\ shown'[c][s] = search[c].selections[s].action
    BY <1>1 DEF EndSearch, Invalidate
<1>6. /\ session'[c] <= sessions
      /\ session'[c] # NoSession =>
           /\ \A d \in Tabs \ {c} : session'[c] # session[d]
           /\ \A r \in wire : r.session # session'[c]
           /\ \A i \in DOMAIN log : IsEvent(log[i]) => log[i].session # session'[c]
      /\ \A d \in Tabs \ {c} : search[d] # NoSearch => search[d].session # session'[c]
  <2>1. NoSession <= sessions /\ NoSession = 0
      BY FeedbackBoundsAssumption DEF FeedbackInv, FeedbackTypeOK, NoSession
  <2>2. CASE session'[c] = NoSession
      BY <1>4, <2>1, <2>2
  <2>3. CASE search[c] # NoSearch /\ session'[c] = search[c].session
      BY <2>3 DEF FeedbackInv, Owned
  <2> QED
      BY <1>5, <2>2, <2>3
<1>7. /\ \A id : Recorded(id)' <=> Recorded(id)
      /\ \A s : LatestOf(s)' = LatestOf(s)
      /\ \A k : Intact(k)' <=> Intact(k)
      /\ Selections' = Selections
      /\ Journal'
    BY <1>1, SameLogFacts DEF FeedbackInv
<1>8. \A s : /\ \A d \in Tabs \ {c} : /\ KnownId(d, s)' = KnownId(d, s)
                                     /\ KnownAction(d, s)' = KnownAction(d, s)
             /\ KnownId(c, s)' = latest'[c][s] /\ KnownAction(c, s)' = shown'[c][s]
  <2>1. \A d \in Tabs \ {c} : \A s : /\ KnownId(d, s)' = KnownId(d, s)
                                    /\ KnownAction(d, s)' = KnownAction(d, s)
      BY <1>1, <1>2, KnownFrame
  <2>2. \A s : ~Coming(c, s)'
      BY <1>3 DEF Coming
  <2> QED
      BY <2>1, <2>2 DEF KnownId, KnownAction
<1>9. \A d \in Tabs \ {c} : Quiet(d)' <=> Quiet(d)
    BY <1>1, <1>2, QuietFrame
<1>10. \A n, s, a : Rated(n, s, a)' <=> Rated(n, s, a)
    BY <1>1, RatedFrame
<1>11. Operating'
  <2>1. Len(steps'[c]) = 0 /\ 2..0 = {}
      BY <1>3
  <2>2. ASSUME NEW d \in Tabs, d # c
        PROVE  /\ choice'[d] = NoChoice => steps'[d] = <<>>
               /\ steps'[d] # <<>> => session'[d] # NoSession /\ steps'[d][1].id # NoId
               /\ \A j \in 2..Len(steps'[d]) : steps'[d][j].id = NoId
               /\ search'[d] # NoSearch => ~inFlight'[d]
               /\ inFlight'[d] => steps'[d] # <<>>
               /\ reply'[d] # "none" => inFlight'[d]
               /\ reply'[d] = "ok" => Recorded(steps'[d][1].id)
      BY <1>2, <2>2 DEF FeedbackInv, Operating
  <2> QED
      BY <1>1, <1>3, <1>7, <2>1, <2>2 DEF Operating, Recorded, IsEvent
<1>12. Owned'
  <2>1. \A d \in Tabs : session'[d] <= sessions'
      BY <1>1, <1>2, <1>6 DEF FeedbackInv, Owned
  <2>2. \A a, b \in Tabs : session'[a] = session'[b] /\ session'[a] # NoSession => a = b
      BY <1>2, <1>6 DEF FeedbackInv, Owned
  <2>3. /\ \A r \in wire' : r.session <= sessions'
        /\ \A i \in DOMAIN log' : IsEvent(log'[i]) => log'[i].session <= sessions'
      BY <1>1 DEF FeedbackInv, Owned
  <2>4. \A r \in wire', d \in Tabs : r.session = session'[d] => r.tab = d
    <3>1. \A r \in wire : r.session # session'[c]
        BY <1>4, <1>6 DEF NoSession
    <3> QED
        BY <1>1, <1>2, <3>1 DEF FeedbackInv, Owned
  <2>5. ASSUME NEW d \in Tabs, search'[d] # NoSearch
        PROVE  /\ search'[d].session <= sessions'
               /\ \A e \in Tabs : search'[d].session # session'[e]
               /\ \A e \in Tabs \ {d} : search'[d].session # search'[e].session
               /\ \A r \in wire' : r.session # search'[d].session
               /\ \A i \in DOMAIN log' : IsEvent(log'[i]) => log'[i].session # search'[d].session
    <3>1. d # c /\ search'[d] = search[d] /\ search[d] # NoSearch
        BY <1>2, <1>3, <2>5
    <3>2. \A e \in Tabs : search'[d].session # session'[e]
        BY <1>2, <1>6, <3>1 DEF FeedbackInv, Owned
    <3>3. \A e \in Tabs \ {d} : search'[d].session # search'[e].session
      <4>1. search'[c].session = 0 /\ search'[d].session # 0
          BY <1>3, <1>4, <3>1 DEF NoSearch, NoSession
      <4>2. \A e \in Tabs \ {c, d} : search'[d].session # search'[e].session
          BY <1>2, <3>1 DEF FeedbackInv, Owned
      <4> QED
          BY <4>1, <4>2
    <3> QED
        BY <1>1, <3>1, <3>2, <3>3 DEF FeedbackInv, Owned
  <2> QED
      BY <2>1, <2>2, <2>3, <2>4, <2>5 DEF Owned, IsEvent
<1>13. Identified'
  <2>1. \A d \in Tabs : steps'[d] # <<>> =>
          /\ d # c /\ steps'[d] = steps[d] /\ session'[d] = session[d] /\ RequestOf(d)' = RequestOf(d)
      BY <1>2, <1>3 DEF RequestOf
  <2>2. ASSUME NEW d \in Tabs, steps'[d] # <<>>
        PROVE  /\ steps'[d][1].id <= ids
               /\ \A r \in wire : r.id = steps'[d][1].id => r = RequestOf(d)'
               /\ \A i \in DOMAIN log : IsEvent(log[i]) /\ log[i].id = steps'[d][1].id =>
                    /\ log[i].slot = steps'[d][1].slot /\ log[i].action = steps'[d][1].action
                    /\ log[i].session = session'[d]
               /\ \A e \in Tabs \ {d} : steps'[e] # <<>> => steps'[e][1].id # steps'[d][1].id
      BY <2>1, <2>2 DEF FeedbackInv, Identified
  <2> QED
      BY <1>1, <2>2 DEF FeedbackInv, Identified, IsEvent
<1>14. Pending'
  <2>1. \A r \in wire : r.session # session'[c]
      BY <1>4, <1>6 DEF NoSession
  <2>2. \A r \in wire : r.tab \in Tabs
      BY <1>1 DEF Requests
  <2>3. ASSUME NEW r \in wire, ~Recorded(r.id), session'[r.tab] = r.session
        PROVE  steps'[r.tab] # <<>> /\ steps'[r.tab][1].id = r.id
    <3>1. r.tab # c
        BY <2>1, <2>3
    <3>2. steps'[r.tab] = steps[r.tab] /\ session'[r.tab] = session[r.tab]
        BY <1>2, <2>2, <3>1
    <3> QED
        BY <2>3, <3>2 DEF FeedbackInv, Pending
  <2> QED
      BY <1>1, <1>7, <2>3 DEF FeedbackInv, Pending
<1>15. Synced'
  <2>1. ASSUME NEW d \in Tabs, NEW s \in Slots, session'[d] # NoSession, LatestOf(s) # 0,
               log[LatestOf(s)].session = session'[d]
        PROVE  KnownId(d, s)' = log[LatestOf(s)].id /\ KnownAction(d, s)' = log[LatestOf(s)].action
    <3>1. FeedbackTypeOK
        BY DEF FeedbackInv
    <3>2. LatestOf(s) \in DOMAIN log /\ IsEvent(log[LatestOf(s)])
        BY <1>1, <2>1, <3>1, LatestTyped
    <3>3. d # c
        BY <1>6, <2>1, <3>2
    <3> QED
        BY <1>2, <1>8, <2>1, <3>3 DEF FeedbackInv, Synced
  <2> QED
      BY <1>1, <1>7, <2>1 DEF Synced
<1>16. Replacing'
  <2>1. \A d \in Tabs : steps'[d] # <<>> => d # c
      BY <1>3
  <2>2. \A d \in Tabs : steps'[d] # <<>> =>
          steps'[d][1].replaces = latest'[d][steps'[d][1].slot]
      BY <1>2, <2>1 DEF FeedbackInv, Replacing
  <2>3. \A d \in Tabs : \A j \in DOMAIN steps'[d] :
          steps'[d][j].action = Nothing => latest'[d][steps'[d][j].slot] # NoId
      BY <1>2, <1>3 DEF FeedbackInv, Replacing
  <2>4. \A s \in Slots : shown'[c][s] # Nothing => latest'[c][s] # NoId
      BY <1>5 DEF FeedbackInv, Replacing
  <2>5. \A d \in Tabs, s \in Slots : shown'[d][s] # Nothing => latest'[d][s] # NoId
      BY <1>2, <2>4 DEF FeedbackInv, Replacing
  <2>6. \A d \in Tabs, s \in Slots : search'[d] # NoSearch =>
          (search'[d].selections[s].action # Nothing => search'[d].selections[s].id # NoId)
      BY <1>2, <1>3 DEF FeedbackInv, Replacing
  <2> QED
      BY <2>2, <2>3, <2>5, <2>6 DEF Replacing
<1>17. Exclusive'
  <2>1. \A d \in Tabs : \A j \in DOMAIN steps'[d] : \A s \in Slots, b \in AnyAction :
          Excludes(steps'[d][j].action, s, b) =>
            /\ KnownAction(d, s)' # b \/ \E i \in 1..(j - 1) : steps'[d][i].slot = s
            /\ \A i \in DOMAIN steps'[d] : ~ (steps'[d][i].slot = s /\ steps'[d][i].action = b)
      BY <1>2, <1>3, <1>8 DEF FeedbackInv, Exclusive
  <2> QED
      BY <1>1, <1>7, <1>10, <2>1 DEF FeedbackInv, Exclusive, Excludes
<1>18. Anchored'
  <2>1. Len(log) <= MaxLog
      BY DEF FeedbackInv, Anchored
  <2>2. \A d \in Tabs : since'[d] <= Len(log)
    <3>1. since'[c] <= Len(log)
        BY <1>5 DEF FeedbackInv, Anchored
    <3> QED
        BY <1>2, <3>1 DEF FeedbackInv, Anchored
  <2>3. ASSUME NEW s \in Slots, session'[c] # NoSession, Quiet(c)', latest'[c][s] # NoId
        PROVE  /\ LatestOf(s) # 0 /\ log[LatestOf(s)].id = latest'[c][s]
               /\ Intact(LatestOf(s))
    <3>1. /\ search[c] # NoSearch /\ session'[c] = search[c].session /\ since'[c] = search[c].at
          /\ latest'[c][s] = search[c].selections[s].id
        BY <1>5, <2>3
    <3>2. search[c].at = Len(log)
      <4>1. search[c].at \in Nat /\ Len(log) \in Nat /\ search[c].at <= Len(log)
          BY <1>1, <3>1, FeedbackBoundsAssumption DEF Searches, FeedbackInv, Anchored
      <4>2. \A i \in (search[c].at + 1)..Len(log) : IsEvent(log[i]) /\ log[i].session = session'[c]
          BY <1>1, <2>3, <3>1 DEF Quiet, IsEvent
      <4>3. \A i \in (search[c].at + 1)..Len(log) : i \in DOMAIN log
          BY <1>1, <4>1
      <4>4. \A i \in (search[c].at + 1)..Len(log) : FALSE
          BY <1>6, <2>3, <4>2, <4>3
      <4>5. search[c].at < Len(log) => Len(log) \in (search[c].at + 1)..Len(log)
          BY <4>1
      <4> QED
          BY <4>1, <4>4, <4>5
    <3>3. search[c].selections = Selections
        BY <3>1, <3>2 DEF FeedbackInv, Anchored
    <3>4. FeedbackTypeOK
        BY DEF FeedbackInv
    <3> QED
        BY <2>3, <3>1, <3>3, <3>4, SelectionsFacts
  <2>4. \A d \in Tabs, s \in Slots :
          session'[d] # NoSession /\ Quiet(d)' /\ KnownId(d, s)' # NoId =>
            /\ LatestOf(s) # 0 /\ log[LatestOf(s)].id = KnownId(d, s)'
            /\ Intact(LatestOf(s))
    <3>1. \A d \in Tabs, s \in Slots : d # c =>
            (session'[d] # NoSession /\ Quiet(d)' /\ KnownId(d, s)' # NoId =>
               /\ LatestOf(s) # 0 /\ log[LatestOf(s)].id = KnownId(d, s)'
               /\ Intact(LatestOf(s)))
        BY <1>2, <1>8, <1>9 DEF FeedbackInv, Anchored
    <3> QED
        BY <1>8, <2>3, <3>1
  <2>5. \A d \in Tabs : search'[d] # NoSearch =>
          /\ search'[d].at <= Len(log)
          /\ search'[d].at = Len(log) => search'[d].selections = Selections
      BY <1>2, <1>3 DEF FeedbackInv, Anchored
  <2>6. \A d \in Tabs : reply'[d] = "conflict" \/ refused'[d] => session'[d] # NoSession /\ ~Quiet(d)'
      BY <1>2, <1>3, <1>9 DEF FeedbackInv, Anchored
  <2> QED
      BY <1>1, <1>7, <2>1, <2>2, <2>4, <2>5, <2>6 DEF Anchored
<1> QED
    BY <1>7, <1>11, <1>12, <1>13, <1>14, <1>15, <1>16, <1>17, <1>18 DEF Parts

-------------------------------------------------------------------------------
(***************************************************************************)
(* Steps of an operation: a request goes out, again, or the last is done.  *)
(***************************************************************************)
\* The tab takes in what it knows, and nothing else happens but to its operation.
Advances(c) ==
    /\ log' = log /\ learned' = learned /\ session' = session /\ sessions' = sessions
    /\ since' = since /\ search' = search
    /\ \A d \in Tabs \ {c} :
         /\ steps'[d] = steps[d] /\ latest'[d] = latest[d] /\ shown'[d] = shown[d]
         /\ choice'[d] = choice[d] /\ inFlight'[d] = inFlight[d] /\ reply'[d] = reply[d]
         /\ refused'[d] = refused[d]
    /\ \A s \in Slots : latest'[c][s] = KnownId(c, s) /\ shown'[c][s] = KnownAction(c, s)
    /\ reply'[c] = "none" /\ (refused'[c] => refused[c])

LEMMA AdvanceStep ==
    ASSUME FeedbackInv, NEW c \in Tabs, Advances(c),
           steps'[c] = <<>> \/ ~Recorded(steps'[c][1].id)
    PROVE  /\ Synced' /\ Anchored' /\ Journal'
           /\ \A id : Recorded(id)' <=> Recorded(id)
           /\ \A d \in Tabs, s \in Slots :
                KnownId(d, s)' = KnownId(d, s) /\ KnownAction(d, s)' = KnownAction(d, s)
           /\ \A n, s, a : Rated(n, s, a)' <=> Rated(n, s, a)
           /\ \A d \in Tabs, s \in Slots : shown'[d][s] # Nothing => latest'[d][s] # NoId
<1>1. /\ log' = log /\ learned' = learned /\ session' = session /\ sessions' = sessions
      /\ since' = since /\ search' = search /\ reply'[c] = "none" /\ (refused'[c] => refused[c])
      /\ \A d \in Tabs \ {c} :
           /\ steps'[d] = steps[d] /\ latest'[d] = latest[d] /\ shown'[d] = shown[d]
           /\ reply'[d] = reply[d] /\ refused'[d] = refused[d]
      /\ \A s \in Slots : latest'[c][s] = KnownId(c, s) /\ shown'[c][s] = KnownAction(c, s)
    BY DEF Advances
<1>2. /\ \A id : Recorded(id)' <=> Recorded(id)
      /\ \A s : LatestOf(s)' = LatestOf(s)
      /\ \A k : Intact(k)' <=> Intact(k)
      /\ Selections' = Selections
      /\ Journal'
    BY <1>1, SameLogFacts DEF FeedbackInv
<1>3. \A d : Quiet(d)' <=> Quiet(d)
    BY <1>1, QuietFrame
<1>4. \A n, s, a : Rated(n, s, a)' <=> Rated(n, s, a)
    BY <1>1, RatedFrame
<1>5. \A d \in Tabs, s \in Slots :
        KnownId(d, s)' = KnownId(d, s) /\ KnownAction(d, s)' = KnownAction(d, s)
  <2>1. \A d \in Tabs \ {c} : \A s : KnownId(d, s)' = KnownId(d, s) /\ KnownAction(d, s)' = KnownAction(d, s)
      BY <1>1, KnownFrame
  <2>2. \A s : ~Coming(c, s)'
    <3>1. \A s : ~ (/\ steps'[c] # <<>> /\ steps'[c][1].slot = s
                   /\ \E i \in DOMAIN log : log[i].kind = "event" /\ log[i].id = steps'[c][1].id)
        BY DEF Recorded, IsEvent
    <3> QED
        BY <1>1, <3>1 DEF Coming, Recorded, IsEvent
  <2>3. \A s \in Slots : KnownId(c, s)' = latest'[c][s] /\ KnownAction(c, s)' = shown'[c][s]
      BY <2>2 DEF KnownId, KnownAction
  <2> QED
      BY <1>1, <2>1, <2>3
<1>6. Synced'
    BY <1>1, <1>2, <1>5 DEF FeedbackInv, Synced
<1>7. Anchored'
  <2>1. \A d \in Tabs : reply'[d] = "conflict" \/ refused'[d] => session[d] # NoSession /\ ~Quiet(d)
      BY <1>1 DEF FeedbackInv, Anchored
  <2> QED
      BY <1>1, <1>2, <1>3, <1>5, <2>1 DEF FeedbackInv, Anchored
<1>8. \A d \in Tabs, s \in Slots : shown'[d][s] # Nothing => latest'[d][s] # NoId
  <2>1. \A s \in Slots : KnownAction(c, s) # Nothing => KnownId(c, s) # NoId
      BY DEF FeedbackInv, Operating, Replacing, KnownId, KnownAction, Coming
  <2> QED
      BY <1>1, <2>1 DEF FeedbackInv, Replacing
<1> QED
    BY <1>2, <1>4, <1>5, <1>6, <1>7, <1>8

\* A new id is in no request, no event and no other step.
LEMMA NewId ==
    ASSUME FeedbackInv
    PROVE  /\ ids \in Nat /\ ids + 1 # NoId
           /\ ~Recorded(ids + 1)
           /\ \A r \in wire : r.id # ids + 1 /\ r.id <= ids + 1
           /\ \A i \in DOMAIN log : IsEvent(log[i]) => log[i].id # ids + 1 /\ log[i].id <= ids + 1
           /\ \A d \in Tabs : steps[d] # <<>> => steps[d][1].id # ids + 1 /\ steps[d][1].id <= ids + 1
<1>1. /\ ids \in Nat /\ log \in Seq(LogEntries) /\ wire \subseteq Requests
      /\ steps \in [Tabs -> Seq(StepsOf)]
    BY FeedbackBoundsAssumption DEF FeedbackInv, FeedbackTypeOK
<1>2. \A n \in Nat : n <= ids => n # ids + 1 /\ n <= ids + 1
    BY <1>1
<1>3. \A r \in wire : r.id \in Nat /\ r.id <= ids
    BY <1>1, FeedbackBoundsAssumption DEF Requests, FeedbackInv, Identified
<1>4. \A i \in DOMAIN log : IsEvent(log[i]) => log[i].id \in Nat /\ log[i].id <= ids
  <2>1. \A i \in DOMAIN log : log[i] \in LogEntries
      BY <1>1
  <2>2. \A i \in DOMAIN log : IsEvent(log[i]) => log[i].id \in 1..MaxIds
      BY <2>1, EntryFacts
  <2> QED
      BY <2>2, FeedbackBoundsAssumption DEF FeedbackInv, Identified
<1>5. \A d \in Tabs : steps[d] # <<>> => steps[d][1].id \in Nat /\ steps[d][1].id <= ids
  <2>1. \A d \in Tabs : steps[d] # <<>> => steps[d][1] \in StepsOf
      BY <1>1
  <2>2. \A p \in StepsOf : p.id \in Nat
      BY FeedbackBoundsAssumption DEF StepsOf
  <2> QED
      BY <2>1, <2>2 DEF FeedbackInv, Identified
<1>6. ~Recorded(ids + 1)
    BY <1>2, <1>4 DEF Recorded
<1> QED
    BY <1>1, <1>2, <1>3, <1>4, <1>5, <1>6 DEF NoId

\* A first request goes out, with a new id.
LEMMA FreshStep ==
    ASSUME FeedbackInv, NEW c \in Tabs, Advances(c), NEW todo, todo # <<>>, Planned(c, todo),
           session[c] # NoSession, search[c] = NoSearch,
           steps[c] # <<>> => Recorded(steps[c][1].id),
           ids' = ids + 1, wire' = wire \cup {RequestOf(c)'}, inFlight'[c], choice'[c] # NoChoice,
           steps'[c] # <<>>, Len(steps'[c]) = Len(todo), steps'[c] \in Seq(StepsOf),
           \A j \in 2..Len(todo) : steps'[c][j] = todo[j],
           steps'[c][1].id = ids + 1, steps'[c][1].slot = todo[1].slot,
           steps'[c][1].action = todo[1].action,
           steps'[c][1].replaces = latest'[c][todo[1].slot]
    PROVE  Parts'
<1>1. /\ log' = log /\ learned' = learned /\ session' = session /\ sessions' = sessions
      /\ since' = since /\ search' = search /\ reply'[c] = "none"
      /\ \A d \in Tabs \ {c} :
           /\ steps'[d] = steps[d] /\ latest'[d] = latest[d] /\ shown'[d] = shown[d]
           /\ choice'[d] = choice[d] /\ inFlight'[d] = inFlight[d] /\ reply'[d] = reply[d]
      /\ \A s \in Slots : latest'[c][s] = KnownId(c, s)
    BY DEF Advances
<1>2. /\ ids \in Nat /\ ids + 1 # NoId
      /\ ~Recorded(ids + 1)
      /\ \A r \in wire : r.id # ids + 1 /\ r.id <= ids + 1
      /\ \A i \in DOMAIN log : IsEvent(log[i]) => log[i].id # ids + 1 /\ log[i].id <= ids + 1
      /\ \A d \in Tabs : steps[d] # <<>> => steps[d][1].id # ids + 1 /\ steps[d][1].id <= ids + 1
    BY NewId
<1>3. /\ Synced' /\ Anchored' /\ Journal'
      /\ \A id : Recorded(id)' <=> Recorded(id)
      /\ \A d \in Tabs, s \in Slots :
           KnownId(d, s)' = KnownId(d, s) /\ KnownAction(d, s)' = KnownAction(d, s)
      /\ \A n, s, a : Rated(n, s, a)' <=> Rated(n, s, a)
      /\ \A d \in Tabs, s \in Slots : shown'[d][s] # Nothing => latest'[d][s] # NoId
    BY <1>2, AdvanceStep
<1>4. /\ todo \in Seq(StepsOf) /\ DOMAIN todo = 1..Len(todo) /\ 1 \in DOMAIN todo
      /\ DOMAIN steps'[c] = 1..Len(todo) /\ Len(todo) \in Nat
      /\ \A j \in 1..Len(todo) : j = 1 \/ j \in 2..Len(todo)
    BY DEF Planned
<1>5. \A j \in 1..Len(todo) : /\ steps'[c][j].slot = todo[j].slot /\ steps'[c][j].action = todo[j].action
                              /\ todo[j].slot \in Slots
  <2>1. \A j \in 1..Len(todo) : todo[j] \in StepsOf
      BY <1>4
  <2> QED
      BY <1>4, <2>1 DEF StepsOf
<1>6. /\ RequestOf(c)'.tab = c /\ RequestOf(c)'.session = session[c] /\ RequestOf(c)'.id = ids + 1
      /\ RequestOf(c)'.action = todo[1].action /\ RequestOf(c)'.slot = todo[1].slot
    BY <1>1 DEF RequestOf
<1> DEFINE q == RequestOf(c)'
<1>7. q \in wire' /\ \A r \in wire' : r \in wire \/ r = q
    OBVIOUS
<1>8. Operating'
  <2>1. \A j \in 2..Len(steps'[c]) : steps'[c][j].id = NoId
      BY <1>4 DEF Planned
  <2>2. ASSUME NEW d \in Tabs, d # c
        PROVE  /\ choice'[d] = NoChoice => steps'[d] = <<>>
               /\ steps'[d] # <<>> => session'[d] # NoSession /\ steps'[d][1].id # NoId
               /\ \A j \in 2..Len(steps'[d]) : steps'[d][j].id = NoId
               /\ search'[d] # NoSearch => ~inFlight'[d]
               /\ inFlight'[d] => steps'[d] # <<>>
               /\ reply'[d] # "none" => inFlight'[d]
               /\ reply'[d] = "ok" => Recorded(steps'[d][1].id)
      BY <1>1, <2>2 DEF FeedbackInv, Operating
  <2> QED
      BY <1>1, <1>2, <2>1, <2>2 DEF Operating, Recorded, IsEvent
<1> HIDE DEF q
<1>9. Owned'
  <2>1. q.session <= sessions /\ \A d \in Tabs : q.session = session[d] => q.tab = d
      BY <1>6 DEF FeedbackInv, Owned, q
  <2>2. \A d \in Tabs : search[d] # NoSearch => q.session # search[d].session
      BY <1>6 DEF FeedbackInv, Owned, q
  <2> QED
      BY <1>1, <1>7, <2>1, <2>2 DEF FeedbackInv, Owned, IsEvent
<1>10. Identified'
  <2>1. \A r \in wire' : r.id <= ids'
      BY <1>2, <1>6, <1>7 DEF q
  <2>2. \A r, p \in wire' : r.id = p.id => r = p
      BY <1>2, <1>6, <1>7 DEF q, FeedbackInv, Identified
  <2>3. ASSUME NEW d \in Tabs, d # c, steps'[d] # <<>>
        PROVE  /\ steps'[d][1].id <= ids'
               /\ \A r \in wire' : r.id = steps'[d][1].id => r = RequestOf(d)'
               /\ \A i \in DOMAIN log : IsEvent(log[i]) /\ log[i].id = steps'[d][1].id =>
                    /\ log[i].slot = steps'[d][1].slot /\ log[i].action = steps'[d][1].action
                    /\ log[i].session = session'[d]
               /\ \A e \in Tabs \ {d} : steps'[e] # <<>> => steps'[e][1].id # steps'[d][1].id
    <3>1. steps'[d] = steps[d] /\ RequestOf(d)' = RequestOf(d) /\ steps[d] # <<>>
        BY <1>1, <2>3 DEF RequestOf
    <3>2. \A r \in wire' : r.id = steps[d][1].id => r = RequestOf(d)
        BY <1>2, <1>6, <1>7, <3>1 DEF q, FeedbackInv, Identified
    <3>3. \A e \in Tabs \ {d} : steps'[e] # <<>> => steps'[e][1].id # steps'[d][1].id
        BY <1>1, <1>2, <3>1 DEF FeedbackInv, Identified
    <3> QED
        BY <1>1, <1>2, <3>1, <3>2, <3>3 DEF FeedbackInv, Identified
  <2>4. /\ steps'[c][1].id <= ids'
        /\ \A r \in wire' : r.id = steps'[c][1].id => r = RequestOf(c)'
        /\ \A i \in DOMAIN log : ~ (IsEvent(log[i]) /\ log[i].id = steps'[c][1].id)
        /\ \A e \in Tabs \ {c} : steps'[e] # <<>> => steps'[e][1].id # steps'[c][1].id
      BY <1>1, <1>2, <1>7 DEF q
  <2>5. \A i \in DOMAIN log : IsEvent(log[i]) => log[i].id <= ids'
      BY <1>2
  <2> QED
      BY <1>1, <2>1, <2>2, <2>3, <2>4, <2>5 DEF Identified, IsEvent
<1>11. \A r \in wire : ~Recorded(r.id) => r.session # session[c]
  <2>1. SUFFICES ASSUME NEW r \in wire, ~Recorded(r.id), r.session = session[c] PROVE FALSE
      OBVIOUS
  <2>2. r.tab = c
      BY <2>1 DEF FeedbackInv, Owned
  <2>3. steps[c] # <<>> /\ steps[c][1].id = r.id
      BY <2>1, <2>2 DEF FeedbackInv, Pending
  <2> QED
      BY <2>1, <2>3
<1>12. Pending'
  <2>1. ASSUME NEW r \in wire', ~Recorded(r.id), session'[r.tab] = r.session
        PROVE  steps'[r.tab] # <<>> /\ steps'[r.tab][1].id = r.id
    <3>1. CASE r = q
        BY <1>6, <3>1 DEF q
    <3>2. CASE r \in wire
      <4>1. session[r.tab] = r.session /\ r.tab # c /\ r.tab \in Tabs
        <5>1. r.tab \in Tabs
            BY <3>2 DEF FeedbackInv, FeedbackTypeOK, Requests
        <5> QED
            BY <1>1, <1>11, <2>1, <3>2, <5>1
      <4> QED
          BY <1>1, <2>1, <3>2, <4>1 DEF FeedbackInv, Pending
    <3> QED
        BY <1>7, <3>1, <3>2
  <2>2. \A r, p \in wire' : ~Recorded(r.id) /\ ~Recorded(p.id) /\ r.session = p.session => r = p
      BY <1>6, <1>7, <1>11 DEF q, FeedbackInv, Pending
  <2> QED
      BY <1>3, <2>1, <2>2 DEF Pending
<1>13. Replacing'
  <2>1. \A d \in Tabs : steps'[d] # <<>> =>
          steps'[d][1].replaces = latest'[d][steps'[d][1].slot]
      BY <1>1 DEF FeedbackInv, Replacing
  <2>2. \A j \in 1..Len(todo) : steps'[c][j].action = Nothing => latest'[c][steps'[c][j].slot] # NoId
      BY <1>1, <1>4, <1>5 DEF Planned
  <2>3. \A d \in Tabs : \A j \in DOMAIN steps'[d] :
          steps'[d][j].action = Nothing => latest'[d][steps'[d][j].slot] # NoId
      BY <1>1, <1>4, <2>2 DEF FeedbackInv, Replacing
  <2> QED
      BY <1>1, <1>3, <2>1, <2>3 DEF FeedbackInv, Replacing
<1>14. Exclusive'
  <2>1. ASSUME NEW j \in 1..Len(todo), NEW s \in Slots, NEW b \in AnyAction,
               Excludes(steps'[c][j].action, s, b)
        PROVE  /\ KnownAction(c, s) # b \/ \E i \in 1..(j - 1) : steps'[c][i].slot = s
               /\ \A i \in DOMAIN steps'[c] : ~ (steps'[c][i].slot = s /\ steps'[c][i].action = b)
    <3>1. /\ KnownAction(c, s) # b \/ \E i \in 1..(j - 1) : todo[i].slot = s
          /\ \A i \in DOMAIN todo : ~ (todo[i].slot = s /\ todo[i].action = b)
        BY <1>4, <1>5, <2>1 DEF Planned
    <3>2. \A i \in 1..(j - 1) : i \in 1..Len(todo)
        BY <1>4
    <3> QED
        BY <1>4, <1>5, <3>1, <3>2
  <2>2. \A d \in Tabs : \A j \in DOMAIN steps'[d] : \A s \in Slots, b \in AnyAction :
          Excludes(steps'[d][j].action, s, b) =>
            /\ KnownAction(d, s)' # b \/ \E i \in 1..(j - 1) : steps'[d][i].slot = s
            /\ \A i \in DOMAIN steps'[d] : ~ (steps'[d][i].slot = s /\ steps'[d][i].action = b)
    <3>1. \A j \in DOMAIN steps'[c] : \A s \in Slots, b \in AnyAction :
            Excludes(steps'[c][j].action, s, b) =>
              /\ KnownAction(c, s)' # b \/ \E i \in 1..(j - 1) : steps'[c][i].slot = s
              /\ \A i \in DOMAIN steps'[c] : ~ (steps'[c][i].slot = s /\ steps'[c][i].action = b)
        BY <1>3, <1>4, <2>1
    <3>2. \A d \in Tabs \ {c} : \A j \in DOMAIN steps'[d] : \A s \in Slots, b \in AnyAction :
            Excludes(steps'[d][j].action, s, b) =>
              /\ KnownAction(d, s)' # b \/ \E i \in 1..(j - 1) : steps'[d][i].slot = s
              /\ \A i \in DOMAIN steps'[d] : ~ (steps'[d][i].slot = s /\ steps'[d][i].action = b)
        BY <1>1, <1>3 DEF FeedbackInv, Exclusive
    <3>3. \A d \in Tabs : d = c \/ d \in Tabs \ {c}
        OBVIOUS
    <3> QED
      <4> TAKE d \in Tabs
      <4>1. CASE d = c
          BY <3>1, <4>1
      <4>2. CASE d \in Tabs \ {c}
          BY <3>2, <4>2
      <4> QED
          BY <3>3, <4>1, <4>2
  <2>3. ASSUME NEW s \in Slots, NEW b \in AnyAction, Excludes(q.action, s, b)
        PROVE  ~Rated(q.session, s, b)
    <3>1. KnownAction(c, s) # b
      <4>1. 1..(1 - 1) = {} /\ Excludes(todo[1].action, s, b)
          BY <1>6, <2>3 DEF q
      <4> QED
          BY <1>4, <4>1 DEF Planned
    <3> QED
        BY <1>6, <3>1 DEF q, Rated, FeedbackInv, Synced
  <2>4. \A r \in wire' : \A s \in Slots, b \in AnyAction :
          ~Recorded(r.id) /\ Excludes(r.action, s, b) => ~Rated(r.session, s, b)
      BY <1>7, <2>3 DEF FeedbackInv, Exclusive
  <2>5. \A n \in 1..MaxSessions : ~ (Rated(n, "rating", "less") /\ Rated(n, "preferred", "mood"))
      BY DEF FeedbackInv, Exclusive
  <2> QED
      BY <1>3, <2>2, <2>4, <2>5 DEF Exclusive, Excludes
<1> QED
    BY <1>3, <1>8, <1>9, <1>10, <1>12, <1>13, <1>14 DEF Parts

\* The operation is over.
LEMMA FinishStep ==
    ASSUME FeedbackInv, NEW c \in Tabs, Advances(c), steps[c] # <<>>, Recorded(steps[c][1].id),
           ids' = ids, wire' = wire, ~inFlight'[c], choice'[c] = NoChoice, steps'[c] = <<>>
    PROVE  Parts'
<1>1. /\ log' = log /\ learned' = learned /\ session' = session /\ sessions' = sessions
      /\ since' = since /\ search' = search /\ reply'[c] = "none"
      /\ \A d \in Tabs \ {c} :
           /\ steps'[d] = steps[d] /\ latest'[d] = latest[d] /\ shown'[d] = shown[d]
           /\ choice'[d] = choice[d] /\ inFlight'[d] = inFlight[d] /\ reply'[d] = reply[d]
    BY DEF Advances
<1>2. /\ Synced' /\ Anchored' /\ Journal'
      /\ \A id : Recorded(id)' <=> Recorded(id)
      /\ \A d \in Tabs, s \in Slots :
           KnownId(d, s)' = KnownId(d, s) /\ KnownAction(d, s)' = KnownAction(d, s)
      /\ \A n, s, a : Rated(n, s, a)' <=> Rated(n, s, a)
      /\ \A d \in Tabs, s \in Slots : shown'[d][s] # Nothing => latest'[d][s] # NoId
    BY AdvanceStep
<1>3. Operating'
  <2>1. Len(steps'[c]) = 0 /\ 2..0 = {}
      OBVIOUS
  <2>2. ASSUME NEW d \in Tabs, d # c
        PROVE  /\ choice'[d] = NoChoice => steps'[d] = <<>>
               /\ steps'[d] # <<>> => session'[d] # NoSession /\ steps'[d][1].id # NoId
               /\ \A j \in 2..Len(steps'[d]) : steps'[d][j].id = NoId
               /\ search'[d] # NoSearch => ~inFlight'[d]
               /\ inFlight'[d] => steps'[d] # <<>>
               /\ reply'[d] # "none" => inFlight'[d]
               /\ reply'[d] = "ok" => Recorded(steps'[d][1].id)
      BY <1>1, <2>2 DEF FeedbackInv, Operating
  <2> QED
      BY <1>1, <2>1, <2>2 DEF Operating, Recorded, IsEvent
<1>4. Owned'
    BY <1>1 DEF FeedbackInv, Owned, IsEvent
<1>5. Identified'
  <2>1. ASSUME NEW d \in Tabs, steps'[d] # <<>>
        PROVE  /\ steps'[d][1].id <= ids
               /\ \A r \in wire : r.id = steps'[d][1].id => r = RequestOf(d)'
               /\ \A i \in DOMAIN log : IsEvent(log[i]) /\ log[i].id = steps'[d][1].id =>
                    /\ log[i].slot = steps'[d][1].slot /\ log[i].action = steps'[d][1].action
                    /\ log[i].session = session'[d]
               /\ \A e \in Tabs \ {d} : steps'[e] # <<>> => steps'[e][1].id # steps'[d][1].id
    <3>1. d # c /\ steps'[d] = steps[d] /\ RequestOf(d)' = RequestOf(d) /\ steps[d] # <<>>
        BY <1>1, <2>1 DEF RequestOf
    <3>2. \A e \in Tabs \ {d} : steps'[e] # <<>> => steps'[e][1].id # steps'[d][1].id
        BY <1>1, <3>1 DEF FeedbackInv, Identified
    <3> QED
        BY <1>1, <3>1, <3>2 DEF FeedbackInv, Identified
  <2> QED
      BY <1>1, <2>1 DEF FeedbackInv, Identified, IsEvent
<1>6. Pending'
  <2>1. ASSUME NEW r \in wire, ~Recorded(r.id), session[r.tab] = r.session
        PROVE  steps'[r.tab] # <<>> /\ steps'[r.tab][1].id = r.id
    <3>1. steps[r.tab] # <<>> /\ steps[r.tab][1].id = r.id /\ r.tab \in Tabs
        BY <2>1 DEF FeedbackInv, Pending, FeedbackTypeOK, Requests
    <3>2. r.tab # c
        BY <2>1, <3>1
    <3> QED
        BY <1>1, <3>1, <3>2
  <2> QED
      BY <1>1, <1>2, <2>1 DEF FeedbackInv, Pending
<1>7. Replacing'
  <2>1. \A d \in Tabs : steps'[d] # <<>> =>
          steps'[d][1].replaces = latest'[d][steps'[d][1].slot]
      BY <1>1 DEF FeedbackInv, Replacing
  <2>2. \A d \in Tabs : \A j \in DOMAIN steps'[d] :
          steps'[d][j].action = Nothing => latest'[d][steps'[d][j].slot] # NoId
      BY <1>1 DEF FeedbackInv, Replacing
  <2> QED
      BY <1>1, <1>2, <2>1, <2>2 DEF FeedbackInv, Replacing
<1>8. Exclusive'
  <2>1. \A d \in Tabs : \A j \in DOMAIN steps'[d] : \A s \in Slots, b \in AnyAction :
          Excludes(steps'[d][j].action, s, b) =>
            /\ KnownAction(d, s)' # b \/ \E i \in 1..(j - 1) : steps'[d][i].slot = s
            /\ \A i \in DOMAIN steps'[d] : ~ (steps'[d][i].slot = s /\ steps'[d][i].action = b)
      BY <1>1, <1>2 DEF FeedbackInv, Exclusive
  <2> QED
      BY <1>1, <1>2, <2>1 DEF FeedbackInv, Exclusive, Excludes
<1> QED
    BY <1>2, <1>3, <1>4, <1>5, <1>6, <1>7, <1>8 DEF Parts

\* The request of the first step goes out again.
LEMMA RetryStep ==
    ASSUME FeedbackInv, NEW c \in Tabs, steps[c] # <<>>, search[c] = NoSearch,
           log' = log, learned' = learned, ids' = ids, sessions' = sessions, search' = search,
           session' = session, shown' = shown, latest' = latest, since' = since, steps' = steps,
           choice' = choice, wire' = wire \cup {RequestOf(c)}, inFlight'[c], reply'[c] = "none",
           ~refused'[c],
           \A d \in Tabs \ {c} : /\ inFlight'[d] = inFlight[d] /\ reply'[d] = reply[d]
                                 /\ refused'[d] = refused[d]
    PROVE  Parts'
<1> DEFINE q == RequestOf(c)
<1>1. /\ q.tab = c /\ q.session = session[c] /\ q.id = steps[c][1].id
      /\ q.action = steps[c][1].action /\ q.slot = steps[c][1].slot
      /\ q \in wire' /\ \A r \in wire' : r \in wire \/ r = q
    BY DEF RequestOf
<1> HIDE DEF q
<1>2. /\ \A id : Recorded(id)' <=> Recorded(id)
      /\ \A s : LatestOf(s)' = LatestOf(s)
      /\ \A k : Intact(k)' <=> Intact(k)
      /\ Selections' = Selections
      /\ Journal'
    BY SameLogFacts DEF FeedbackInv
<1>3. \A d, s : KnownId(d, s)' = KnownId(d, s) /\ KnownAction(d, s)' = KnownAction(d, s)
    BY KnownFrame
<1>4. \A d : Quiet(d)' <=> Quiet(d)
    BY QuietFrame
<1>5. \A n, s, a : Rated(n, s, a)' <=> Rated(n, s, a)
    BY RatedFrame
<1>6. session[c] # NoSession /\ 1 \in DOMAIN steps[c]
    BY DEF FeedbackInv, Operating, FeedbackTypeOK
<1>7. Operating'
    BY <1>2 DEF FeedbackInv, Operating
<1>8. Owned'
  <2>1. /\ q.session <= sessions
        /\ \A d \in Tabs : q.session = session[d] => q.tab = d
        /\ \A d \in Tabs : search[d] # NoSearch => q.session # search[d].session
      BY <1>1, <1>6 DEF FeedbackInv, Owned
  <2> QED
      BY <1>1, <2>1 DEF FeedbackInv, Owned, IsEvent
<1>9. \A r \in wire' : \A d \in Tabs :
        steps[d] # <<>> /\ r.id = steps[d][1].id => r = RequestOf(d)
  <2>1. \A d \in Tabs \ {c} : steps[d] # <<>> => steps[d][1].id # steps[c][1].id
      BY DEF FeedbackInv, Identified
  <2> QED
      BY <1>1, <2>1 DEF FeedbackInv, Identified, q
<1>10. Identified'
  <2>1. \A r \in wire' : r.id <= ids
    <3>1. steps[c][1].id <= ids
        BY DEF FeedbackInv, Identified
    <3>2. q.id <= ids
        BY <1>1, <3>1
    <3>3. \A r \in wire : r.id <= ids
        BY DEF FeedbackInv, Identified
    <3> QED
        BY <1>1, <3>2, <3>3
  <2>2. \A r, p \in wire' : r.id = p.id => r = p
      BY <1>1, <1>9 DEF FeedbackInv, Identified, q
  <2>3. \A d : RequestOf(d)' = RequestOf(d)
      BY DEF RequestOf
  <2> QED
      BY <1>9, <2>1, <2>2, <2>3 DEF FeedbackInv, Identified, IsEvent
<1>11. Pending'
  <2>1. \A r \in wire : ~Recorded(r.id) /\ r.session = session[c] => r = q
    <3>1. SUFFICES ASSUME NEW r \in wire, ~Recorded(r.id), r.session = session[c] PROVE r = q
        OBVIOUS
    <3>2. r.tab = c
        BY <3>1 DEF FeedbackInv, Owned
    <3>3. r.id = steps[c][1].id
        BY <3>1, <3>2 DEF FeedbackInv, Pending
    <3> QED
        BY <1>1, <1>9, <3>3 DEF q
  <2>2. \A r \in wire' : ~Recorded(r.id) /\ session[r.tab] = r.session =>
          steps[r.tab] # <<>> /\ steps[r.tab][1].id = r.id
      BY <1>1 DEF FeedbackInv, Pending
  <2>3. \A r, p \in wire' : ~Recorded(r.id) /\ ~Recorded(p.id) /\ r.session = p.session => r = p
      BY <1>1, <2>1 DEF FeedbackInv, Pending
  <2> QED
      BY <1>2, <2>2, <2>3 DEF Pending
<1>12. Synced'
    BY <1>2, <1>3 DEF FeedbackInv, Synced
<1>13. Replacing'
    BY DEF FeedbackInv, Replacing
<1>14. Exclusive'
  <2>1. ASSUME NEW s \in Slots, NEW b \in AnyAction, Excludes(q.action, s, b)
        PROVE  ~Rated(q.session, s, b)
    <3>1. KnownAction(c, s) # b
      <4>1. 1..(1 - 1) = {} /\ Excludes(steps[c][1].action, s, b)
          BY <1>1, <2>1
      <4> QED
          BY <1>6, <4>1 DEF FeedbackInv, Exclusive
    <3> QED
        BY <1>1, <1>6, <3>1 DEF Rated, FeedbackInv, Synced
  <2>2. \A r \in wire' : \A s \in Slots, b \in AnyAction :
          ~Recorded(r.id) /\ Excludes(r.action, s, b) => ~Rated(r.session, s, b)
      BY <1>1, <2>1 DEF FeedbackInv, Exclusive
  <2>3. /\ \A d \in Tabs : \A j \in DOMAIN steps[d] : \A s \in Slots, b \in AnyAction :
             Excludes(steps[d][j].action, s, b) =>
               /\ KnownAction(d, s) # b \/ \E i \in 1..(j - 1) : steps[d][i].slot = s
               /\ \A i \in DOMAIN steps[d] : ~ (steps[d][i].slot = s /\ steps[d][i].action = b)
        /\ \A n \in 1..MaxSessions : ~ (Rated(n, "rating", "less") /\ Rated(n, "preferred", "mood"))
      BY DEF FeedbackInv, Exclusive
  <2> QED
      BY <1>2, <1>3, <1>5, <2>2, <2>3 DEF Exclusive, Excludes
<1>15. Anchored'
  <2>1. \A d \in Tabs : reply'[d] = "conflict" \/ refused'[d] => session[d] # NoSession /\ ~Quiet(d)
      BY DEF FeedbackInv, Anchored
  <2> QED
      BY <1>2, <1>3, <1>4, <2>1 DEF FeedbackInv, Anchored
<1> QED
    BY <1>2, <1>7, <1>8, <1>10, <1>11, <1>12, <1>13, <1>14, <1>15 DEF Parts

LEMMA ChooseStep ==
    ASSUME FeedbackInv, NEW c \in Tabs, NEW ch \in FeedbackChoices, Choose(c, ch)
    PROVE  Parts'
<1>1. /\ FeedbackTypeOK /\ Replacing
      /\ steps \in [Tabs -> Seq(StepsOf)] /\ ids \in Nat /\ choice \in [Tabs -> FeedbackChoices \cup {NoChoice}]
      /\ latest[c] \in [Slots -> 0..MaxIds] /\ refused \in [Tabs -> BOOLEAN]
      /\ reply \in [Tabs -> {"none", "ok", "conflict"}] /\ inFlight \in [Tabs -> BOOLEAN]
    BY FeedbackBoundsAssumption DEF FeedbackInv, FeedbackTypeOK
<1>2. /\ session[c] # NoSession /\ search[c] = NoSearch /\ choice[c] \in {NoChoice, ch}
      /\ choice' = [choice EXCEPT ![c] = ch] /\ refused' = [refused EXCEPT ![c] = FALSE]
      /\ log' = log /\ learned' = learned /\ sessions' = sessions /\ search' = search
      /\ session' = session /\ shown' = shown /\ latest' = latest /\ since' = since
    BY DEF Choose, serverVars, displayVars
<1>3. CASE choice[c] = NoChoice
  <2> DEFINE todo == Plan(c, ch)
  <2>1. todo # <<>> /\ Send(c, todo, latest[c])
      BY <1>3 DEF Choose
  <2>2. steps[c] = <<>>
      BY <1>3 DEF FeedbackInv, Operating
  <2>3. Planned(c, todo)
      BY <1>1, <2>2, PlanFacts
  <2> HIDE DEF todo
  <2>4. todo \in Seq(StepsOf) /\ todo[1].id = NoId /\ NoId <= ids
    <3>1. todo \in Seq(StepsOf) /\ \A j \in DOMAIN todo : todo[j].id = NoId
        BY <2>3 DEF Planned
    <3>2. 1 \in DOMAIN todo
        BY <2>1, <3>1
    <3> QED
        BY <1>1, <3>1, <3>2 DEF NoId
  <2> DEFINE sent == Frozen(c, todo, latest[c])
  <2>5. /\ steps' = [steps EXCEPT ![c] = sent]
        /\ sent \in Seq(StepsOf)
        /\ Len(sent) = Len(todo) /\ sent # <<>>
        /\ \A j \in 2..Len(todo) : sent[j] = todo[j]
        /\ sent[1].slot = todo[1].slot
        /\ sent[1].action = todo[1].action
        /\ sent[1].id = ids + 1 /\ ids' = ids + 1 /\ sent[1].replaces = latest[c][todo[1].slot]
        /\ wire' = wire \cup {[tab |-> c, session |-> session[c], id |-> sent[1].id,
                               slot |-> todo[1].slot, action |-> todo[1].action,
                               replaces |-> sent[1].replaces]}
        /\ inFlight' = [inFlight EXCEPT ![c] = TRUE] /\ reply' = [reply EXCEPT ![c] = "none"]
      BY <1>1, <1>2, <2>1, <2>4, SendFacts
  <2> HIDE DEF sent
  <2>6. /\ steps'[c] = sent /\ choice'[c] = ch /\ inFlight'[c] /\ reply'[c] = "none" /\ ~refused'[c]
        /\ \A d \in Tabs \ {c} : /\ steps'[d] = steps[d] /\ choice'[d] = choice[d]
                                 /\ inFlight'[d] = inFlight[d] /\ reply'[d] = reply[d]
                                 /\ refused'[d] = refused[d]
      BY <1>1, <1>2, <2>5
  <2>7. \A s : KnownId(c, s) = latest[c][s] /\ KnownAction(c, s) = shown[c][s]
      BY <2>2 DEF KnownId, KnownAction, Coming
  <2>8. Advances(c)
      BY <1>2, <2>6, <2>7 DEF Advances
  <2>9. wire' = wire \cup {RequestOf(c)'}
      BY <1>2, <2>5, <2>6 DEF RequestOf
  <2>10. ch # NoChoice
      BY DEF FeedbackChoices, NoChoice
  <2>11. /\ ids' = ids + 1 /\ choice'[c] # NoChoice /\ steps'[c] # <<>> /\ Len(steps'[c]) = Len(todo)
         /\ steps'[c] \in Seq(StepsOf) /\ \A j \in 2..Len(todo) : steps'[c][j] = todo[j]
         /\ steps'[c][1].id = ids + 1 /\ steps'[c][1].slot = todo[1].slot
         /\ steps'[c][1].action = todo[1].action
         /\ steps'[c][1].replaces = latest'[c][todo[1].slot]
      BY <1>2, <2>5, <2>6, <2>10
  <2>12. session[c] # NoSession /\ search[c] = NoSearch /\ inFlight'[c] /\ todo # <<>>
      BY <1>2, <2>1, <2>6
  <2> QED
      BY <2>2, <2>3, <2>8, <2>9, <2>11, <2>12, FreshStep
<1>4. CASE choice[c] = ch /\ choice[c] # NoChoice
  <2>1. steps[c] # <<>> /\ Send(c, steps[c], latest[c])
      BY <1>4 DEF Choose
  <2>2. steps[c] \in Seq(StepsOf) /\ steps[c][1].id <= ids /\ steps[c][1].id # NoId
      BY <1>1, <2>1 DEF FeedbackInv, Operating, Identified
  <2>3. /\ steps' = [steps EXCEPT ![c] = steps[c]] /\ ids' = ids
        /\ wire' = wire \cup {[tab |-> c, session |-> session[c], id |-> steps[c][1].id,
                               slot |-> steps[c][1].slot, action |-> steps[c][1].action,
                               replaces |-> steps[c][1].replaces]}
        /\ inFlight' = [inFlight EXCEPT ![c] = TRUE] /\ reply' = [reply EXCEPT ![c] = "none"]
      BY <1>1, <1>2, <2>1, <2>2, SendFacts
  <2>4. steps' = steps /\ choice' = choice /\ wire' = wire \cup {RequestOf(c)}
      BY <1>1, <1>2, <1>4, <2>3 DEF RequestOf
  <2>5. /\ inFlight'[c] /\ reply'[c] = "none" /\ ~refused'[c]
        /\ \A d \in Tabs \ {c} : /\ inFlight'[d] = inFlight[d] /\ reply'[d] = reply[d]
                                 /\ refused'[d] = refused[d]
      BY <1>1, <1>2, <2>3
  <2> QED
      BY <1>2, <2>1, <2>3, <2>4, <2>5, RetryStep
<1> QED
    BY <1>2, <1>3, <1>4

LEMMA AcknowledgedStep ==
    ASSUME FeedbackInv, NEW c \in Tabs, Acknowledged(c)
    PROVE  Parts'
<1> DEFINE step == steps[c][1]
           rest == Tail(steps[c])
           known == [latest[c] EXCEPT ![step.slot] = step.id]
<1>1. /\ FeedbackTypeOK
      /\ steps \in [Tabs -> Seq(StepsOf)] /\ ids \in Nat /\ choice \in [Tabs -> FeedbackChoices \cup {NoChoice}]
      /\ latest \in [Tabs -> [Slots -> 0..MaxIds]] /\ refused \in [Tabs -> BOOLEAN]
      /\ shown \in [Tabs -> [Slots -> AnyAction]]
      /\ reply \in [Tabs -> {"none", "ok", "conflict"}] /\ inFlight \in [Tabs -> BOOLEAN]
    BY FeedbackBoundsAssumption DEF FeedbackInv, FeedbackTypeOK
<1>2. /\ inFlight[c] /\ reply[c] = "ok"
      /\ latest' = [latest EXCEPT ![c] = known]
      /\ shown' = [shown EXCEPT ![c][step.slot] = step.action]
      /\ log' = log /\ learned' = learned /\ sessions' = sessions /\ search' = search
      /\ session' = session /\ since' = since /\ refused' = refused
      /\ rest # <<>> => Send(c, rest, known) /\ choice' = choice
      /\ rest = <<>> => /\ steps' = [steps EXCEPT ![c] = <<>>] /\ choice' = [choice EXCEPT ![c] = NoChoice]
                        /\ inFlight' = [inFlight EXCEPT ![c] = FALSE]
                        /\ reply' = [reply EXCEPT ![c] = "none"]
                        /\ ids' = ids /\ wire' = wire
    BY DEF Acknowledged, serverVars
<1>3. /\ steps[c] # <<>> /\ steps[c] \in Seq(StepsOf) /\ step \in StepsOf
      /\ session[c] # NoSession /\ search[c] = NoSearch
      /\ step.id # NoId /\ Recorded(step.id) /\ choice[c] # NoChoice
      /\ \A s \in Slots :
           /\ KnownId(c, s) = IF s = step.slot THEN step.id ELSE latest[c][s]
           /\ KnownAction(c, s) = IF s = step.slot THEN step.action ELSE shown[c][s]
      /\ Planned(c, rest)
    BY <1>2, AcknowledgedFacts
<1>4. step.slot \in Slots /\ step.id \in 0..MaxIds /\ step.action \in AnyAction
    BY <1>3 DEF StepsOf
<1> HIDE DEF step, rest
<1>5. known \in [Slots -> 0..MaxIds]
    BY <1>1, <1>4
<1>6. \A s \in Slots : known[s] = KnownId(c, s)
    BY <1>1, <1>3, <1>4
<1> HIDE DEF known
<1>7. /\ \A s \in Slots : latest'[c][s] = KnownId(c, s) /\ shown'[c][s] = KnownAction(c, s)
      /\ \A d \in Tabs \ {c} : latest'[d] = latest[d] /\ shown'[d] = shown[d]
    BY <1>1, <1>2, <1>3, <1>4, <1>6
<1>8. CASE rest # <<>>
  <2>1. Send(c, rest, known) /\ choice' = choice
      BY <1>2, <1>8
  <2>2. rest \in Seq(StepsOf) /\ rest[1].id = NoId /\ NoId <= ids
    <3>1. rest \in Seq(StepsOf) /\ \A j \in DOMAIN rest : rest[j].id = NoId
        BY <1>3 DEF Planned
    <3>2. 1 \in DOMAIN rest
        BY <1>8, <3>1
    <3> QED
        BY <1>1, <3>1, <3>2 DEF NoId
  <2> DEFINE sent == Frozen(c, rest, known)
  <2>3. /\ steps' = [steps EXCEPT ![c] = sent]
        /\ sent \in Seq(StepsOf)
        /\ Len(sent) = Len(rest) /\ sent # <<>>
        /\ \A j \in 2..Len(rest) : sent[j] = rest[j]
        /\ sent[1].slot = rest[1].slot
        /\ sent[1].action = rest[1].action
        /\ sent[1].id = ids + 1 /\ ids' = ids + 1 /\ sent[1].replaces = known[rest[1].slot]
        /\ wire' = wire \cup {[tab |-> c, session |-> session[c], id |-> sent[1].id,
                               slot |-> rest[1].slot, action |-> rest[1].action,
                               replaces |-> sent[1].replaces]}
        /\ inFlight' = [inFlight EXCEPT ![c] = TRUE] /\ reply' = [reply EXCEPT ![c] = "none"]
      BY <1>1, <1>3, <1>5, <1>8, <2>1, <2>2, SendFacts
  <2> HIDE DEF sent
  <2>4. /\ steps'[c] = sent /\ choice'[c] = choice[c] /\ inFlight'[c] /\ reply'[c] = "none"
        /\ refused'[c] = refused[c]
        /\ \A d \in Tabs \ {c} : /\ steps'[d] = steps[d] /\ choice'[d] = choice[d]
                                 /\ inFlight'[d] = inFlight[d] /\ reply'[d] = reply[d]
                                 /\ refused'[d] = refused[d]
      BY <1>1, <1>2, <2>1, <2>3
  <2>5. Advances(c)
      BY <1>2, <1>7, <2>4 DEF Advances
  <2>6. wire' = wire \cup {RequestOf(c)'}
      BY <1>2, <2>3, <2>4 DEF RequestOf
  <2>7. known[rest[1].slot] = latest'[c][rest[1].slot]
      BY <1>1, <1>2
  <2>8. steps[c] # <<>> => Recorded(steps[c][1].id)
      BY <1>3 DEF step
  <2>9. /\ ids' = ids + 1 /\ choice'[c] # NoChoice /\ steps'[c] # <<>> /\ Len(steps'[c]) = Len(rest)
        /\ steps'[c] \in Seq(StepsOf) /\ \A j \in 2..Len(rest) : steps'[c][j] = rest[j]
        /\ steps'[c][1].id = ids + 1 /\ steps'[c][1].slot = rest[1].slot
        /\ steps'[c][1].action = rest[1].action
        /\ steps'[c][1].replaces = latest'[c][rest[1].slot]
      BY <1>3, <2>3, <2>4, <2>7
  <2>10. Planned(c, rest) /\ session[c] # NoSession /\ search[c] = NoSearch
      BY <1>3
  <2> QED
      BY <1>8, <2>4, <2>5, <2>6, <2>8, <2>9, <2>10, FreshStep
<1>9. CASE rest = <<>>
  <2>1. /\ steps'[c] = <<>> /\ choice'[c] = NoChoice /\ ~inFlight'[c] /\ reply'[c] = "none"
        /\ refused'[c] = refused[c] /\ ids' = ids /\ wire' = wire
        /\ \A d \in Tabs \ {c} : /\ steps'[d] = steps[d] /\ choice'[d] = choice[d]
                                 /\ inFlight'[d] = inFlight[d] /\ reply'[d] = reply[d]
                                 /\ refused'[d] = refused[d]
      BY <1>1, <1>2, <1>9
  <2>2. Advances(c)
      BY <1>2, <1>7, <2>1 DEF Advances
  <2>3. Recorded(steps[c][1].id)
      BY <1>3 DEF step
  <2> QED
      BY <1>3, <2>1, <2>2, <2>3, FinishStep
<1> QED
    BY <1>8, <1>9

-------------------------------------------------------------------------------
(***************************************************************************)
(* Steps of the store.                                                     *)
(***************************************************************************)
\* A journal that is intact meets what restoring it checks besides.
LEMMA EditableFacts ==
    ASSUME log \in Seq(LogEntries), Journal, NEW k \in 1..Len(log), IsLive(log[k]), Intact(k)
    PROVE  Editable(k)
<1>1. /\ \A i \in 1..Len(log) : log[i] \in LogEntries
      /\ Len(log) \in Nat /\ DOMAIN log = 1..Len(log)
    OBVIOUS
<1>2. k \in LiveSince(k) /\ LiveSince(k) \in SUBSET (1..Len(log))
    BY <1>1 DEF LiveSince
<1>3. \A j \in k..Len(log) : IsEvent(log[j])
    BY <1>1, <1>2 DEF Intact, Journal, JournalIn, IsLive
<1>4. \A i \in LiveSince(k) : /\ i \in k..Len(log) /\ IsLive(log[i])
                              /\ log[i].before = Lessons(log)[i - 1]
                              /\ log[i].after = Lessons(log)[i]
  <2>1. \A i \in LiveSince(k) : i \in k..Len(log) /\ i \in DOMAIN log /\ IsLive(log[i]) /\ log[i].valid
      BY <1>1 DEF LiveSince, Intact
  <2> QED
      BY <2>1 DEF Journal, JournalIn
<1>5. learned = log[Max(LiveSince(k))].after
  <2> DEFINE m == Max(LiveSince(k))
  <2>1. m \in LiveSince(k) /\ \A i \in LiveSince(k) : i <= m
      BY <1>1, <1>2, MaxFacts
  <2> HIDE DEF m
  <2>2. m \in 0..Len(log) /\ Len(log) \in m..Len(log) /\ m >= k
      BY <1>1, <1>4, <2>1
  <2>3. \A i \in (m + 1)..Len(log) : i \in k..Len(log) /\ i \notin LiveSince(k)
      BY <1>1, <2>1, <2>2
  <2>4. \A i \in (m + 1)..Len(log) : IsEvent(log[i]) /\ ~IsLive(log[i])
      BY <1>3, <2>3 DEF LiveSince
  <2>5. Lessons(log)[Len(log)] = Lessons(log)[m]
      BY <2>2, <2>4, IdleLessons
  <2> QED
      BY <1>4, <2>1, <2>5 DEF Journal, JournalIn, m
<1>6. ASSUME NEW i \in LiveSince(k), LiveSince(i + 1) # {}
      PROVE  log[i].after = log[Min(LiveSince(i + 1))].before
  <2> DEFINE n == Min(LiveSince(i + 1))
  <2>1. i \in k..Len(log)
      BY <1>4
  <2>2. LiveSince(i + 1) \in SUBSET Nat
      BY <1>1, <2>1 DEF LiveSince
  <2>3. n \in LiveSince(i + 1) /\ \A j \in LiveSince(i + 1) : n <= j
      BY <1>6, <2>2, MinFacts
  <2> HIDE DEF n
  <2>4. n \in (i + 1)..Len(log) /\ IsLive(log[n])
      BY <2>3 DEF LiveSince
  <2>5. n \in LiveSince(k) /\ i \in 0..Len(log) /\ n - 1 \in i..Len(log)
      BY <1>1, <2>1, <2>4 DEF LiveSince
  <2>6. \A j \in (i + 1)..(n - 1) : j \in (i + 1)..Len(log) /\ j \in k..Len(log) /\ j \notin LiveSince(i + 1)
      BY <1>1, <2>1, <2>3, <2>4
  <2>7. \A j \in (i + 1)..(n - 1) : IsEvent(log[j]) /\ ~IsLive(log[j])
      BY <1>3, <2>6 DEF LiveSince
  <2>8. Lessons(log)[n - 1] = Lessons(log)[i]
      BY <2>5, <2>7, IdleLessons
  <2> QED
      BY <1>4, <2>5, <2>8 DEF n
<1> QED
    BY <1>5, <1>6 DEF Editable

\* The request is answered, and the tabs are otherwise as they were.
Answered(r, a) ==
    /\ sessions' = sessions /\ ids' = ids /\ session' = session /\ shown' = shown
    /\ latest' = latest /\ since' = since /\ choice' = choice /\ steps' = steps
    /\ inFlight' = inFlight /\ refused' = refused /\ search' = search
    /\ \A q \in wire' : q \in wire /\ q # r
    /\ \A d \in Tabs : \/ reply'[d] = reply[d]
                       \/ reply'[d] = a /\ inFlight[d] /\ steps[d] # <<>> /\ r = RequestOf(d)

LEMMA AnsweredFacts ==
    ASSUME FeedbackInv, NEW r \in wire, NEW a, Answer(r, a), Record(r)
    PROVE  Answered(r, a)
<1>1. /\ sessions' = sessions /\ ids' = ids /\ session' = session /\ shown' = shown
      /\ latest' = latest /\ since' = since /\ choice' = choice /\ steps' = steps
      /\ inFlight' = inFlight /\ refused' = refused /\ search' = search
    BY DEF Record, displayVars, opVars
<1>2. \A q \in wire' : q \in wire /\ q # r
    BY DEF Answer
<1>3. reply \in [Tabs -> {"none", "ok", "conflict"}] /\ r \in Requests
    BY DEF FeedbackInv, FeedbackTypeOK
<1>4. r.tab \in Tabs
    BY <1>3 DEF Requests
<1>5. CASE Awaits(r)
  <2>1. inFlight[r.tab] /\ session[r.tab] = r.session /\ steps[r.tab][1].id = r.id
      BY <1>5 DEF Awaits, Waiting
  <2>2. steps[r.tab] # <<>>
      BY <1>4, <2>1 DEF FeedbackInv, Operating
  <2>3. r = RequestOf(r.tab)
      BY <1>4, <2>1, <2>2 DEF FeedbackInv, Identified
  <2>4. reply' = [reply EXCEPT ![r.tab] = a]
      BY <1>5 DEF Answer
  <2>5. reply'[r.tab] = a /\ \A d \in Tabs \ {r.tab} : reply'[d] = reply[d]
      BY <1>3, <1>4, <2>4
  <2> QED
      BY <1>1, <1>2, <2>1, <2>2, <2>3, <2>5 DEF Answered
<1>6. CASE ~Awaits(r)
    BY <1>1, <1>2, <1>6 DEF Answer, Answered
<1> QED
    BY <1>5, <1>6

\* The request of a tab, if its event is not recorded, asks for what the tab knows.
LEMMA OwnRequest ==
    ASSUME FeedbackInv, NEW d \in Tabs, steps[d] # <<>>, ~Recorded(steps[d][1].id)
    PROVE  /\ session[d] # NoSession
           /\ RequestOf(d).slot \in Slots /\ RequestOf(d).slot = steps[d][1].slot
           /\ RequestOf(d).session = session[d] /\ RequestOf(d).action = steps[d][1].action
           /\ RequestOf(d).replaces = KnownId(d, RequestOf(d).slot)
           /\ RequestOf(d).action = Nothing => RequestOf(d).replaces # NoId
<1>1. /\ RequestOf(d).slot = steps[d][1].slot /\ RequestOf(d).session = session[d]
      /\ RequestOf(d).action = steps[d][1].action /\ RequestOf(d).replaces = steps[d][1].replaces
    BY DEF RequestOf
<1>2. 1 \in DOMAIN steps[d] /\ steps[d][1] \in StepsOf
    BY DEF FeedbackInv, FeedbackTypeOK
<1>3. steps[d][1].slot \in Slots
    BY <1>2 DEF StepsOf
<1>4. session[d] # NoSession
    BY DEF FeedbackInv, Operating
<1>5. /\ steps[d][1].replaces = latest[d][steps[d][1].slot]
      /\ steps[d][1].action = Nothing => latest[d][steps[d][1].slot] # NoId
    BY <1>2 DEF FeedbackInv, Replacing
<1>6. \A s : KnownId(d, s) = latest[d][s]
    BY DEF KnownId, Coming
<1> QED
    BY <1>1, <1>3, <1>4, <1>5, <1>6

\* A request that is refused does not come from a tab whose history is quiet.
LEMMA RejectedFacts ==
    ASSUME FeedbackInv, NEW d \in Tabs, steps[d] # <<>>, ~Recorded(steps[d][1].id),
           Rejected(RequestOf(d))
    PROVE  session[d] # NoSession /\ ~Quiet(d)
<1> DEFINE r == RequestOf(d)
           k == LatestOf(r.slot)
<1>1. /\ session[d] # NoSession /\ r.slot \in Slots /\ r.session = session[d]
      /\ r.replaces = KnownId(d, r.slot) /\ (r.action = Nothing => r.replaces # NoId)
    BY OwnRequest
<1>2. ASSUME Quiet(d), r.replaces # NoId PROVE FALSE
  <2>1. k # 0 /\ log[k].id = r.replaces /\ Intact(k)
      BY <1>1, <1>2 DEF FeedbackInv, Anchored
  <2>2. k \in 1..Len(log) /\ IsLive(log[k])
      BY <2>1, LatestTyped DEF FeedbackInv
  <2>3. Editable(k)
      BY <2>1, <2>2, EditableFacts DEF FeedbackInv, FeedbackTypeOK
  <2> QED
      BY <1>2, <2>1, <2>3 DEF Rejected, Replaceable
<1>3. ASSUME r.replaces = NoId PROVE FALSE
  <2>1. k # 0 /\ log[k].session = r.session
      BY <1>1, <1>3 DEF Rejected, Startable
  <2>2. KnownId(d, r.slot) = log[k].id
      BY <1>1, <2>1 DEF FeedbackInv, Synced
  <2>3. log[k].id \in 1..MaxIds
      BY <2>1, LatestTyped DEF FeedbackInv
  <2>4. \A n \in 1..MaxIds : n # NoId
      BY FeedbackBoundsAssumption DEF NoId
  <2> QED
      BY <1>1, <1>3, <2>2, <2>3, <2>4
<1> QED
    BY <1>1, <1>2, <1>3

\* The request is acknowledged again, or refused.
LEMMA AnswerStep ==
    ASSUME FeedbackInv, NEW r \in wire, NEW a, Answered(r, a), log' = log, learned' = learned,
           \/ a = "ok" /\ Recorded(r.id)
           \/ a = "conflict" /\ ~Recorded(r.id) /\ Rejected(r)
    PROVE  Parts'
<1>1. /\ sessions' = sessions /\ ids' = ids /\ session' = session /\ shown' = shown
      /\ latest' = latest /\ since' = since /\ choice' = choice /\ steps' = steps
      /\ inFlight' = inFlight /\ refused' = refused /\ search' = search
      /\ \A q \in wire' : q \in wire
      /\ \A d \in Tabs : \/ reply'[d] = reply[d]
                         \/ reply'[d] = a /\ inFlight[d] /\ steps[d] # <<>> /\ r = RequestOf(d)
    BY DEF Answered
<1>2. /\ \A id : Recorded(id)' <=> Recorded(id)
      /\ \A s : LatestOf(s)' = LatestOf(s)
      /\ \A k : Intact(k)' <=> Intact(k)
      /\ Selections' = Selections
      /\ Journal'
    BY SameLogFacts DEF FeedbackInv
<1>3. \A d, s : KnownId(d, s)' = KnownId(d, s) /\ KnownAction(d, s)' = KnownAction(d, s)
    BY <1>1, KnownFrame
<1>4. \A d : Quiet(d)' <=> Quiet(d)
    BY <1>1, QuietFrame
<1>5. \A n, s, b : Rated(n, s, b)' <=> Rated(n, s, b)
    BY RatedFrame
<1>6. \A d \in Tabs : r = RequestOf(d) => r.id = steps[d][1].id
    BY DEF RequestOf
<1>7. Operating'
  <2>1. \A d \in Tabs : /\ reply'[d] # "none" => inFlight[d]
                        /\ reply'[d] = "ok" => Recorded(steps[d][1].id)
      BY <1>1, <1>6 DEF FeedbackInv, Operating
  <2> QED
      BY <1>1, <1>2, <2>1 DEF FeedbackInv, Operating
<1>8. Owned'
    BY <1>1 DEF FeedbackInv, Owned, IsEvent
<1>9. Identified'
  <2>1. \A d : RequestOf(d)' = RequestOf(d)
      BY <1>1 DEF RequestOf
  <2> QED
      BY <1>1, <2>1 DEF FeedbackInv, Identified, IsEvent
<1>10. Pending'
    BY <1>1, <1>2 DEF FeedbackInv, Pending
<1>11. Synced'
    BY <1>1, <1>2, <1>3 DEF FeedbackInv, Synced
<1>12. Replacing'
    BY <1>1 DEF FeedbackInv, Replacing
<1>13. Exclusive'
    BY <1>1, <1>2, <1>3, <1>5 DEF FeedbackInv, Exclusive, Excludes
<1>14. Anchored'
  <2>1. ASSUME NEW d \in Tabs, reply'[d] = "conflict" \/ refused'[d]
        PROVE  session[d] # NoSession /\ ~Quiet(d)
    <3>1. CASE reply[d] = "conflict" \/ refused[d]
        BY <3>1 DEF FeedbackInv, Anchored
    <3>2. CASE a = "conflict" /\ steps[d] # <<>> /\ r = RequestOf(d)
        BY <1>6, <3>2, RejectedFacts
    <3> QED
        BY <1>1, <2>1, <3>1, <3>2
  <2> QED
      BY <1>1, <1>2, <1>3, <1>4, <2>1 DEF FeedbackInv, Anchored
<1> QED
    BY <1>2, <1>7, <1>8, <1>9, <1>10, <1>11, <1>12, <1>13, <1>14 DEF Parts

\* An event is added, and the tab that sent it has its answer coming.
LEMMA GrownStep ==
    ASSUME FeedbackInv, NEW r \in wire, Answered(r, "ok"), ~Recorded(r.id), Grown(r)
    PROVE  Parts'
<1>1. /\ sessions' = sessions /\ ids' = ids /\ session' = session /\ shown' = shown
      /\ latest' = latest /\ since' = since /\ choice' = choice /\ steps' = steps
      /\ inFlight' = inFlight /\ refused' = refused /\ search' = search
      /\ \A q \in wire' : q \in wire /\ q # r
      /\ \A d \in Tabs : \/ reply'[d] = reply[d]
                         \/ reply'[d] = "ok" /\ inFlight[d] /\ steps[d] # <<>> /\ r = RequestOf(d)
    BY DEF Answered
<1>2. /\ log \in Seq(LogEntries) /\ log' \in Seq(LogEntries) /\ wire \subseteq Requests
      /\ Len(log) \in Nat /\ DOMAIN log = 1..Len(log) /\ Len(log') = Len(log) + 1
      /\ DOMAIN log' = 1..(Len(log) + 1) /\ Len(log) < MaxLog /\ MaxLog \in Nat
      /\ since \in [Tabs -> 0..MaxLog] /\ search \in [Tabs -> Searches \cup {NoSearch}]
      /\ steps \in [Tabs -> Seq(StepsOf)]
    BY FeedbackBoundsAssumption DEF FeedbackInv, FeedbackTypeOK, Grown
<1>3. /\ \A i \in 1..Len(log) : SameEvent(log[i], log'[i])
      /\ log'[Len(log) + 1].id = r.id /\ log'[Len(log) + 1].slot = r.slot
      /\ log'[Len(log) + 1].action = r.action /\ log'[Len(log) + 1].session = r.session
      /\ IsEvent(log'[Len(log) + 1]) /\ Journal'
    BY DEF Grown, IsLive
<1>4. /\ \A id : Recorded(id)' <=> (Recorded(id) \/ id = r.id)
      /\ LatestOf(r.slot)' = Len(log) + 1
      /\ \A s : s # r.slot => LatestOf(s)' = LatestOf(s)
      /\ \A k \in 1..Len(log) : Intact(k) => Intact(k)'
      /\ \A k : k = Len(log) + 1 => Intact(k)'
    BY <1>2, GrownFacts
<1>5. \A i \in DOMAIN log' : IsEvent(log'[i]) =>
        \/ i \in DOMAIN log /\ IsEvent(log[i]) /\ SameEvent(log[i], log'[i])
        \/ i = Len(log) + 1
    BY <1>2, <1>3 DEF SameEvent
<1>6. /\ r \in Requests /\ r.tab \in Tabs /\ r.slot \in Slots /\ r.session \in 1..MaxSessions
      /\ r.action \in AnyAction
    BY <1>2 DEF Requests
<1>7. \A d \in Tabs : /\ RequestOf(d).id = steps[d][1].id /\ RequestOf(d).slot = steps[d][1].slot
                      /\ RequestOf(d).action = steps[d][1].action /\ RequestOf(d).session = session[d]
    BY DEF RequestOf
\* The event is that of the first step of the tab, if the tab has the session.
<1>8. \A d \in Tabs : steps[d] # <<>> /\ steps[d][1].id = r.id => r = RequestOf(d)
    BY DEF FeedbackInv, Identified
<1>9. \A d \in Tabs : session[d] = r.session => steps[d] # <<>> /\ r = RequestOf(d)
  <2>1. SUFFICES ASSUME NEW d \in Tabs, session[d] = r.session PROVE steps[d] # <<>> /\ r = RequestOf(d)
      OBVIOUS
  <2>2. r.tab = d
      BY <2>1 DEF FeedbackInv, Owned
  <2>3. steps[d] # <<>> /\ steps[d][1].id = r.id
      BY <2>1, <2>2 DEF FeedbackInv, Pending
  <2> QED
      BY <1>8, <2>3
<1>10. /\ \A d \in Tabs, s \in Slots : s # r.slot \/ session[d] # r.session =>
            KnownId(d, s)' = KnownId(d, s) /\ KnownAction(d, s)' = KnownAction(d, s)
       /\ \A d \in Tabs : session[d] = r.session =>
            KnownId(d, r.slot)' = r.id /\ KnownAction(d, r.slot)' = r.action
  <2>1. \A d \in Tabs, s \in Slots : Coming(d, s)' <=>
          /\ steps[d] # <<>> /\ steps[d][1].slot = s
          /\ Recorded(steps[d][1].id) \/ steps[d][1].id = r.id
      BY <1>1, <1>4 DEF Coming
  <2>2. \A d \in Tabs, s \in Slots : s # r.slot \/ session[d] # r.session => (Coming(d, s)' <=> Coming(d, s))
      BY <1>7, <1>8, <2>1 DEF Coming
  <2>3. \A d \in Tabs : session[d] = r.session => Coming(d, r.slot)'
      BY <1>6, <1>7, <1>9, <2>1
  <2> QED
      BY <1>1, <1>6, <1>7, <1>9, <2>2, <2>3 DEF KnownId, KnownAction
<1>11. \A s \in Slots : LatestOf(s) # 0 =>
         /\ LatestOf(s) \in 1..Len(log) /\ LatestOf(s) \in DOMAIN log
         /\ log'[LatestOf(s)].id = log[LatestOf(s)].id /\ log'[LatestOf(s)].session = log[LatestOf(s)].session
         /\ log'[LatestOf(s)].action = log[LatestOf(s)].action
  <2>1. \A s : LatestOf(s) # 0 => LatestOf(s) \in 1..Len(log) /\ IsEvent(log[LatestOf(s)])
      BY LatestTyped DEF FeedbackInv
  <2> QED
      BY <1>2, <1>3, <2>1 DEF SameEvent
<1>12. /\ \A n, s, b : s \in Slots /\ s # r.slot => (Rated(n, s, b)' <=> Rated(n, s, b))
       /\ \A n, b : Rated(n, r.slot, b)' => n = r.session /\ b = r.action
  <2>1. \A n, s, b : s \in Slots /\ s # r.slot => (Rated(n, s, b)' <=> Rated(n, s, b))
      BY <1>4, <1>11 DEF Rated
  <2>2. \A n, b : Rated(n, r.slot, b)' => n = r.session /\ b = r.action
      BY <1>3, <1>4 DEF Rated
  <2> QED
      BY <2>1, <2>2
<1>13. Operating'
  <2>1. \A d \in Tabs : /\ reply'[d] # "none" => inFlight[d]
                        /\ reply'[d] = "ok" => Recorded(steps[d][1].id) \/ steps[d][1].id = r.id
      BY <1>1, <1>7 DEF FeedbackInv, Operating
  <2> QED
      BY <1>1, <1>4, <2>1 DEF FeedbackInv, Operating
<1>14. Owned'
  <2>1. \A i \in DOMAIN log' : IsEvent(log'[i]) =>
          \/ i \in DOMAIN log /\ IsEvent(log[i]) /\ log'[i].session = log[i].session
          \/ log'[i].session = r.session
      BY <1>3, <1>5 DEF SameEvent
  <2>2. \A i \in DOMAIN log' : IsEvent(log'[i]) => log'[i].session <= sessions
      BY <2>1 DEF FeedbackInv, Owned
  <2>3. \A d \in Tabs : search[d] # NoSearch =>
          \A i \in DOMAIN log' : IsEvent(log'[i]) => log'[i].session # search[d].session
      BY <2>1 DEF FeedbackInv, Owned
  <2> QED
      BY <1>1, <2>2, <2>3 DEF FeedbackInv, Owned, IsEvent
<1>15. Identified'
  <2>1. \A i \in DOMAIN log' : IsEvent(log'[i]) => log'[i].id <= ids
    <3>1. \A i \in DOMAIN log' : IsEvent(log'[i]) =>
            \/ i \in DOMAIN log /\ IsEvent(log[i]) /\ log'[i].id = log[i].id
            \/ log'[i].id = r.id
        BY <1>3, <1>5 DEF SameEvent
    <3> QED
        BY <3>1 DEF FeedbackInv, Identified
  <2>2. ASSUME NEW d \in Tabs, steps[d] # <<>>,
               NEW i \in DOMAIN log', IsEvent(log'[i]), log'[i].id = steps[d][1].id
        PROVE  /\ log'[i].slot = steps[d][1].slot /\ log'[i].action = steps[d][1].action
               /\ log'[i].session = session[d]
    <3>1. CASE i \in DOMAIN log /\ IsEvent(log[i]) /\ SameEvent(log[i], log'[i])
      <4>1. /\ log'[i].id = log[i].id /\ log'[i].slot = log[i].slot /\ log'[i].action = log[i].action
            /\ log'[i].session = log[i].session
          BY <3>1 DEF SameEvent
      <4>2. \A j \in DOMAIN log : IsEvent(log[j]) /\ log[j].id = steps[d][1].id =>
              /\ log[j].slot = steps[d][1].slot /\ log[j].action = steps[d][1].action
              /\ log[j].session = session[d]
          BY <2>2 DEF FeedbackInv, Identified
      <4> QED
          BY <2>2, <3>1, <4>1, <4>2
    <3>2. CASE i = Len(log) + 1
        BY <1>3, <1>7, <1>8, <2>2, <3>2
    <3> QED
        BY <1>5, <2>2, <3>1, <3>2
  <2>3. \A d : RequestOf(d)' = RequestOf(d)
      BY <1>1 DEF RequestOf
  <2>4. \A d \in Tabs : steps[d] # <<>> =>
          /\ steps[d][1].id <= ids
          /\ \A q \in wire' : q.id = steps[d][1].id => q = RequestOf(d)
          /\ \A e \in Tabs \ {d} : steps[e] # <<>> => steps[e][1].id # steps[d][1].id
      BY <1>1 DEF FeedbackInv, Identified
  <2>5. /\ \A q \in wire' : q.id <= ids
        /\ \A p, q \in wire' : p.id = q.id => p = q
      BY <1>1 DEF FeedbackInv, Identified
  <2> QED
      BY <1>1, <2>1, <2>2, <2>3, <2>4, <2>5 DEF Identified, IsEvent
<1>16. Pending'
  <2>1. \A id : ~Recorded(id)' => ~Recorded(id)
      BY <1>4
  <2> QED
      BY <1>1, <2>1 DEF FeedbackInv, Pending
<1>17. Synced'
  <2>1. ASSUME NEW d \in Tabs, NEW s \in Slots, session[d] # NoSession, LatestOf(s)' # 0,
               log'[LatestOf(s)'].session = session[d]
        PROVE  KnownId(d, s)' = log'[LatestOf(s)'].id /\ KnownAction(d, s)' = log'[LatestOf(s)'].action
    <3>1. CASE s = r.slot
        BY <1>3, <1>4, <1>10, <2>1, <3>1
    <3>2. CASE s # r.slot
      <4>1. /\ LatestOf(s)' = LatestOf(s) /\ LatestOf(s) # 0
            /\ KnownId(d, s)' = KnownId(d, s) /\ KnownAction(d, s)' = KnownAction(d, s)
          BY <1>4, <1>10, <2>1, <3>2
      <4> QED
          BY <1>11, <2>1, <4>1 DEF FeedbackInv, Synced
    <3> QED
        BY <3>1, <3>2
  <2> QED
      BY <1>1, <2>1 DEF Synced
<1>18. Replacing'
    BY <1>1 DEF FeedbackInv, Replacing
<1>19. Exclusive'
  <2>1. ASSUME NEW d \in Tabs, NEW j \in DOMAIN steps[d], NEW s \in Slots, NEW b \in AnyAction,
               Excludes(steps[d][j].action, s, b)
        PROVE  /\ KnownAction(d, s)' # b \/ \E i \in 1..(j - 1) : steps[d][i].slot = s
               /\ \A i \in DOMAIN steps[d] : ~ (steps[d][i].slot = s /\ steps[d][i].action = b)
    <3>1. /\ KnownAction(d, s) # b \/ \E i \in 1..(j - 1) : steps[d][i].slot = s
          /\ \A i \in DOMAIN steps[d] : ~ (steps[d][i].slot = s /\ steps[d][i].action = b)
        BY <2>1 DEF FeedbackInv, Exclusive
    <3>2. CASE s # r.slot \/ session[d] # r.session
        BY <1>10, <3>1, <3>2
    <3>3. CASE s = r.slot /\ session[d] = r.session
      <4>1. steps[d] # <<>> /\ steps[d][1].slot = s /\ steps[d][1].action = r.action
          BY <1>7, <1>9, <3>3
      <4>2. 1 \in DOMAIN steps[d]
          BY <1>2, <4>1
      <4> QED
          BY <1>10, <3>1, <3>3, <4>1, <4>2
    <3> QED
        BY <3>2, <3>3
  <2>2. ASSUME NEW q \in wire', NEW s \in Slots, NEW b \in AnyAction,
               ~Recorded(q.id)', Excludes(q.action, s, b)
        PROVE  ~Rated(q.session, s, b)'
    <3>1. q \in wire /\ q # r /\ ~Recorded(q.id)
        BY <1>1, <1>4, <2>2
    <3>2. q.session # r.session
        BY <3>1 DEF FeedbackInv, Pending
    <3>3. ~Rated(q.session, s, b)
        BY <2>2, <3>1 DEF FeedbackInv, Exclusive
    <3> QED
        BY <1>12, <3>2, <3>3
  <2>3. ASSUME NEW n \in 1..MaxSessions, Rated(n, "rating", "less")', Rated(n, "preferred", "mood")'
        PROVE  FALSE
    <3>1. "rating" \in Slots /\ "preferred" \in Slots /\ "less" \in AnyAction /\ "mood" \in AnyAction
        BY DEF Slots, AnyAction
    <3>2. \A s \in Slots, b \in AnyAction : Excludes(r.action, s, b) => ~Rated(r.session, s, b)
        BY DEF FeedbackInv, Exclusive
    <3>3. CASE r.slot = "rating"
      <4>1. n = r.session /\ r.action = "less" /\ Rated(n, "preferred", "mood")
          BY <1>12, <2>3, <3>1, <3>3
      <4>2. Excludes(r.action, "preferred", "mood")
          BY <4>1 DEF Excludes
      <4> QED
          BY <3>1, <3>2, <4>1, <4>2
    <3>4. CASE r.slot = "preferred"
      <4>1. n = r.session /\ r.action = "mood" /\ Rated(n, "rating", "less")
          BY <1>12, <2>3, <3>1, <3>4
      <4>2. Excludes(r.action, "rating", "less")
          BY <4>1 DEF Excludes
      <4> QED
          BY <3>1, <3>2, <4>1, <4>2
    <3> QED
        BY <1>6, <3>3, <3>4 DEF Slots
  <2> QED
      BY <1>1, <2>1, <2>2, <2>3 DEF Exclusive, Excludes
<1>20. Anchored'
  <2>1. \A d \in Tabs : since[d] <= Len(log) /\ since[d] \in Nat
      BY <1>2 DEF FeedbackInv, Anchored
  <2>2. ASSUME NEW d \in Tabs, Quiet(d)'
        PROVE  Quiet(d) /\ session[d] = r.session
    <3>1. \A i \in (since[d] + 1)..(Len(log) + 1) : IsEvent(log'[i]) /\ log'[i].session = session[d]
        BY <1>1, <1>2, <2>2 DEF Quiet, IsEvent
    <3>2. Len(log) + 1 \in (since[d] + 1)..(Len(log) + 1)
        BY <1>2, <2>1
    <3>3. \A i \in (since[d] + 1)..Len(log) : i \in 1..Len(log) /\ i \in (since[d] + 1)..(Len(log) + 1)
        BY <1>2, <2>1
    <3>4. \A i \in (since[d] + 1)..Len(log) : IsEvent(log[i]) /\ log[i].session = session[d]
        BY <1>3, <3>1, <3>3 DEF SameEvent
    <3> QED
        BY <1>3, <3>1, <3>2, <3>4 DEF Quiet
  <2>3. ASSUME NEW d \in Tabs, NEW s \in Slots, session[d] # NoSession, Quiet(d)', KnownId(d, s)' # NoId
        PROVE  /\ LatestOf(s)' # 0 /\ log'[LatestOf(s)'].id = KnownId(d, s)'
               /\ Intact(LatestOf(s))'
    <3>1. Quiet(d) /\ session[d] = r.session
        BY <2>2, <2>3
    <3>2. CASE s = r.slot
      <4>1. LatestOf(s)' = Len(log) + 1 /\ Len(log) + 1 # 0
          BY <1>2, <1>4, <3>2
      <4>2. Intact(LatestOf(s))'
        <5>1. log'[Len(log) + 1].valid /\ \A i \in (Len(log) + 1)..(Len(log) + 1) : i = Len(log) + 1
            BY <1>2 DEF Grown
        <5> QED
            BY <1>2, <4>1, <5>1 DEF Intact, LiveSince
      <4> QED
          BY <1>3, <1>10, <3>1, <3>2, <4>1, <4>2
    <3>3. CASE s # r.slot
      <4>1. LatestOf(s)' = LatestOf(s) /\ KnownId(d, s)' = KnownId(d, s)
          BY <1>4, <1>10, <3>3
      <4>2. LatestOf(s) # 0 /\ log[LatestOf(s)].id = KnownId(d, s) /\ Intact(LatestOf(s))
          BY <2>3, <3>1, <4>1 DEF FeedbackInv, Anchored
      <4>3. PICK k \in 1..Len(log) : k = LatestOf(s)
          BY <1>11, <4>2
      <4>4. Intact(k)'
          BY <1>4, <4>2, <4>3
      <4>5. Intact(LatestOf(s))'
          BY <4>1, <4>3, <4>4 DEF Intact, LiveSince
      <4> QED
          BY <1>11, <4>1, <4>2, <4>5
    <3> QED
        BY <3>2, <3>3
  <2>4. Len(log') <= MaxLog /\ \A d \in Tabs : since[d] <= Len(log')
      BY <1>2, <2>1
  <2>5. \A d \in Tabs : search[d] # NoSearch => search[d].at <= Len(log') /\ search[d].at # Len(log')
    <3>1. \A d \in Tabs : search[d] # NoSearch => search[d].at \in Nat /\ search[d].at <= Len(log)
        BY <1>2 DEF Searches, FeedbackInv, Anchored
    <3> QED
        BY <1>2, <3>1
  <2>6. \A d \in Tabs : reply'[d] = "conflict" \/ refused[d] => session[d] # NoSession /\ ~Quiet(d)'
      BY <1>1, <2>2 DEF FeedbackInv, Anchored
  <2> QED
      BY <1>1, <2>3, <2>4, <2>5, <2>6 DEF Anchored
<1> QED
    BY <1>3, <1>13, <1>14, <1>15, <1>16, <1>17, <1>18, <1>19, <1>20 DEF Parts

\* A mark is added: every tab may have been overtaken.
LEMMA MarkStep ==
    ASSUME FeedbackInv, LegacySearch \/ ResetFeelProfile
    PROVE  Parts'
<1>1. /\ sessions' = sessions /\ ids' = ids /\ session' = session /\ shown' = shown
      /\ latest' = latest /\ since' = since /\ choice' = choice /\ steps' = steps
      /\ inFlight' = inFlight /\ refused' = refused /\ search' = search
      /\ wire' = wire /\ reply' = reply
    BY DEF LegacySearch, ResetFeelProfile, displayVars, opVars
<1>2. Marked
    BY WritesMark DEF FeedbackInv
<1>3. /\ log \in Seq(LogEntries) /\ log' \in Seq(LogEntries)
      /\ Len(log) \in Nat /\ DOMAIN log = 1..Len(log) /\ Len(log') = Len(log) + 1
      /\ DOMAIN log' = 1..(Len(log) + 1) /\ Len(log) < MaxLog /\ MaxLog \in Nat
      /\ since \in [Tabs -> 0..MaxLog] /\ search \in [Tabs -> Searches \cup {NoSearch}]
    BY <1>2, FeedbackBoundsAssumption DEF FeedbackInv, FeedbackTypeOK, Marked
<1>4. /\ \A i \in 1..Len(log) : SameEvent(log[i], log'[i])
      /\ ~IsEvent(log'[Len(log) + 1]) /\ Journal'
    BY <1>2 DEF Marked
<1>5. /\ \A id : Recorded(id)' <=> Recorded(id)
      /\ \A s : LatestOf(s)' = LatestOf(s)
    BY <1>2, <1>3, MarkedFacts
<1>6. \A i \in DOMAIN log' : IsEvent(log'[i]) =>
        /\ i \in DOMAIN log /\ IsEvent(log[i])
        /\ log'[i].id = log[i].id /\ log'[i].slot = log[i].slot /\ log'[i].action = log[i].action
        /\ log'[i].session = log[i].session
    BY <1>3, <1>4 DEF SameEvent
<1>7. \A d, s : KnownId(d, s)' = KnownId(d, s) /\ KnownAction(d, s)' = KnownAction(d, s)
  <2>1. \A d, s : Coming(d, s)' <=> Coming(d, s)
      BY <1>1, <1>5 DEF Coming
  <2> QED
      BY <1>1, <2>1 DEF KnownId, KnownAction
<1>8. \A s \in Slots : LatestOf(s) # 0 =>
        /\ log'[LatestOf(s)].id = log[LatestOf(s)].id /\ log'[LatestOf(s)].session = log[LatestOf(s)].session
        /\ log'[LatestOf(s)].action = log[LatestOf(s)].action
  <2>1. \A s : LatestOf(s) # 0 => LatestOf(s) \in 1..Len(log) /\ IsEvent(log[LatestOf(s)])
      BY LatestTyped DEF FeedbackInv
  <2> QED
      BY <1>3, <1>4, <2>1 DEF SameEvent
<1>9. \A n, s, b : s \in Slots => (Rated(n, s, b)' <=> Rated(n, s, b))
    BY <1>5, <1>8 DEF Rated
<1>10. \A d \in Tabs : ~Quiet(d)'
  <2>1. \A d \in Tabs : Len(log) + 1 \in (since[d] + 1)..(Len(log) + 1)
    <3>1. \A d \in Tabs : since[d] <= Len(log) /\ since[d] \in Nat
        BY <1>3 DEF FeedbackInv, Anchored
    <3> QED
        BY <1>3, <3>1
  <2> QED
      BY <1>1, <1>3, <1>4, <2>1 DEF Quiet, IsEvent
<1>11. Operating'
    BY <1>1, <1>5 DEF FeedbackInv, Operating
<1>12. Owned'
  <2>1. /\ \A i \in DOMAIN log' : IsEvent(log'[i]) => log'[i].session <= sessions
        /\ \A d \in Tabs : search[d] # NoSearch =>
             \A i \in DOMAIN log' : IsEvent(log'[i]) => log'[i].session # search[d].session
      BY <1>6 DEF FeedbackInv, Owned
  <2> QED
      BY <1>1, <2>1 DEF FeedbackInv, Owned, IsEvent
<1>13. Identified'
  <2>1. \A i \in DOMAIN log' : IsEvent(log'[i]) => log'[i].id <= ids
      BY <1>6 DEF FeedbackInv, Identified
  <2>2. ASSUME NEW d \in Tabs, steps[d] # <<>>
        PROVE  \A i \in DOMAIN log' : IsEvent(log'[i]) /\ log'[i].id = steps[d][1].id =>
                 /\ log'[i].slot = steps[d][1].slot /\ log'[i].action = steps[d][1].action
                 /\ log'[i].session = session[d]
    <3>1. \A i \in DOMAIN log : IsEvent(log[i]) /\ log[i].id = steps[d][1].id =>
            /\ log[i].slot = steps[d][1].slot /\ log[i].action = steps[d][1].action
            /\ log[i].session = session[d]
        BY <2>2 DEF FeedbackInv, Identified
    <3> QED
        BY <1>6, <3>1
  <2>3. \A d : RequestOf(d)' = RequestOf(d)
      BY <1>1 DEF RequestOf
  <2>4. /\ \A q \in wire : q.id <= ids
        /\ \A p, q \in wire : p.id = q.id => p = q
        /\ \A d \in Tabs : steps[d] # <<>> =>
             /\ steps[d][1].id <= ids
             /\ \A q \in wire : q.id = steps[d][1].id => q = RequestOf(d)
             /\ \A e \in Tabs \ {d} : steps[e] # <<>> => steps[e][1].id # steps[d][1].id
      BY DEF FeedbackInv, Identified
  <2> QED
      BY <1>1, <2>1, <2>2, <2>3, <2>4 DEF Identified, IsEvent
<1>14. Pending'
    BY <1>1, <1>5 DEF FeedbackInv, Pending
<1>15. Synced'
    BY <1>1, <1>5, <1>7, <1>8 DEF FeedbackInv, Synced
<1>16. Replacing'
    BY <1>1 DEF FeedbackInv, Replacing
<1>17. Exclusive'
  <2>1. "rating" \in Slots /\ "preferred" \in Slots
      BY DEF Slots
  <2> QED
      BY <1>1, <1>5, <1>7, <1>9, <2>1 DEF FeedbackInv, Exclusive, Excludes
<1>18. Anchored'
  <2>1. Len(log') <= MaxLog /\ \A d \in Tabs : since[d] <= Len(log')
    <3>1. \A d \in Tabs : since[d] <= Len(log) /\ since[d] \in Nat
        BY <1>3 DEF FeedbackInv, Anchored
    <3> QED
        BY <1>3, <3>1
  <2>2. \A d \in Tabs : search[d] # NoSearch => search[d].at <= Len(log') /\ search[d].at # Len(log')
    <3>1. \A d \in Tabs : search[d] # NoSearch => search[d].at \in Nat /\ search[d].at <= Len(log)
        BY <1>3 DEF Searches, FeedbackInv, Anchored
    <3> QED
        BY <1>3, <3>1
  <2>3. \A d \in Tabs : reply[d] = "conflict" \/ refused[d] => session[d] # NoSession
      BY DEF FeedbackInv, Anchored
  <2> QED
      BY <1>1, <1>10, <2>1, <2>2, <2>3 DEF Anchored
<1> QED
    BY <1>4, <1>11, <1>12, <1>13, <1>14, <1>15, <1>16, <1>17, <1>18 DEF Parts

LEMMA RecordStep ==
    ASSUME FeedbackInv, NEW r \in wire, Record(r)
    PROVE  Parts'
<1>1. \/ Recorded(r.id) /\ Answer(r, "ok") /\ log' = log /\ learned' = learned
      \/ ~Recorded(r.id) /\ Answer(r, "ok") /\ Grown(r)
      \/ ~Recorded(r.id) /\ Answer(r, "conflict") /\ log' = log /\ learned' = learned /\ Rejected(r)
    BY RecordFacts DEF FeedbackInv
<1>2. CASE Recorded(r.id) /\ Answer(r, "ok") /\ log' = log /\ learned' = learned
  <2>1. Answered(r, "ok")
      BY <1>2, AnsweredFacts
  <2> QED
      BY <1>2, <2>1, AnswerStep
<1>3. CASE ~Recorded(r.id) /\ Answer(r, "ok") /\ Grown(r)
  <2>1. Answered(r, "ok")
      BY <1>3, AnsweredFacts
  <2> QED
      BY <1>3, <2>1, GrownStep
<1>4. CASE ~Recorded(r.id) /\ Answer(r, "conflict") /\ log' = log /\ learned' = learned /\ Rejected(r)
  <2>1. Answered(r, "conflict")
      BY <1>4, AnsweredFacts
  <2> QED
      BY <1>4, <2>1, AnswerStep
<1> QED
    BY <1>1, <1>2, <1>3, <1>4

\* The log stays typed, and its events keep ids of their own.
LEMMA LogTypes ==
    ASSUME FeedbackInv, [Next]_vars
    PROVE  log' \in Seq(LogEntries) /\ learned' \in Learned /\ UniqueIds'
<1>1. log \in Seq(LogEntries) /\ learned \in Learned /\ UniqueIds /\ FeedbackTypeOK /\ Journal
    BY TypeParts DEF FeedbackInv
<1>2. ASSUME log' = log, learned' = learned
      PROVE  log' \in Seq(LogEntries) /\ learned' \in Learned /\ UniqueIds'
    BY <1>1, <1>2 DEF UniqueIds, IsEvent
<1>3. ASSUME NEW r \in wire, Record(r)
      PROVE  log' \in Seq(LogEntries) /\ learned' \in Learned /\ UniqueIds'
  <2>1. CASE log' = log /\ learned' = learned
      BY <1>2, <2>1
  <2>2. CASE ~Recorded(r.id) /\ Grown(r)
    <3>1. /\ log' \in Seq(LogEntries) /\ learned' \in Learned /\ Len(log') = Len(log) + 1
          /\ \A i \in 1..Len(log) : SameEvent(log[i], log'[i])
          /\ log'[Len(log) + 1].id = r.id
        BY <2>2 DEF Grown
    <3>2. \A i \in DOMAIN log' : i \in DOMAIN log \/ i = Len(log) + 1
        BY <1>1, <3>1
    <3>3. \A i \in DOMAIN log : IsEvent(log'[i]) => IsEvent(log[i]) /\ log'[i].id = log[i].id /\ log[i].id # r.id
        BY <1>1, <2>2, <3>1 DEF SameEvent, Recorded
    <3>4. \A i, j \in DOMAIN log' : IsEvent(log'[i]) /\ IsEvent(log'[j]) /\ log'[i].id = log'[j].id => i = j
        BY <1>1, <3>1, <3>2, <3>3 DEF UniqueIds
    <3> QED
        BY <3>1, <3>4 DEF UniqueIds, IsEvent
  <2> QED
      BY <1>1, <1>3, <2>1, <2>2, RecordFacts
<1>4. ASSUME LegacySearch \/ ResetFeelProfile
      PROVE  log' \in Seq(LogEntries) /\ learned' \in Learned /\ UniqueIds'
  <2>1. Marked
      BY <1>1, <1>4, WritesMark
  <2>2. /\ log' \in Seq(LogEntries) /\ learned' \in Learned /\ Len(log') = Len(log) + 1
        /\ \A i \in 1..Len(log) : SameEvent(log[i], log'[i])
        /\ ~IsEvent(log'[Len(log) + 1])
      BY <2>1 DEF Marked
  <2>3. \A i \in DOMAIN log' : i \in DOMAIN log \/ i = Len(log) + 1
      BY <1>1, <2>2
  <2>4. \A i \in DOMAIN log' : IsEvent(log'[i]) =>
          i \in DOMAIN log /\ IsEvent(log[i]) /\ log'[i].id = log[i].id
      BY <1>1, <2>2, <2>3 DEF SameEvent
  <2>5. \A i, j \in DOMAIN log' : IsEvent(log'[i]) /\ IsEvent(log'[j]) /\ log'[i].id = log'[j].id => i = j
      BY <1>1, <2>4 DEF UniqueIds
  <2> QED
      BY <2>2, <2>5 DEF UniqueIds, IsEvent
<1>5. ASSUME NEW c \in Tabs,
             \/ StartSearch(c) \/ EndSearch(c) \/ FailSearch(c) \/ Invalidate(c)
             \/ \E ch \in FeedbackChoices : Choose(c, ch)
             \/ RequestFails(c) \/ ReplyFails(c) \/ Acknowledged(c) \/ Refused(c)
      PROVE  log' = log /\ learned' = learned
    BY <1>5 DEF StartSearch, EndSearch, FailSearch, Invalidate, Choose, RequestFails, ReplyFails,
                Acknowledged, Refused, serverVars
<1>6. CASE UNCHANGED vars
    BY <1>2, <1>6 DEF vars, serverVars
<1>7. CASE Next
    BY <1>2, <1>3, <1>4, <1>5, <1>7 DEF Next
<1> QED
    BY <1>6, <1>7

LEMMA FeedbackStep ==
    ASSUME FeedbackInv, [Next]_vars
    PROVE  FeedbackInv'
<1>1. FeedbackTypeOK'
    BY ClientTypes, LogTypes DEF FeedbackTypeOK, ClientTypeOK, UniqueIds
<1>2. Parts'
  <2>1. ASSUME NEW c \in Tabs,
               \/ StartSearch(c) \/ EndSearch(c) \/ FailSearch(c) \/ Invalidate(c)
               \/ \E ch \in FeedbackChoices : Choose(c, ch)
               \/ RequestFails(c) \/ ReplyFails(c) \/ Acknowledged(c) \/ Refused(c)
        PROVE  Parts'
    <3>1. CASE StartSearch(c) \/ FailSearch(c)
        BY <3>1, SearchStep
    <3>2. CASE EndSearch(c) \/ Invalidate(c)
        BY <3>2, SlateStep
    <3>3. ASSUME NEW ch \in FeedbackChoices, Choose(c, ch) PROVE Parts'
        BY <3>3, ChooseStep
    <3>4. CASE RequestFails(c) \/ ReplyFails(c) \/ Refused(c)
        BY <3>4, FailureStep
    <3>5. CASE Acknowledged(c)
        BY <3>5, AcknowledgedStep
    <3> QED
        BY <2>1, <3>1, <3>2, <3>3, <3>4, <3>5
  <2>2. ASSUME NEW r \in wire, Record(r) PROVE Parts'
      BY <2>2, RecordStep
  <2>3. CASE LegacySearch \/ ResetFeelProfile
      BY <2>3, MarkStep
  <2>4. CASE UNCHANGED vars
      BY <2>4, FailureStep
  <2>5. CASE Next
      BY <2>1, <2>2, <2>3, <2>5 DEF Next
  <2> QED
      BY <2>4, <2>5
<1> QED
    BY <1>1, <1>2 DEF FeedbackInv, Parts

LEMMA FeedbackInit ==
    ASSUME Init
    PROVE  FeedbackInv
<1>1. /\ log = <<>> /\ learned = Zero /\ sessions = 0 /\ ids = 0 /\ wire = {}
      /\ session = [c \in Tabs |-> NoSession] /\ since = [c \in Tabs |-> 0]
      /\ shown = [c \in Tabs |-> [s \in Slots |-> Nothing]]
      /\ latest = [c \in Tabs |-> [s \in Slots |-> NoId]]
      /\ choice = [c \in Tabs |-> NoChoice] /\ steps = [c \in Tabs |-> <<>>]
      /\ inFlight = [c \in Tabs |-> FALSE] /\ refused = [c \in Tabs |-> FALSE]
      /\ search = [c \in Tabs |-> NoSearch] /\ reply = [c \in Tabs |-> "none"]
    BY DEF Init, Zero
<1>2. log \in Seq(LogEntries) /\ Len(log) = 0 /\ DOMAIN log = {} /\ \A a : a \in 1..0 => FALSE
    BY <1>1
<1>3. \A s : LatestOf(s) = 0
    BY <1>2, LatestFacts
<1>4. \A c \in Tabs : /\ session[c] = 0 /\ since[c] = 0 /\ steps[c] = <<>> /\ search[c] = NoSearch
                      /\ ~inFlight[c] /\ ~refused[c] /\ reply[c] = "none" /\ choice[c] = NoChoice
                      /\ DOMAIN steps[c] = {} /\ Len(steps[c]) = 0
                      /\ \A s \in Slots : shown[c][s] = Nothing /\ latest[c][s] = NoId
    BY <1>1 DEF NoSession
<1>5. FeedbackTypeOK
  <2>1. learned \in Learned
      BY <1>1, FeedbackBoundsAssumption DEF Learned, Zero
  <2>2. /\ sessions \in 0..MaxSessions /\ ids \in 0..MaxIds
        /\ session \in [Tabs -> 0..MaxSessions] /\ since \in [Tabs -> 0..MaxLog]
        /\ latest \in [Tabs -> [Slots -> 0..MaxIds]]
      BY <1>1, FeedbackBoundsAssumption DEF NoSession, NoId
  <2>3. shown \in [Tabs -> [Slots -> AnyAction]] /\ \A c \in Tabs, s \in Slots : shown[c][s] \in Actions(s)
      BY <1>1 DEF AnyAction, Actions, Slots
  <2>4. choice \in [Tabs -> FeedbackChoices \cup {NoChoice}] /\ steps \in [Tabs -> Seq(StepsOf)]
      BY <1>1
  <2>5. /\ inFlight \in [Tabs -> BOOLEAN] /\ refused \in [Tabs -> BOOLEAN]
        /\ search \in [Tabs -> Searches \cup {NoSearch}]
        /\ wire \subseteq Requests /\ reply \in [Tabs -> {"none", "ok", "conflict"}]
      BY <1>1
  <2> QED
      BY <1>2, <1>4, <2>1, <2>2, <2>3, <2>4, <2>5 DEF FeedbackTypeOK
<1>6. Operating
    BY <1>4 DEF Operating
<1>7. Owned
    BY <1>1, <1>2, <1>4 DEF Owned, NoSession
<1>8. Identified /\ Pending
    BY <1>1, <1>2, <1>4 DEF Identified, Pending
<1>9. Synced
    BY <1>3 DEF Synced
<1>10. Replacing
    BY <1>4 DEF Replacing
<1>11. Exclusive
    BY <1>1, <1>3, <1>4 DEF Exclusive, Rated
<1>12. Anchored
    BY <1>2, <1>4, FeedbackBoundsAssumption DEF Anchored, NoSession
<1>13. Journal
    BY <1>1, <1>2, LessonsFacts DEF Journal, JournalIn
<1> QED
    BY <1>5, <1>6, <1>7, <1>8, <1>9, <1>10, <1>11, <1>12, <1>13 DEF FeedbackInv

-------------------------------------------------------------------------------
(***************************************************************************)
(* The theorems.                                                           *)
(***************************************************************************)
\* The tabs' operations, the requests on their way and the log agree as FeedbackInv
\* says, after any steps of the tabs (client/feedbackSession.ts) and of the store
\* (db/feedbackMutationStore.ts).
THEOREM FeedbackInductive == Spec => []FeedbackInv
<1>1. Init => FeedbackInv
    BY FeedbackInit
<1>2. FeedbackInv /\ [Next]_vars => FeedbackInv'
    BY FeedbackStep
<1> QED
    BY <1>1, <1>2, PTL DEF Spec

\* Every variable keeps its type, and no event id is recorded twice.
THEOREM FeedbackTypeCorrect == Spec => []FeedbackTypeOK
<1>1. FeedbackInv => FeedbackTypeOK
    BY DEF FeedbackInv
<1> QED
    BY <1>1, FeedbackInductive, PTL

\* Editing an earlier event leaves exactly what the live events teach in their
\* order: retract() takes back the target, replays the events after it and loses
\* nothing, at whatever bound the weights are clamped.
THEOREM ReplayIsExact == Spec => []LearnedIsReplay
<1>1. FeedbackInv => LearnedIsReplay
    BY DEF FeedbackInv, Journal, JournalIn, LearnedIsReplay
<1> QED
    BY <1>1, FeedbackInductive, PTL

\* A tab with no operation shows the newest events of its own session and would
\* replace them, whatever answers were lost and requests repeated.
THEOREM TabsStayInStep == Spec => []TabAgrees
<1>1. FeedbackInv => TabAgrees
  <2>1. SUFFICES ASSUME FeedbackInv, NEW c \in Tabs, NEW s \in Slots,
                        session[c] # NoSession, choice[c] = NoChoice, LatestOf(s) # 0,
                        log[LatestOf(s)].session = session[c]
                 PROVE  latest[c][s] = log[LatestOf(s)].id /\ shown[c][s] = log[LatestOf(s)].action
      BY DEF TabAgrees
  <2>2. steps[c] = <<>>
      BY <2>1 DEF FeedbackInv, Operating
  <2>3. KnownId(c, s) = latest[c][s] /\ KnownAction(c, s) = shown[c][s]
      BY <2>2 DEF KnownId, KnownAction, Coming
  <2> QED
      BY <2>1, <2>3 DEF FeedbackInv, Synced
<1> QED
    BY <1>1, FeedbackInductive, PTL

\* record() refuses a tab only if something else has been written since the tab
\* read its selections: neither a retry nor a next step meets a conflict of the
\* tab's own making.
THEOREM NoSelfConflict == Spec => []NoConflictWithOneself
<1>1. FeedbackInv => NoConflictWithOneself
    BY DEF FeedbackInv, Anchored, Quiet, NoConflictWithOneself
<1> QED
    BY <1>1, FeedbackInductive, PTL

\* planChoice() clears what a choice excludes before it writes the choice, so no
\* session ever has both the dislike and the heart, between steps and after
\* failures included.
THEOREM ControlsExclude == Spec => []ExclusiveControls
<1>1. FeedbackInv => ExclusiveControls
  <2>1. SUFFICES ASSUME FeedbackInv, NEW n \in 1..sessions, Rated(n, "rating", "less"), Rated(n, "preferred", "mood")
                 PROVE  FALSE
      BY DEF ExclusiveControls, Rated
  <2>2. n \in 1..MaxSessions
    <3>1. sessions \in 0..MaxSessions
        BY <2>1 DEF FeedbackInv, FeedbackTypeOK
    <3> QED
        BY <3>1, FeedbackBoundsAssumption
  <2> QED
      BY <2>1, <2>2 DEF FeedbackInv, Exclusive
<1> QED
    BY <1>1, FeedbackInductive, PTL

\* What a search offers for editing (recommendationFeedbackSelections, which only
\* reads whether the journals are valid) passes every check of retract(): the
\* comparison of the stored state with the journals never refuses it.
THEOREM OfferedIsEditable ==
    Spec => [](\A s \in Slots : Selections[s].id # NoId => Editable(LatestOf(s)))
<1> DEFINE Offered == \A s \in Slots : Selections[s].id # NoId => Editable(LatestOf(s))
<1>1. FeedbackInv => Offered
  <2>1. SUFFICES ASSUME FeedbackInv, NEW s \in Slots, Selections[s].id # NoId
                 PROVE  Editable(LatestOf(s))
      OBVIOUS
  <2>2. LatestOf(s) # 0 /\ Intact(LatestOf(s))
      BY <2>1, SelectionsFacts DEF FeedbackInv
  <2>3. LatestOf(s) \in 1..Len(log) /\ IsLive(log[LatestOf(s)])
      BY <2>1, <2>2, LatestTyped DEF FeedbackInv
  <2>4. log \in Seq(LogEntries) /\ Journal
      BY <2>1 DEF FeedbackInv, FeedbackTypeOK
  <2> QED
      BY <2>2, <2>3, <2>4, EditableFacts
<1> QED
    BY <1>1, FeedbackInductive, PTL

\* The history is only added to: no entry goes away or becomes another one, and an
\* event that was superseded never comes back, whatever is retracted after it.
THEOREM HistoryIsKept ==
    Spec => [][/\ Len(log) <= Len(log')
               /\ \A i \in DOMAIN log : /\ SameEvent(log[i], log'[i])
                                       /\ IsLive(log'[i]) => IsLive(log[i])]_vars
<1> DEFINE Kept == /\ Len(log) <= Len(log')
                   /\ \A i \in DOMAIN log : /\ SameEvent(log[i], log'[i])
                                           /\ IsLive(log'[i]) => IsLive(log[i])
<1>1. FeedbackInv /\ [Next]_vars => [Kept]_vars
  <2>1. SUFFICES ASSUME FeedbackInv, Next PROVE Kept
      OBVIOUS
  <2>2. log \in Seq(LogEntries) /\ Len(log) \in Nat /\ DOMAIN log = 1..Len(log)
      BY <2>1 DEF FeedbackInv, FeedbackTypeOK
  <2>3. ASSUME log' = log PROVE Kept
      BY <2>2, <2>3 DEF SameEvent
  <2>4. ASSUME NEW r \in wire, Record(r) PROVE Kept
    <3>1. log' = log \/ Grown(r)
        BY <2>1, <2>4, RecordFacts DEF FeedbackInv
    <3>2. Grown(r) => Kept
        BY <2>2 DEF Grown
    <3> QED
        BY <2>3, <3>1, <3>2
  <2>5. ASSUME LegacySearch \/ ResetFeelProfile PROVE Kept
    <3>1. Marked
        BY <2>1, <2>5, WritesMark DEF FeedbackInv
    <3> QED
        BY <2>2, <3>1 DEF Marked
  <2>6. \/ log' = log
        \/ \E r \in wire : Record(r)
        \/ LegacySearch \/ ResetFeelProfile
      BY <2>1 DEF Next, StartSearch, EndSearch, FailSearch, Invalidate, Choose, RequestFails,
                  ReplyFails, Acknowledged, Refused, serverVars
  <2> QED
      BY <2>3, <2>4, <2>5, <2>6
<1> HIDE DEF Kept
<1>2. Spec => [][Kept]_vars
    BY <1>1, FeedbackInductive, PTL DEF Spec
<1> QED
    BY <1>2 DEF Kept

===============================================================================
