---------------------------- MODULE FeedbackSession ----------------------------
(***************************************************************************)
(* The feedback of one user on one title, in tabs that write it            *)
(* (client/feedbackSession.ts under client/App.tsx) and the store that     *)
(* records it and learns from it (db/feedbackMutationStore.ts,             *)
(* db/feedbackLearningJournal.ts, db/mediaRepository.ts).  A title has two *)
(* controls, or slots: its rating and the heart of a preferred example.    *)
(* Of what is learned the model keeps one weight, clamped as all are, and  *)
(* one term of the mood profile.  A transaction of the store is one step.  *)
(***************************************************************************)
EXTENDS Integers, Sequences, FiniteSetsExt

CONSTANTS
    Tabs,
    Cap,          \* the weights are clamped to -Cap..Cap
    MaxSessions,  \* bound: searches that are answered
    MaxIds,       \* bound: clientEventIds
    MaxLog        \* bound: length of the log

ASSUME FeedbackBoundsAssumption ==
    /\ Cap \in Nat
    /\ MaxSessions \in Nat /\ MaxIds \in Nat /\ MaxLog \in Nat

VARIABLES
    log,        \* feel_feedback_events, with the other writes of the profile in place
    learned,    \* the stored weight and term
    sessions, ids,                  \* the number of sessions and ids given out
    session, shown, latest,         \* of a tab: session, active and latestEventIds
    choice, steps, inFlight,        \* its operation: the choice, what remains of it
    search,     \* the answer of the search that a tab waits for
    wire,       \* requests that may reach the server
    reply,      \* what the tab's request was answered
    since,      \* history: length of the log when the tab's selections were read
    refused     \* history: the tab's operation was answered with a conflict

serverVars  == <<log, learned>>
displayVars == <<session, shown, latest, since>>
opVars      == <<choice, steps, inFlight, refused>>
vars == <<serverVars, sessions, ids, displayVars, opVars, search, wire, reply>>

Slots   == {"rating", "preferred"}
Nothing == "nothing"   \* no selection, and the action of clear_feedback
Actions(s) == IF s = "rating" THEN {"more", "less", Nothing} ELSE {"mood", Nothing}
NoId    == 0
NoSession == 0
NoSearch  == [session |-> NoSession]

FeedbackChoices == [slot : {"rating"}, action : {"more", "less"}]
                  \cup [slot : {"preferred"}, action : {"mood"}]
                  \cup [slot : {"restore"}, rating : {"more", Nothing}, preferred : BOOLEAN]
NoChoice == [slot |-> "none"]

-------------------------------------------------------------------------------
(***************************************************************************)
(* The store: learning, the log and its newest events.                     *)
(***************************************************************************)
Clamped(n) == IF n > Cap THEN Cap ELSE IF n < -Cap THEN -Cap ELSE n

Delta(a) == CASE a \in {"more", "mood"} -> 1 [] a = "less" -> -1 [] OTHER -> 0

Apply(l, a) == [weight |-> Clamped(l.weight + Delta(a)), term |-> Clamped(l.term + Delta(a))]

IsEvent(e) == e.kind = "event"
IsLive(e) == IsEvent(e) /\ ~e.superseded
LiveOf(s) == {i \in DOMAIN log : IsLive(log[i]) /\ log[i].slot = s}

\* The latest live event of the slot; 0 when there is none.
LatestOf(s) == IF LiveOf(s) = {} THEN 0 ELSE Max(LiveOf(s))

Recorded(id) == \E i \in DOMAIN log : IsEvent(log[i]) /\ log[i].id = id

\* Live events from k on, and whether all of them have a valid journal.
LiveSince(k) == {i \in k..Len(log) : IsLive(log[i])}
Intact(k) == \A i \in LiveSince(k) : log[i].valid

\* The learned state is what the events from k on have left behind, one after the
\* other (restoreFeedbackLearning, backwards).
Editable(k) ==
    /\ Intact(k)
    /\ learned = log[Max(LiveSince(k))].after
    /\ \A i \in LiveSince(k) : LiveSince(i + 1) # {} => log[i].after = log[Min(LiveSince(i + 1))].before

\* What is learned after each event when those after k are applied again, without k.
Replayed(k) ==
    LET taught[i \in k..Len(log)] ==
          IF i = k THEN log[k].before
          ELSE IF IsLive(log[i]) THEN Apply(taught[i - 1], log[i].action) ELSE taught[i - 1]
    IN  taught

\* Mutation: withdrawing an event restores what it found, and keeps the later ones.
RetractedUnreplayed(k) ==
    [log |-> [log EXCEPT ![k].superseded = TRUE], learned |-> log[k].before]

\* retract(): the event k is taken back and the live ones after it are replayed.
Retracted(k) ==
    [log |-> [i \in DOMAIN log |->
                 IF i = k THEN [log[i] EXCEPT !.superseded = TRUE]
                 ELSE IF i > k /\ IsLive(log[i])
                 THEN [log[i] EXCEPT !.before = Replayed(k)[i - 1], !.after = Replayed(k)[i]]
                 ELSE log[i]],
     learned |-> Replayed(k)[Len(log)]]

\* What record() makes of a request that it accepts, after the store is st.
Inserted(r, st) ==
    LET after == Apply(st.learned, r.action) IN
    /\ learned' = after
    /\ log' = Append(st.log, [kind |-> "event", id |-> r.id, slot |-> r.slot, action |-> r.action,
                              session |-> r.session, superseded |-> FALSE, valid |-> TRUE,
                              before |-> st.learned, after |-> after])

\* The target is the latest live event of its slot, and it can be edited.
Replaceable(r) ==
    LET k == LatestOf(r.slot) IN k # 0 /\ log[k].id = r.replaces /\ Editable(k)

\* A write that replaces nothing starts a lineage, once in a session.  (A clear that
\* replaces nothing is an error of its own, 400, in the code; the client, which
\* clears only what it would replace, never sends one and fails alike on both.)
Startable(r) ==
    r.action # Nothing /\ (LatestOf(r.slot) = 0 \/ log[LatestOf(r.slot)].session # r.session)

\* recommendationFeedbackSelections(): the latest events that may be edited.
Selections == [s \in Slots |->
    LET k == LatestOf(s) IN
    IF k # 0 /\ Intact(k) THEN [id |-> log[k].id, action |-> log[k].action]
    ELSE [id |-> NoId, action |-> Nothing]]

-------------------------------------------------------------------------------
Init ==
    /\ log = <<>> /\ learned = [weight |-> 0, term |-> 0]
    /\ sessions = 0 /\ ids = 0
    /\ session = [c \in Tabs |-> NoSession] /\ since = [c \in Tabs |-> 0]
    /\ shown = [c \in Tabs |-> [s \in Slots |-> Nothing]]
    /\ latest = [c \in Tabs |-> [s \in Slots |-> NoId]]
    /\ choice = [c \in Tabs |-> NoChoice] /\ steps = [c \in Tabs |-> <<>>]
    /\ inFlight = [c \in Tabs |-> FALSE] /\ refused = [c \in Tabs |-> FALSE]
    /\ search = [c \in Tabs |-> NoSearch]
    /\ wire = {} /\ reply = [c \in Tabs |-> "none"]

(***************************************************************************)
(* Searches and feedback exclude one another in a tab.                     *)
(***************************************************************************)
\* The server records the session and reads the selections for its answer.
StartSearch(c) ==
    /\ ~inFlight[c] /\ search[c] = NoSearch /\ sessions < MaxSessions
    /\ sessions' = sessions + 1
    /\ search' = [search EXCEPT ![c] = [session |-> sessions', selections |-> Selections,
                                        at |-> Len(log)]]
    /\ UNCHANGED <<serverVars, ids, displayVars, opVars, wire, reply>>

\* activate(): a new slate forgets the operation of the old one.
EndSearch(c) ==
    /\ search[c] # NoSearch
    /\ session' = [session EXCEPT ![c] = search[c].session]
    /\ shown' = [shown EXCEPT ![c] = [s \in Slots |-> search[c].selections[s].action]]
    /\ latest' = [latest EXCEPT ![c] = [s \in Slots |-> search[c].selections[s].id]]
    /\ since' = [since EXCEPT ![c] = search[c].at]
    /\ choice' = [choice EXCEPT ![c] = NoChoice] /\ steps' = [steps EXCEPT ![c] = <<>>]
    /\ refused' = [refused EXCEPT ![c] = FALSE]
    /\ search' = [search EXCEPT ![c] = NoSearch]
    /\ UNCHANGED <<serverVars, sessions, ids, inFlight, wire, reply>>

FailSearch(c) ==
    /\ search[c] # NoSearch
    /\ search' = [search EXCEPT ![c] = NoSearch]
    /\ UNCHANGED <<serverVars, sessions, ids, displayVars, opVars, wire, reply>>

Step(s, a) == [slot |-> s, action |-> a, id |-> NoId, replaces |-> NoId]

\* The step, if it is needed.
Needed(condition, step) == IF condition THEN <<step>> ELSE <<>>

\* Mutation: the choice is written before what it excludes is cleared.
PlanSetsFirst(c, ch) ==
    IF ch.slot = "restore"
    THEN Needed(shown[c]["rating"] # ch.rating, Step("rating", ch.rating))
    ELSE LET a == IF shown[c][ch.slot] = ch.action THEN Nothing ELSE ch.action IN
         <<Step(ch.slot, a)>>
         \o Needed(a = "less" /\ shown[c]["preferred"] # Nothing, Step("preferred", Nothing))
         \o Needed(a = "mood" /\ shown[c]["rating"] = "less", Step("rating", Nothing))

\* planChoice(): a chosen control toggles; a dislike and the heart exclude one another.
Plan(c, ch) ==
    IF ch.slot = "restore"
    THEN Needed(~ch.preferred /\ shown[c]["preferred"] # Nothing, Step("preferred", Nothing))
         \o Needed(shown[c]["rating"] # ch.rating, Step("rating", ch.rating))
         \o Needed(ch.preferred /\ shown[c]["preferred"] = Nothing, Step("preferred", "mood"))
    ELSE LET a == IF shown[c][ch.slot] = ch.action THEN Nothing ELSE ch.action IN
         Needed(a = "less" /\ shown[c]["preferred"] # Nothing, Step("preferred", Nothing))
         \o Needed(a = "mood" /\ shown[c]["rating"] = "less", Step("rating", Nothing))
         \o <<Step(ch.slot, a)>>

\* Mutation: a retry is a new event.
FrozenAnew(c, todo, known) ==
    [todo EXCEPT ![1].id = ids + 1, ![1].replaces = known[todo[1].slot]]

\* The request of the first step is built once and repeated by retries.
Frozen(c, todo, known) ==
    IF todo[1].id # NoId THEN todo
    ELSE [todo EXCEPT ![1].id = ids + 1, ![1].replaces = known[todo[1].slot]]

\* The first of the steps goes out; known are the tab's latest events.
Send(c, todo, known) ==
    LET sent == Frozen(c, todo, known) IN
    /\ sent[1].id <= MaxIds
    /\ ids' = IF sent[1].id > ids THEN sent[1].id ELSE ids
    /\ steps' = [steps EXCEPT ![c] = sent]
    /\ wire' = wire \cup {[tab |-> c, session |-> session[c], id |-> sent[1].id, slot |-> sent[1].slot,
                           action |-> sent[1].action, replaces |-> sent[1].replaces]}
    /\ inFlight' = [inFlight EXCEPT ![c] = TRUE]
    /\ reply' = [reply EXCEPT ![c] = "none"]

\* choose(): a new operation, or the retry of the one that failed.
Choose(c, ch) ==
    /\ session[c] # NoSession /\ search[c] = NoSearch /\ ~inFlight[c]
    /\ choice[c] \in {NoChoice, ch}
    /\ LET todo == IF choice[c] = NoChoice THEN Plan(c, ch) ELSE steps[c] IN
       todo # <<>> /\ Send(c, todo, latest[c])
    /\ choice' = [choice EXCEPT ![c] = ch]
    /\ refused' = [refused EXCEPT ![c] = FALSE]
    /\ UNCHANGED <<serverVars, sessions, displayVars, search>>

\* The first request of the tab is unanswered.
Waiting(c) == inFlight[c] /\ reply[c] = "none"

\* The connection fails; the request may still arrive, or never.
RequestFails(c) ==
    /\ Waiting(c)
    /\ inFlight' = [inFlight EXCEPT ![c] = FALSE]
    /\ UNCHANGED <<serverVars, sessions, ids, displayVars, choice, steps, refused, search, wire, reply>>

\* Mutation: a step whose answer is lost is taken for done.
ReplyFailsTrusted(c) ==
    /\ inFlight[c] /\ reply[c] # "none"
    /\ inFlight' = [inFlight EXCEPT ![c] = FALSE]
    /\ reply' = [reply EXCEPT ![c] = "none"]
    /\ shown' = [shown EXCEPT ![c][steps[c][1].slot] = steps[c][1].action]
    /\ steps' = [steps EXCEPT ![c] = <<>>] /\ choice' = [choice EXCEPT ![c] = NoChoice]
    /\ UNCHANGED <<serverVars, sessions, ids, session, latest, since, refused, search, wire>>

\* The server has recorded the event, or refused it, and the answer is lost.
ReplyFails(c) ==
    /\ inFlight[c] /\ reply[c] # "none"
    /\ inFlight' = [inFlight EXCEPT ![c] = FALSE]
    /\ reply' = [reply EXCEPT ![c] = "none"]
    /\ UNCHANGED <<serverVars, sessions, ids, displayVars, choice, steps, refused, search, wire>>

\* The acknowledged step is done; the next one follows, or the operation is over.
Acknowledged(c) ==
    /\ inFlight[c] /\ reply[c] = "ok"
    /\ LET step == steps[c][1]
           rest == Tail(steps[c])
           known == [latest[c] EXCEPT ![step.slot] = step.id] IN
       /\ latest' = [latest EXCEPT ![c] = known]
       /\ shown' = [shown EXCEPT ![c][step.slot] = step.action]
       /\ IF rest # <<>>
          THEN Send(c, rest, known) /\ UNCHANGED choice
          ELSE /\ steps' = [steps EXCEPT ![c] = <<>>] /\ choice' = [choice EXCEPT ![c] = NoChoice]
               /\ inFlight' = [inFlight EXCEPT ![c] = FALSE]
               /\ reply' = [reply EXCEPT ![c] = "none"]
               /\ UNCHANGED <<ids, wire>>
    /\ UNCHANGED <<serverVars, sessions, session, since, refused, search>>

Refused(c) ==
    /\ inFlight[c] /\ reply[c] = "conflict"
    /\ inFlight' = [inFlight EXCEPT ![c] = FALSE]
    /\ reply' = [reply EXCEPT ![c] = "none"]
    /\ refused' = [refused EXCEPT ![c] = TRUE]
    /\ UNCHANGED <<serverVars, sessions, ids, displayVars, choice, steps, search, wire>>

\* invalidate(): the account changes, whatever is under way; a search is aborted.
Invalidate(c) ==
    /\ session[c] # NoSession \/ search[c] # NoSearch
    /\ search' = [search EXCEPT ![c] = NoSearch]
    /\ session' = [session EXCEPT ![c] = NoSession]
    /\ shown' = [shown EXCEPT ![c] = [s \in Slots |-> Nothing]]
    /\ latest' = [latest EXCEPT ![c] = [s \in Slots |-> NoId]]
    /\ choice' = [choice EXCEPT ![c] = NoChoice] /\ steps' = [steps EXCEPT ![c] = <<>>]
    /\ inFlight' = [inFlight EXCEPT ![c] = FALSE] /\ reply' = [reply EXCEPT ![c] = "none"]
    /\ refused' = [refused EXCEPT ![c] = FALSE]
    /\ UNCHANGED <<serverVars, sessions, ids, since, wire>>

-------------------------------------------------------------------------------
\* The tab still waits for the answer to r.
Awaits(r) == Waiting(r.tab) /\ session[r.tab] = r.session /\ steps[r.tab][1].id = r.id

Answer(r, a) ==
    /\ wire' = wire \ {r}
    /\ reply' = IF Awaits(r) THEN [reply EXCEPT ![r.tab] = a] ELSE reply

\* Mutation: a retry is not recognised, and starts a lineage like any write.
RecordAgain(r) ==
    /\ r \in wire /\ r.replaces = NoId /\ r.action # Nothing /\ Len(log) < MaxLog
    /\ Answer(r, "ok") /\ Inserted(r, [log |-> log, learned |-> learned])
    /\ UNCHANGED <<sessions, ids, displayVars, opVars, search>>

\* record(): a known event is acknowledged again; otherwise it replaces its
\* target, starts a lineage, or is refused and changes nothing.
Record(r) ==
    /\ r \in wire
    /\ IF Recorded(r.id) THEN Answer(r, "ok") /\ UNCHANGED serverVars
       ELSE IF r.replaces # NoId /\ Replaceable(r)
       THEN /\ Len(log) < MaxLog /\ Answer(r, "ok")
            /\ \E k \in {i \in DOMAIN log : IsEvent(log[i]) /\ log[i].id = r.replaces} :
                 Inserted(r, Retracted(k))
       ELSE IF r.replaces = NoId /\ Startable(r)
       THEN Len(log) < MaxLog /\ Answer(r, "ok") /\ Inserted(r, [log |-> log, learned |-> learned])
       ELSE Answer(r, "conflict") /\ UNCHANGED serverVars
    /\ UNCHANGED <<sessions, ids, displayVars, opVars, search>>

\* invalidateFeedbackLearning(), and the write that makes it necessary.
Invalidated(mark) ==
    log' = Append([i \in DOMAIN log |-> IF IsEvent(log[i]) THEN [log[i] EXCEPT !.valid = FALSE] ELSE log[i]],
                  [kind |-> mark])

\* A search of an older client carries its ratings, and they are learned with it.
LegacySearch ==
    /\ Len(log) < MaxLog
    /\ Invalidated("legacy")
    /\ learned' = [learned EXCEPT !.weight = Clamped(@ + 1)]
    /\ UNCHANGED <<sessions, ids, displayVars, opVars, search, wire, reply>>

\* resetFeelProfile(): the terms are deleted.
ResetFeelProfile ==
    /\ Len(log) < MaxLog
    /\ Invalidated("reset")
    /\ learned' = [learned EXCEPT !.term = 0]
    /\ UNCHANGED <<sessions, ids, displayVars, opVars, search, wire, reply>>

Next ==
    \/ \E c \in Tabs : \/ StartSearch(c) \/ EndSearch(c) \/ FailSearch(c) \/ Invalidate(c)
                       \/ \E ch \in FeedbackChoices : Choose(c, ch)
                       \/ RequestFails(c) \/ ReplyFails(c) \/ Acknowledged(c) \/ Refused(c)
    \/ \E r \in wire : Record(r)
    \/ LegacySearch \/ ResetFeelProfile

Spec == Init /\ [][Next]_vars

-------------------------------------------------------------------------------
(***************************************************************************)
(* Properties.                                                             *)
(***************************************************************************)
Learned == [weight : -Cap..Cap, term : -Cap..Cap]
AnyAction == {"more", "less", "mood", Nothing}
LogEntries == [kind : {"legacy", "reset"}]
              \cup {e \in [kind : {"event"}, id : 1..MaxIds, slot : Slots, action : AnyAction,
                           session : 1..MaxSessions, superseded : BOOLEAN, valid : BOOLEAN,
                           before : Learned, after : Learned] : e.action \in Actions(e.slot)}
StepsOf == {p \in [slot : Slots, action : AnyAction, id : 0..MaxIds, replaces : 0..MaxIds] :
              p.action \in Actions(p.slot)}
Requests == {r \in [tab : Tabs, session : 1..MaxSessions, id : 1..MaxIds, slot : Slots,
                    action : AnyAction, replaces : 0..MaxIds] : r.action \in Actions(r.slot)}
Searches == [session : 1..MaxSessions, at : 0..MaxLog,
             selections : [Slots -> [id : 0..MaxIds, action : AnyAction]]]

\* The type invariant; no two recorded events have the same id.
FeedbackTypeOK ==
    /\ log \in Seq(LogEntries) /\ learned \in Learned
    /\ sessions \in 0..MaxSessions /\ ids \in 0..MaxIds
    /\ session \in [Tabs -> 0..MaxSessions] /\ since \in [Tabs -> 0..MaxLog]
    /\ shown \in [Tabs -> [Slots -> AnyAction]] /\ latest \in [Tabs -> [Slots -> 0..MaxIds]]
    /\ \A c \in Tabs, s \in Slots : shown[c][s] \in Actions(s)
    /\ choice \in [Tabs -> FeedbackChoices \cup {NoChoice}] /\ steps \in [Tabs -> Seq(StepsOf)]
    /\ inFlight \in [Tabs -> BOOLEAN] /\ refused \in [Tabs -> BOOLEAN]
    /\ search \in [Tabs -> Searches \cup {NoSearch}]
    /\ \A c \in Tabs, s \in Slots :
         search[c] # NoSearch => search[c].selections[s].action \in Actions(s)
    /\ wire \subseteq Requests
    /\ reply \in [Tabs -> {"none", "ok", "conflict"}]
    /\ \A i, j \in DOMAIN log : (IsEvent(log[i]) /\ IsEvent(log[j]) /\ log[i].id = log[j].id) => i = j

\* What an entry of the log teaches, and what all of them do after one another.
Teach(l, e) ==
    CASE IsLive(e) -> Apply(l, e.action)
      [] e.kind = "legacy" -> [l EXCEPT !.weight = Clamped(@ + 1)]
      [] e.kind = "reset" -> [l EXCEPT !.term = 0]
      [] OTHER -> l

Lessons(entries) ==
    LET taught[i \in 0..Len(entries)] ==
          IF i = 0 THEN [weight |-> 0, term |-> 0] ELSE Teach(taught[i - 1], entries[i])
    IN  taught

\* What is learned is what the live events and the other writes would teach in
\* their order from the start: an event that was replaced or withdrawn has left no
\* trace, also where weights are clamped, and nothing later is lost with it.
LearnedIsReplay == learned = Lessons(log)[Len(log)]

\* Of a slot whose newest live event is of its own session, a tab with no operation
\* shows that event and would replace it: lost answers, retries and operations that
\* failed half-way do not set the two apart.  Of what another session wrote last it
\* knows nothing until it searches again.
TabAgrees ==
    \A c \in Tabs, s \in Slots :
        LET k == LatestOf(s) IN
        (session[c] # NoSession /\ choice[c] = NoChoice /\ k # 0 /\ log[k].session = session[c])
            => (latest[c][s] = log[k].id /\ shown[c][s] = log[k].action)

\* A request is refused only if somebody else has changed the history since the
\* tab read it: a retry, or the next step, never conflicts with the tab itself.
NoConflictWithOneself ==
    \A c \in Tabs : refused[c] =>
        \E i \in (since[c] + 1)..Len(log) : ~IsEvent(log[i]) \/ log[i].session # session[c]

\* A session never leaves both the dislike and the heart it has written, not even
\* between the steps of an operation or when one of them fails.
ExclusiveControls ==
    \A n \in 1..sessions :
        ~ /\ LatestOf("rating") # 0 /\ LatestOf("preferred") # 0
          /\ log[LatestOf("rating")].session = n /\ log[LatestOf("preferred")].session = n
          /\ log[LatestOf("rating")].action = "less" /\ log[LatestOf("preferred")].action = "mood"
===============================================================================
