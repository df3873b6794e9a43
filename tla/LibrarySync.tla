------------------------------ MODULE LibrarySync ------------------------------
(***************************************************************************)
(* A sync run (jobs/syncRunner.ts): the titles of Plex and the requests of *)
(* Seerr are read page by page while they change, ingested in batches,     *)
(* and what is missing is given up.  A record whose identifiers belong to  *)
(* several items is skipped and its items are quarantined                  *)
(* (db/mediaRepository.ts) until a full run no longer finds the conflict.  *)
(* A batch, and every other transaction of the database, is one step.      *)
(***************************************************************************)
EXTENDS Integers, SequencesExt, FiniteSetsExt

CONSTANTS
    PlexTitles, Requests,   \* upstream entries that a run reads,
    Found,                  \* and those that only a search meets
    Ids,                    \* external identifiers, in the order they name an item
    Value,                  \* an identifier's value, without its source
    Title,                  \* an entry's title
    Named,                  \* what identifies an entry at first,
    Corrections,            \* and what operators may change that to
    PageSize, BatchSize,
    MaxRuns,                \* bound: runs
    MaxChanges              \* bound: changes upstream

Entries == PlexTitles \cup Requests \cup Found
Sides == {"plex", "seerr"}
EntriesOf(side) == IF side = "plex" THEN PlexTitles ELSE Requests
Items == {Value[x] : x \in Ids}

NoItem  == 0
NoTotal == -1
NoTitle == "none"

ASSUME LibraryAssumption ==
    /\ Ids \subseteq Nat /\ {PageSize, BatchSize} \subseteq Nat \ {0}
    /\ {MaxRuns, MaxChanges} \subseteq Nat /\ NoItem \notin Items
    /\ PlexTitles \cap Requests = {} /\ Found \cap (PlexTitles \cup Requests) = {}
    /\ Named \in [Entries -> (SUBSET Ids) \ {{}}] /\ Corrections \subseteq (SUBSET Ids) \ {{}}

VARIABLES
    lists,      \* upstream: the titles of Plex and the requests of Seerr, as they are paged
    names,      \* upstream: the identifiers of an entry
    db,         \* the database
    clock,      \* of the last_seen_at stamps: the number of runs begun
    todo,       \* sides the run has yet to do, the current one first
    both,       \* the run does both sides
    phase,      \* where the run is
    total,      \* the total that the first page reported
    snapshot,   \* records read
    next,       \* number of them ingested
    added, removed, corrected,  \* history: what changed upstream during the run
    changes                     \* number of changes upstream

upstream == <<lists, names, added, removed, corrected, changes>>
reading  == <<total, snapshot, next>>
vars == <<upstream, db, clock, todo, both, phase, reading>>

-------------------------------------------------------------------------------
(***************************************************************************)
(* The database.  owner is external_ids, row is plex_items and seerr_items *)
(* with listed for available and a live request, index is the search       *)
(* projection of an item.                                                  *)
(***************************************************************************)
RowsOf(d, i) == {e \in Entries : d.row[e] = i /\ d.listed[e]}

\* The availability group of an item; a quarantined one is unavailable.
Projection(d, i) ==
    IF d.title[i] = NoTitle THEN "absent"
    ELSE IF d.quarantine[i] # 0 THEN "unavailable"
    ELSE IF RowsOf(d, i) \cap PlexTitles # {} THEN "available"
    ELSE IF RowsOf(d, i) \cap Requests # {} THEN "requested" ELSE "unavailable"

Refreshed(d, affected) ==
    [d EXCEPT !.index = [i \in Items |-> IF i \in affected THEN Projection(d, i) ELSE d.index[i]]]

\* The items to which the strong identifiers of a record resolve.
Matches(d, r) == ({d.owner[x] : x \in r.names} \cup {d.row[r.entry]}) \ {NoItem}
Conflicts(d, r) == \E i, j \in Matches(d, r) : i # j

\* The item of a record: by its identifiers, by its title, or a new one, named
\* after the value of its first identifier whatever that one's source.
ItemFor(d, r) ==
    LET titled == {i \in Items : d.title[i] = Title[r.entry]} IN
    IF Matches(d, r) # {} THEN CHOOSE i \in Matches(d, r) : TRUE
    ELSE IF titled # {} THEN CHOOSE i \in titled : TRUE
    ELSE Value[Min(r.names)]

Upserted(d, r) ==
    LET i == ItemFor(d, r) IN
    Refreshed([d EXCEPT !.owner = [x \in Ids |-> IF x \in r.names THEN i ELSE d.owner[x]],
                        !.row[r.entry] = i, !.listed[r.entry] = r.entry \notin Found,
                        !.title[i] = Title[r.entry]],
              {i})

\* Mutation: the projection of the quarantined items is not refreshed.
QuarantinedStale(d, r) ==
    [d EXCEPT !.quarantine = [i \in Items |-> IF i \in Matches(d, r) THEN clock ELSE d.quarantine[i]]]

Quarantined(d, r) ==
    Refreshed([d EXCEPT !.quarantine = [i \in Items |-> IF i \in Matches(d, r) THEN clock
                                                        ELSE d.quarantine[i]]],
              Matches(d, r))

\* upsertIntegrationRecords(): a record in conflict is skipped, its siblings are not.
Taken(d, r) == IF Conflicts(d, r) THEN Quarantined(d, r) ELSE Upserted(d, r)

Ingested(d, records) ==
    LET after[n \in 0..Len(records)] == IF n = 0 THEN d ELSE Taken(after[n - 1], records[n])
    IN  after[Len(records)]

\* What a complete snapshot of a side no longer lists is given up; a request of
\* a quarantined item is kept.
GivenUp(d, side, seen) ==
    LET gone == {e \in EntriesOf(side) \ seen :
                    d.listed[e] /\ (side = "seerr" => d.quarantine[d.row[e]] = 0)}
    IN  Refreshed([d EXCEPT !.listed = [e \in Entries |-> d.listed[e] /\ e \notin gone],
                            !.row = [e \in Entries |-> IF side = "seerr" /\ e \in gone THEN NoItem
                                                       ELSE d.row[e]]],
                  {d.row[e] : e \in gone})

\* Mutation: a conflict seen since the run began is no obstacle.
StaleUpTo(d) == {i \in Items : d.quarantine[i] \in 1..clock}

\* Items whose conflict was last seen before the current run began.
Stale(d) == {i \in Items : d.quarantine[i] \in 1..(clock - 1)}

Released(d) ==
    Refreshed([d EXCEPT !.quarantine = [i \in Items |-> IF i \in Stale(d) THEN 0 ELSE d.quarantine[i]]],
              Stale(d))

-------------------------------------------------------------------------------
Init ==
    /\ lists \in [Sides -> {<<>>} \cup {<<e>> : e \in Entries} \cup {<<e, f>> : e, f \in Entries}]
    /\ \A side \in Sides : IsInjective(lists[side]) /\ ToSet(lists[side]) \subseteq EntriesOf(side)
    /\ names = Named
    /\ db = [owner |-> [x \in Ids |-> NoItem], row |-> [e \in Entries |-> NoItem],
             listed |-> [e \in Entries |-> FALSE], title |-> [i \in Items |-> NoTitle],
             quarantine |-> [i \in Items |-> 0], index |-> [i \in Items |-> "absent"]]
    /\ clock = 1 /\ todo = <<>> /\ both = FALSE /\ phase = "idle"
    /\ total = NoTotal /\ snapshot = <<>> /\ next = 0
    /\ added = {} /\ removed = {} /\ corrected = {} /\ changes = 0

side == Head(todo)

Reset == total' = NoTotal /\ snapshot' = <<>> /\ next' = 0

Start(order) ==
    /\ phase = "idle" /\ clock <= MaxRuns
    /\ clock' = clock + 1 /\ todo' = order /\ both' = (Len(order) = 2) /\ phase' = "reading"
    /\ added' = {} /\ removed' = {} /\ corrected' = {}
    /\ UNCHANGED <<lists, names, db, changes, reading>>

\* The page that comes next, as it is now.
Page ==
    LET from == Len(snapshot) + 1
        listed == lists[side] IN
    [j \in 1..Min({PageSize, Max({0, Len(listed) - from + 1})}) |->
        [entry |-> listed[from + j - 1], names |-> names[listed[from + j - 1]]]]

\* Mutation: the total may change from page to page.
SoundWithoutTotal ==
    /\ {r.entry : r \in ToSet(Page)} \cap {r.entry : r \in ToSet(snapshot)} = {}
    /\ Page = <<>> => Len(snapshot) = Len(lists[side])

\* The page fits those before it: the total is the same, no identity comes
\* twice, and the list does not end early.
Sound ==
    /\ total \in {NoTotal, Len(lists[side])}
    /\ {r.entry : r \in ToSet(Page)} \cap {r.entry : r \in ToSet(snapshot)} = {}
    /\ Page = <<>> => Len(snapshot) = Len(lists[side])

ReadPage ==
    /\ phase = "reading" /\ Sound
    /\ snapshot' = snapshot \o Page /\ total' = Len(lists[side])
    /\ phase' = IF Len(snapshot') = total' THEN "ingesting" ELSE "reading"
    /\ UNCHANGED <<upstream, db, clock, todo, both, next>>

\* upsertInBatches(): one batch, and a yield.
IngestBatch ==
    /\ phase = "ingesting" /\ next < Len(snapshot)
    /\ next' = Min({Len(snapshot), next + BatchSize})
    /\ db' = Ingested(db, SubSeq(snapshot, next + 1, next'))
    /\ UNCHANGED <<upstream, clock, todo, both, phase, total, snapshot>>

\* markPlexUnavailableExceptRatingKeys() or reconcileSeerrSnapshotAbsence().
Finalize ==
    /\ phase = "ingesting" /\ next = Len(snapshot)
    /\ db' = GivenUp(db, side, {r.entry : r \in ToSet(snapshot)})
    /\ todo' = Tail(todo) /\ phase' = IF Tail(todo) = <<>> THEN "clearing" ELSE "reading"
    /\ Reset
    /\ UNCHANGED <<upstream, clock, both>>

\* The end of a run; one with both sides clears the quarantines it has not renewed.
Finish ==
    /\ phase = "clearing"
    /\ db' = IF both THEN Released(db) ELSE db
    /\ phase' = "idle"
    /\ UNCHANGED <<upstream, clock, todo, both, reading>>

\* The run fails, is cancelled, or its worker dies between two transactions.
Abort ==
    /\ phase # "idle"
    /\ phase' = "idle" /\ todo' = <<>> /\ Reset
    /\ UNCHANGED <<upstream, db, clock, both>>

\* A search ingests a title that it has met at Seerr.
IngestFound(e) ==
    /\ e \in Found
    /\ db' = Ingested(db, <<[entry |-> e, names |-> names[e]]>>)
    /\ UNCHANGED <<upstream, clock, todo, both, phase, reading>>

-------------------------------------------------------------------------------
\* What happens upstream, at any time.
Changes(e, kind) ==
    /\ changes < MaxChanges /\ changes' = changes + 1
    /\ added' = IF kind = "added" /\ phase # "idle" THEN added \cup {e} ELSE added
    /\ removed' = IF kind = "removed" /\ phase # "idle" THEN removed \cup {e} ELSE removed
    /\ corrected' = IF kind = "corrected" /\ phase # "idle" THEN corrected \cup {e} ELSE corrected
    /\ UNCHANGED <<db, clock, todo, both, phase, reading>>

Appears(s, e) ==
    /\ e \notin ToSet(lists[s]) /\ Changes(e, "added")
    /\ \E n \in 1..(Len(lists[s]) + 1) : lists' = [lists EXCEPT ![s] = InsertAt(@, n, e)]
    /\ UNCHANGED names

Disappears(s, e) ==
    /\ e \in ToSet(lists[s]) /\ Changes(e, "removed")
    /\ \E n \in DOMAIN lists[s] : lists[s][n] = e /\ lists' = [lists EXCEPT ![s] = RemoveAt(@, n)]
    /\ UNCHANGED names

Correct(e) ==
    /\ Changes(e, "corrected")
    /\ \E n \in Corrections \ {names[e]} : names' = [names EXCEPT ![e] = n]
    /\ UNCHANGED lists

Next ==
    \/ \E order \in {<<"plex", "seerr">>, <<"plex">>, <<"seerr">>} : Start(order)
    \/ ReadPage \/ IngestBatch \/ Finalize \/ Finish \/ Abort
    \/ \E e \in Found : IngestFound(e)
    \/ \E s \in Sides : \E e \in EntriesOf(s) : Appears(s, e) \/ Disappears(s, e)
    \/ \E e \in Entries : Correct(e)

Spec == Init /\ [][Next]_vars

-------------------------------------------------------------------------------
(***************************************************************************)
(* Properties.                                                             *)
(***************************************************************************)
\* Entries that have been listed ever since the run began, and whether entries
\* came and went meanwhile, which lets a page skip one unnoticed.
Throughout(s) == ToSet(lists[s]) \ (added \cup removed)
Skewed(s) == added \cap EntriesOf(s) # {} /\ removed \cap EntriesOf(s) # {}

\* CHANGELOG: no "unproven snapshot" marks "omitted items unavailable".  A title
\* or request that is listed all through a run is not given up by it, however the
\* lists change between two pages, a page fails or the run is cut off - unless
\* entries both came and went, so that the totals agree.
ListedIsKept ==
    [][\A s \in Sides : \A e \in Throughout(s) :
         (db.listed[e] /\ ~db'.listed[e]) => Skewed(s)]_vars

\* docs/DATA_AND_PRIVACY.md: "Reproduced conflicts remain blocked".  When an entry
\* listed and unchanged all through a run has several items, two of them at least
\* stay quarantined: what is lifted has come to match it after it was ingested.
ConflictsStayBlocked ==
    [][\A i \in Items : (db.quarantine[i] # 0 /\ db'.quarantine[i] = 0) =>
         \A s \in Sides : \A e \in Throughout(s) \ corrected :
            LET r == [entry |-> e, names |-> names[e]]
                blocked == {j \in Matches(db, r) : db'.quarantine[j] # 0} IN
            (Conflicts(db, r) /\ i \in Matches(db, r)) => (Skewed(s) \/ \E j, k \in blocked : j # k)]_vars

\* Search never offers an item by a state it no longer has: its projection agrees
\* with its rows and its quarantine after every transaction, wherever a run ends.
IndexAgrees == \A i \in Items : db.index[i] = Projection(db, i)
===============================================================================
