--------------------------- MODULE LibrarySyncProofs ---------------------------
(***************************************************************************)
(* Theorems about LibrarySync, for any libraries, identifiers, page and    *)
(* batch sizes.  A batch is folded over its records, so what one record    *)
(* does to the database is carried along the fold by induction (Along).    *)
(***************************************************************************)
EXTENDS LibrarySync, WellFoundedInduction, TLAPS

-------------------------------------------------------------------------------
(***************************************************************************)
(* Induction over an initial part of the natural numbers, on sets.         *)
(***************************************************************************)
LEMMA Least ==
    ASSUME NEW T \in SUBSET Nat, T # {}
    PROVE  \E n \in T : \A m \in T : n <= m
<1> DEFINE R == {p \in Nat \X Nat : p[1] < p[2]}
<1>1. IsWellFoundedOn(OpToRel(<, Nat), Nat)
    BY NatLessThanWellFounded
<1>2. R = OpToRel(<, Nat)
    BY DEF OpToRel
<1>3. IsWellFoundedOn(R, Nat)
    BY <1>1, <1>2
<1>4. \E n \in T : \A m \in T : ~ (<<m, n>> \in R)
  <2> HIDE DEF R
  <2> QED
      BY <1>3, WFMin
<1>5. PICK n \in T : \A m \in T : ~ (<<m, n>> \in R)
    BY <1>4
<1>6. n \in Nat /\ \A m \in T : m \in Nat /\ ~ (m < n)
    BY <1>5
<1>7. \A m \in T : n <= m
    BY <1>6
<1> QED
    BY <1>7

LEMMA Along ==
    ASSUME NEW S, NEW after, NEW first \in Nat, NEW last \in Nat, first <= last,
           after[first] \in S,
           \A n \in (first + 1)..last : after[n - 1] \in S => after[n] \in S
    PROVE  after[last] \in S
<1> DEFINE Missed == {n \in first..last : after[n] \notin S}
<1>1. SUFFICES ASSUME Missed # {} PROVE FALSE
    OBVIOUS
<1>2. PICK n \in Missed : \A m \in Missed : n <= m
  <2>1. Missed \in SUBSET Nat
      OBVIOUS
  <2> HIDE DEF Missed
  <2> QED
      BY <1>1, <2>1, Least
<1>3. n # first /\ n \in (first + 1)..last
    BY <1>2
<1>4. n - 1 \in first..last /\ n - 1 \notin Missed
    BY <1>2, <1>3
<1>5. after[n - 1] \in S
    BY <1>4
<1> QED
    BY <1>2, <1>3, <1>5

-------------------------------------------------------------------------------
(***************************************************************************)
(* The database: types, and what one record does to it.                    *)
(***************************************************************************)
Records == [entry : Entries, names : (SUBSET Ids) \ {{}}]
Titles  == {Title[e] : e \in Entries} \cup {NoTitle}
Groups  == {"absent", "unavailable", "available", "requested"}
Databases == [owner : [Ids -> Items \cup {NoItem}], row : [Entries -> Items \cup {NoItem}],
              listed : [Entries -> BOOLEAN], title : [Items -> Titles],
              quarantine : [Items -> Nat], index : [Items -> Groups]]

\* A listed row belongs to an item, and the index agrees with rows and quarantine.
Consistent == {d \in Databases : /\ \A e \in Entries : d.listed[e] => d.row[e] \in Items
                                 /\ \A i \in Items : d.index[i] = Projection(d, i)}

\* A record is settled: all of its identifiers name its item, or two of its items
\* have been quarantined now.
Settled(d, r, now) ==
    \/ \E i \in Items : (\A x \in r.names : d.owner[x] = i) /\ d.row[r.entry] \in {i, NoItem}
    \/ \E i, j \in Matches(d, r) : i # j /\ d.quarantine[i] = now /\ d.quarantine[j] = now

\* What a record of an entry may change in d: no identifier and no row moves from
\* one item to another, and quarantines are only renewed.
Kept(d, f, entry, now) ==
    /\ \A x \in Ids : d.owner[x] # NoItem => f.owner[x] = d.owner[x]
    /\ \A e \in Entries : d.row[e] # NoItem => f.row[e] = d.row[e]
    /\ \A e \in Entries \ {entry} : f.row[e] = d.row[e]
    /\ \A i \in Items : f.quarantine[i] = d.quarantine[i] \/ f.quarantine[i] = now
    /\ \A e \in Entries : d.listed[e] => f.listed[e] \/ e \in Found

LEMMA MatchFacts ==
    ASSUME NEW d \in Databases, NEW r \in Records
    PROVE  /\ Matches(d, r) \subseteq Items
           /\ r.entry \in Entries /\ r.names \subseteq Ids /\ r.names # {}
           /\ Min(r.names) \in r.names
           /\ \A i : i \in Matches(d, r) <=>
                       i # NoItem /\ (i = d.row[r.entry] \/ \E x \in r.names : i = d.owner[x])
<1>1. r.entry \in Entries /\ r.names \subseteq Ids /\ r.names # {} /\ r.names \in SUBSET Nat
  <2>1. r.entry \in Entries /\ r.names \in (SUBSET Ids) \ {{}}
      BY DEF Records
  <2> QED
      BY <2>1, LibraryAssumption
<1>2. \E n \in r.names : \A m \in r.names : n <= m
    BY <1>1, Least
<1>3. Min(r.names) \in r.names
    BY <1>2 DEF Min
<1>4. /\ d.row[r.entry] \in Items \cup {NoItem}
      /\ \A x \in r.names : d.owner[x] \in Items \cup {NoItem}
    BY <1>1 DEF Databases
<1> QED
    BY <1>1, <1>3, <1>4 DEF Matches

LEMMA RefreshFacts ==
    ASSUME NEW d \in Databases, NEW affected,
           \A e \in Entries : d.listed[e] => d.row[e] \in Items,
           \A i \in Items \ affected : d.index[i] = Projection(d, i)
    PROVE  /\ Refreshed(d, affected) \in Consistent
           /\ Refreshed(d, affected).owner = d.owner /\ Refreshed(d, affected).row = d.row
           /\ Refreshed(d, affected).listed = d.listed /\ Refreshed(d, affected).title = d.title
           /\ Refreshed(d, affected).quarantine = d.quarantine
<1> DEFINE f == Refreshed(d, affected)
<1>1. \A i \in Items : Projection(d, i) \in Groups
    BY DEF Projection, Groups
<1>2. /\ f.owner = d.owner /\ f.row = d.row /\ f.listed = d.listed /\ f.title = d.title
      /\ f.quarantine = d.quarantine
      /\ f.index = [i \in Items |-> IF i \in affected THEN Projection(d, i) ELSE d.index[i]]
      /\ f = [owner |-> d.owner, row |-> d.row, listed |-> d.listed, title |-> d.title,
              quarantine |-> d.quarantine, index |-> f.index]
    BY DEF Refreshed, Databases
<1>3. f \in Databases
  <2>1. f.index \in [Items -> Groups]
      BY <1>1, <1>2 DEF Databases
  <2> QED
      BY <2>1, <1>2 DEF Databases
<1>4. \A i \in Items : Projection(f, i) = Projection(d, i)
  <2>1. \A i \in Items : RowsOf(f, i) = RowsOf(d, i)
      BY <1>2 DEF RowsOf
  <2> HIDE DEF f
  <2> QED
      BY <2>1, <1>2 DEF Projection
<1>5. \A i \in Items : f.index[i] = Projection(f, i)
    BY <1>2, <1>4
<1> HIDE DEF f
<1>6. f \in Consistent
    BY <1>2, <1>3, <1>5 DEF Consistent
<1> QED
    BY <1>2, <1>6 DEF f

LEMMA QuarantineFacts ==
    ASSUME NEW d \in Consistent, NEW r \in Records, clock \in Nat
    PROVE  /\ Quarantined(d, r) \in Consistent
           /\ Quarantined(d, r).owner = d.owner /\ Quarantined(d, r).row = d.row
           /\ Quarantined(d, r).listed = d.listed
           /\ \A i \in Items : Quarantined(d, r).quarantine[i]
                                 = IF i \in Matches(d, r) THEN clock ELSE d.quarantine[i]
<1> DEFINE marks == [i \in Items |-> IF i \in Matches(d, r) THEN clock ELSE d.quarantine[i]]
           f == [d EXCEPT !.quarantine = marks]
<1>1. d \in Databases
    BY DEF Consistent
<1>2. f = [owner |-> d.owner, row |-> d.row, listed |-> d.listed, title |-> d.title,
           quarantine |-> marks, index |-> d.index]
    BY <1>1 DEF Databases
<1>3. marks \in [Items -> Nat]
    BY <1>1 DEF Databases
<1>4. f \in Databases
    BY <1>1, <1>2, <1>3 DEF Databases
<1>5. \A e \in Entries : f.listed[e] => f.row[e] \in Items
    BY <1>2 DEF Consistent
<1>6. \A i \in Items \ Matches(d, r) : f.index[i] = Projection(f, i)
  <2>1. \A i \in Items : RowsOf(f, i) = RowsOf(d, i)
      BY <1>2 DEF RowsOf
  <2>2. \A i \in Items \ Matches(d, r) : Projection(f, i) = Projection(d, i)
      BY <2>1, <1>2 DEF Projection
  <2> QED
      BY <2>2, <1>2 DEF Consistent
<1>7. Quarantined(d, r) = Refreshed(f, Matches(d, r))
    BY DEF Quarantined
<1> HIDE DEF f
<1> QED
    BY <1>2, <1>4, <1>5, <1>6, <1>7, RefreshFacts

LEMMA UpsertFacts ==
    ASSUME NEW d \in Consistent, NEW r \in Records, ~Conflicts(d, r)
    PROVE  /\ Upserted(d, r) \in Consistent
           /\ Upserted(d, r).quarantine = d.quarantine
           /\ \E i \in Items :
                /\ Matches(d, r) \subseteq {i}
                /\ \A x \in Ids : Upserted(d, r).owner[x] = IF x \in r.names THEN i ELSE d.owner[x]
                /\ \A e \in Entries : Upserted(d, r).row[e] = IF e = r.entry THEN i ELSE d.row[e]
                /\ \A e \in Entries : Upserted(d, r).listed[e]
                                        = IF e = r.entry THEN r.entry \notin Found ELSE d.listed[e]
<1>1. d \in Databases /\ r.entry \in Entries /\ r.names \subseteq Ids
    BY MatchFacts DEF Consistent, Records
<1>2. PICK i : i = ItemFor(d, r)
    OBVIOUS
<1>3. i \in Items /\ Matches(d, r) \subseteq {i}
  <2>1. CASE Matches(d, r) # {}
      BY <2>1, <1>1, <1>2, MatchFacts DEF ItemFor, Conflicts
  <2>2. CASE Matches(d, r) = {}
    <3>1. Value[Min(r.names)] \in Items
        BY <1>1, MatchFacts DEF Items
    <3> QED
        BY <3>1, <2>2, <1>2 DEF ItemFor
  <2> QED
      BY <2>1, <2>2
<1> DEFINE owners == [x \in Ids |-> IF x \in r.names THEN i ELSE d.owner[x]]
           rows   == [d.row EXCEPT ![r.entry] = i]
           listings == [d.listed EXCEPT ![r.entry] = r.entry \notin Found]
           titles == [d.title EXCEPT ![i] = Title[r.entry]]
           f == [d EXCEPT !.owner = owners, !.row[r.entry] = i, !.listed[r.entry] = r.entry \notin Found,
                          !.title[i] = Title[r.entry]]
<1>4. Upserted(d, r) = Refreshed(f, {i})
    BY <1>2 DEF Upserted
<1>5. f \in Databases
  <2>1. owners \in [Ids -> Items \cup {NoItem}] /\ rows \in [Entries -> Items \cup {NoItem}]
      BY <1>1, <1>3 DEF Databases
  <2>2. listings \in [Entries -> BOOLEAN]
      BY <1>1 DEF Databases
  <2>3. titles \in [Items -> Titles]
      BY <1>1, <1>3 DEF Databases, Titles
  <2>4. f = [d EXCEPT !.owner = owners, !.row = rows, !.listed = listings, !.title = titles]
      OBVIOUS
  <2> HIDE DEF owners, rows, listings, titles
  <2> QED
      BY <2>1, <2>2, <2>3, <2>4, <1>1 DEF Databases
<1>6. /\ f.quarantine = d.quarantine /\ f.index = d.index
      /\ \A x \in Ids : f.owner[x] = IF x \in r.names THEN i ELSE d.owner[x]
      /\ \A e \in Entries : f.row[e] = IF e = r.entry THEN i ELSE d.row[e]
      /\ \A e \in Entries : f.listed[e] = IF e = r.entry THEN r.entry \notin Found ELSE d.listed[e]
      /\ \A j \in Items \ {i} : f.title[j] = d.title[j]
    BY <1>1, <1>3 DEF Databases
<1> HIDE DEF f
<1>7. \A e \in Entries : f.listed[e] => f.row[e] \in Items
    BY <1>3, <1>6 DEF Consistent
<1>8. \A j \in Items \ {i} : f.index[j] = Projection(f, j)
  <2>1. \A j \in Items \ {i} : RowsOf(f, j) = RowsOf(d, j)
    <3>1. d.row[r.entry] # NoItem => d.row[r.entry] = i
        BY <1>1, <1>3, MatchFacts
    <3> QED
        BY <3>1, <1>1, <1>6, LibraryAssumption DEF RowsOf
  <2>2. \A j \in Items \ {i} : Projection(f, j) = Projection(d, j)
      BY <2>1, <1>6 DEF Projection
  <2> QED
      BY <2>2, <1>6 DEF Consistent
<1> QED
    BY <1>3, <1>4, <1>5, <1>6, <1>7, <1>8, RefreshFacts

LEMMA TakenFacts ==
    ASSUME NEW d \in Consistent, NEW r \in Records, clock \in Nat
    PROVE  /\ Taken(d, r) \in Consistent
           /\ Kept(d, Taken(d, r), r.entry, clock)
           /\ Settled(Taken(d, r), r, clock)
<1> DEFINE f == Taken(d, r)
<1>1. d \in Databases /\ r.entry \in Entries /\ r.names \subseteq Ids /\ NoItem \notin Items
    BY MatchFacts, LibraryAssumption DEF Consistent
<1>2. CASE Conflicts(d, r)
  <2>1. f = Quarantined(d, r)
      BY <1>2 DEF Taken
  <2> HIDE DEF f
  <2>2. /\ f \in Consistent /\ f.owner = d.owner /\ f.row = d.row /\ f.listed = d.listed
        /\ \A i \in Items : f.quarantine[i] = IF i \in Matches(d, r) THEN clock ELSE d.quarantine[i]
      BY <2>1, QuarantineFacts
  <2>3. PICK i, j \in Matches(d, r) : i # j
      BY <1>2 DEF Conflicts
  <2>4. Matches(f, r) = Matches(d, r) /\ Matches(d, r) \subseteq Items
      BY <1>1, <2>2, MatchFacts DEF Matches
  <2>5. Settled(f, r, clock)
      BY <2>2, <2>3, <2>4 DEF Settled
  <2>6. Kept(d, f, r.entry, clock)
      BY <2>2 DEF Kept
  <2> QED
      BY <2>2, <2>5, <2>6 DEF f
<1>3. CASE ~Conflicts(d, r)
  <2>1. f = Upserted(d, r)
      BY <1>3 DEF Taken
  <2> HIDE DEF f
  <2>2. f \in Consistent /\ f.quarantine = d.quarantine
      BY <1>3, <2>1, UpsertFacts
  <2>3. PICK i \in Items :
           /\ Matches(d, r) \subseteq {i}
           /\ \A x \in Ids : f.owner[x] = IF x \in r.names THEN i ELSE d.owner[x]
           /\ \A e \in Entries : f.row[e] = IF e = r.entry THEN i ELSE d.row[e]
           /\ \A e \in Entries : f.listed[e] = IF e = r.entry THEN r.entry \notin Found ELSE d.listed[e]
      BY <1>3, <2>1, UpsertFacts
  <2>4. Settled(f, r, clock)
      BY <1>1, <2>3 DEF Settled
  <2>5. /\ \A x \in r.names : d.owner[x] # NoItem => d.owner[x] = i
        /\ d.row[r.entry] # NoItem => d.row[r.entry] = i
      BY <1>1, <2>3, MatchFacts
  <2>6. Kept(d, f, r.entry, clock)
      BY <1>1, <2>2, <2>3, <2>5 DEF Kept
  <2> QED
      BY <2>2, <2>4, <2>6 DEF f
<1> QED
    BY <1>2, <1>3

\* A settled record stays settled while other entries are taken.
LEMMA SettledLasts ==
    ASSUME NEW d \in Databases, NEW f \in Databases, NEW r \in Records, NEW entry, NEW now,
           Settled(d, r, now), Kept(d, f, entry, now), entry # r.entry
    PROVE  Settled(f, r, now)
<1>1. r.entry \in Entries /\ r.names \subseteq Ids /\ NoItem \notin Items
    BY MatchFacts, LibraryAssumption
<1>2. CASE \E i \in Items : (\A x \in r.names : d.owner[x] = i) /\ d.row[r.entry] \in {i, NoItem}
    BY <1>1, <1>2 DEF Settled, Kept
<1>3. ASSUME NEW i \in Matches(d, r), NEW j \in Matches(d, r), i # j,
             d.quarantine[i] = now, d.quarantine[j] = now
      PROVE  Settled(f, r, now)
  <2>1. Matches(d, r) \subseteq Matches(f, r) /\ Matches(d, r) \subseteq Items
      BY <1>1, MatchFacts DEF Kept
  <2>2. f.quarantine[i] = now /\ f.quarantine[j] = now
      BY <1>3, <2>1 DEF Kept
  <2> QED
      BY <1>3, <2>1, <2>2 DEF Settled
<1> QED
    BY <1>2, <1>3 DEF Settled

-------------------------------------------------------------------------------
(***************************************************************************)
(* A batch.                                                                *)
(***************************************************************************)
\* The databases between the records of a batch.
LEMMA BatchSteps ==
    ASSUME NEW d, NEW records \in Seq(Records)
    PROVE  \E after : /\ after[0] = d /\ Ingested(d, records) = after[Len(records)]
                      /\ \A n \in 1..Len(records) : after[n] = Taken(after[n - 1], records[n])
<1> DEFINE N == Len(records)
           Built(g, m) == g = [n \in 0..m |-> IF n = 0 THEN d ELSE Taken(g[n - 1], records[n])]
           Buildable == {m \in 0..N : \E g : Built(g, m)}
           have == [m \in 0..N |-> m]
<1>1. N \in Nat
    OBVIOUS
<1>2. 0 \in Buildable
  <2> DEFINE g == [n \in 0..0 |-> d]
  <2>1. Built(g, 0)
      OBVIOUS
  <2>2. 0 \in 0..N
      BY <1>1
  <2> HIDE DEF Built, g
  <2> QED
      BY <2>1, <2>2
<1>3. ASSUME NEW m \in 1..N, m - 1 \in Buildable
      PROVE  m \in Buildable
  <2>1. PICK g : Built(g, m - 1)
      BY <1>3
  <2> DEFINE h == [n \in 0..m |-> IF n = m THEN Taken(g[m - 1], records[m]) ELSE g[n]]
  <2>2. \A n \in 0..m : h[n] = IF n = 0 THEN d ELSE Taken(h[n - 1], records[n])
    <3>1. \A n \in 0..(m - 1) : g[n] = IF n = 0 THEN d ELSE Taken(g[n - 1], records[n])
        BY <2>1
    <3>2. \A n \in 0..(m - 1) : h[n] = g[n]
        OBVIOUS
    <3>3. h[m] = Taken(g[m - 1], records[m]) /\ m - 1 \in 0..(m - 1) /\ m # 0
        OBVIOUS
    <3> HIDE DEF h
    <3>4. \A n \in 1..(m - 1) : n - 1 \in 0..(m - 1)
        OBVIOUS
    <3> QED
        BY <3>1, <3>2, <3>3, <3>4
  <2>3. h = [n \in 0..m |-> h[n]]
      OBVIOUS
  <2>4. Built(h, m)
    <3> HIDE DEF h
    <3> QED
        BY <2>2, <2>3
  <2> HIDE DEF Built
  <2> QED
      BY <1>1, <2>4
<1>4. N \in Buildable
  <2> HIDE DEF Buildable
  <2>1. \A n \in (0 + 1)..N : have[n - 1] \in Buildable => have[n] \in Buildable
      BY <1>1, <1>3
  <2>2. have[0] \in Buildable
      BY <1>1, <1>2
  <2>3. have[N] \in Buildable
    <3> HIDE DEF have
    <3> QED
        BY <1>1, <2>1, <2>2, Along
  <2> QED
      BY <1>1, <2>3
<1> DEFINE after == CHOOSE g : Built(g, N)
<1>5. Built(after, N)
  <2> HIDE DEF Built
  <2>1. \E g : Built(g, N)
      BY <1>4
  <2> QED
      BY <2>1
<1>6. Ingested(d, records) = after[N]
    BY DEF Ingested
<1> HIDE DEF after
<1> QED
    BY <1>1, <1>5, <1>6

LEMMA BatchFacts ==
    ASSUME NEW d \in Consistent, NEW records \in Seq(Records), clock \in Nat
    PROVE  /\ Ingested(d, records) \in Consistent
           /\ \A i \in Items : \/ Ingested(d, records).quarantine[i] = d.quarantine[i]
                               \/ Ingested(d, records).quarantine[i] = clock
           /\ \A e \in Entries : d.listed[e] => Ingested(d, records).listed[e] \/ e \in Found
           /\ \A r \in Records : (/\ Settled(d, r, clock)
                                  /\ \A n \in 1..Len(records) : records[n].entry # r.entry)
                                   => Settled(Ingested(d, records), r, clock)
           /\ \A k \in 1..Len(records) :
                (\A n \in 1..Len(records) : n # k => records[n].entry # records[k].entry)
                  => Settled(Ingested(d, records), records[k], clock)
<1>1. PICK after : /\ after[0] = d /\ Ingested(d, records) = after[Len(records)]
                   /\ \A n \in 1..Len(records) : after[n] = Taken(after[n - 1], records[n])
    BY BatchSteps
<1>2. Len(records) \in Nat /\ \A n \in 1..Len(records) : records[n] \in Records
    OBVIOUS
<1>3. \A n \in 1..Len(records) : after[n - 1] \in Consistent =>
         /\ after[n] \in Consistent
         /\ Kept(after[n - 1], after[n], records[n].entry, clock)
         /\ Settled(after[n], records[n], clock)
    BY <1>1, <1>2, TakenFacts
<1>4. Consistent \subseteq Databases
    BY DEF Consistent
<1>5. after[Len(records)] \in Consistent
  <2>1. \A n \in (0 + 1)..Len(records) : after[n - 1] \in Consistent => after[n] \in Consistent
      BY <1>2, <1>3
  <2> QED
      BY <1>1, <1>2, <2>1, Along
<1>6. ASSUME NEW i \in Items
      PROVE  \/ after[Len(records)].quarantine[i] = d.quarantine[i]
             \/ after[Len(records)].quarantine[i] = clock
  <2> DEFINE S == {f \in Consistent : f.quarantine[i] = d.quarantine[i] \/ f.quarantine[i] = clock}
  <2>1. \A n \in (0 + 1)..Len(records) : after[n - 1] \in S => after[n] \in S
      BY <1>2, <1>3 DEF Kept
  <2>2. after[0] \in S
      BY <1>1
  <2>3. after[Len(records)] \in S
    <3> HIDE DEF S
    <3> QED
        BY <1>2, <2>1, <2>2, Along
  <2> QED
      BY <2>3
<1>7. ASSUME NEW e \in Entries, d.listed[e], e \notin Found
      PROVE  after[Len(records)].listed[e]
  <2> DEFINE S == {f \in Consistent : f.listed[e]}
  <2>1. \A n \in (0 + 1)..Len(records) : after[n - 1] \in S => after[n] \in S
      BY <1>2, <1>3, <1>7 DEF Kept
  <2>2. after[0] \in S
      BY <1>1, <1>7
  <2>3. after[Len(records)] \in S
    <3> HIDE DEF S
    <3> QED
        BY <1>2, <2>1, <2>2, Along
  <2> QED
      BY <2>3
<1>8. ASSUME NEW r \in Records, NEW first \in 0..Len(records),
             after[first] \in Consistent, Settled(after[first], r, clock),
             \A n \in (first + 1)..Len(records) : records[n].entry # r.entry
      PROVE  Settled(after[Len(records)], r, clock)
  <2> DEFINE S == {f \in Consistent : Settled(f, r, clock)}
  <2>1. \A n \in (first + 1)..Len(records) : after[n - 1] \in S => after[n] \in S
      BY <1>2, <1>3, <1>4, <1>8, SettledLasts
  <2>2. after[first] \in S
      BY <1>8
  <2>3. after[Len(records)] \in S
    <3> HIDE DEF S
    <3> QED
        BY <1>2, <2>1, <2>2, Along
  <2> QED
      BY <2>3
<1>9. ASSUME NEW k \in 1..Len(records),
             \A n \in 1..Len(records) : n # k => records[n].entry # records[k].entry
      PROVE  Settled(after[Len(records)], records[k], clock)
  <2>1. after[k - 1] \in Consistent
    <3>1. \A n \in (0 + 1)..(k - 1) : after[n - 1] \in Consistent => after[n] \in Consistent
        BY <1>2, <1>3
    <3> QED
        BY <1>1, <1>2, <3>1, Along
  <2>2. after[k] \in Consistent /\ Settled(after[k], records[k], clock)
      BY <2>1, <1>3
  <2> QED
      BY <1>2, <1>8, <1>9, <2>2
<1> QED
    BY <1>1, <1>2, <1>5, <1>6, <1>7, <1>8, <1>9

LEMMA GivenUpFacts ==
    ASSUME NEW d \in Consistent, NEW s \in Sides, NEW seen
    PROVE  /\ GivenUp(d, s, seen) \in Consistent
           /\ GivenUp(d, s, seen).owner = d.owner /\ GivenUp(d, s, seen).quarantine = d.quarantine
           /\ \A e \in Entries : d.listed[e] /\ ~GivenUp(d, s, seen).listed[e]
                                    => e \in EntriesOf(s) \ seen
           /\ \A e \in Entries : GivenUp(d, s, seen).row[e] = d.row[e] \/ e \in EntriesOf(s) \ seen
<1> DEFINE gone == {e \in EntriesOf(s) \ seen :
                       d.listed[e] /\ (s = "seerr" => d.quarantine[d.row[e]] = 0)}
           listings == [e \in Entries |-> d.listed[e] /\ e \notin gone]
           rows == [e \in Entries |-> IF s = "seerr" /\ e \in gone THEN NoItem ELSE d.row[e]]
           f == [d EXCEPT !.listed = listings, !.row = rows]
           affected == {d.row[e] : e \in gone}
<1>1. d \in Databases
    BY DEF Consistent
<1>2. GivenUp(d, s, seen) = Refreshed(f, affected)
    BY DEF GivenUp
<1>3. f \in Databases
  <2>1. listings \in [Entries -> BOOLEAN] /\ rows \in [Entries -> Items \cup {NoItem}]
      BY <1>1 DEF Databases
  <2> HIDE DEF listings, rows
  <2> QED
      BY <2>1, <1>1 DEF Databases
<1>4. /\ f.owner = d.owner /\ f.quarantine = d.quarantine /\ f.index = d.index /\ f.title = d.title
      /\ f.listed = listings /\ f.row = rows
    BY <1>1 DEF Databases
<1>5. gone \subseteq EntriesOf(s) \ seen
    OBVIOUS
<1>6. \A e \in Entries : f.listed[e] <=> (d.listed[e] /\ e \notin gone)
    BY <1>1, <1>4 DEF Databases
<1>7. \A e \in Entries : f.row[e] = IF s = "seerr" /\ e \in gone THEN NoItem ELSE d.row[e]
    BY <1>4
<1> HIDE DEF f, gone
<1>8. \A e \in Entries : f.listed[e] => f.row[e] \in Items
    BY <1>6, <1>7 DEF Consistent
<1>9. \A i \in Items \ affected : f.index[i] = Projection(f, i)
  <2>1. \A i \in Items \ affected : RowsOf(f, i) = RowsOf(d, i)
      BY <1>6, <1>7, LibraryAssumption DEF RowsOf
  <2>2. \A i \in Items \ affected : Projection(f, i) = Projection(d, i)
      BY <2>1, <1>4 DEF Projection
  <2> QED
      BY <2>2, <1>4 DEF Consistent
<1> HIDE DEF affected
<1> QED
    BY <1>2, <1>3, <1>4, <1>5, <1>6, <1>7, <1>8, <1>9, RefreshFacts

LEMMA ReleasedFacts ==
    ASSUME NEW d \in Consistent
    PROVE  /\ Released(d) \in Consistent /\ Released(d).listed = d.listed
           /\ \A i \in Items : Released(d).quarantine[i] = IF i \in Stale(d) THEN 0 ELSE d.quarantine[i]
<1> DEFINE marks == [i \in Items |-> IF i \in Stale(d) THEN 0 ELSE d.quarantine[i]]
           f == [d EXCEPT !.quarantine = marks]
<1>1. d \in Databases
    BY DEF Consistent
<1>2. f = [owner |-> d.owner, row |-> d.row, listed |-> d.listed, title |-> d.title,
           quarantine |-> marks, index |-> d.index]
    BY <1>1 DEF Databases
<1>3. marks \in [Items -> Nat]
    BY <1>1 DEF Databases
<1>4. f \in Databases
    BY <1>1, <1>2, <1>3 DEF Databases
<1>5. \A e \in Entries : f.listed[e] => f.row[e] \in Items
    BY <1>2 DEF Consistent
<1>6. \A i \in Items \ Stale(d) : f.index[i] = Projection(f, i)
  <2>1. \A i \in Items : RowsOf(f, i) = RowsOf(d, i)
      BY <1>2 DEF RowsOf
  <2>2. \A i \in Items \ Stale(d) : Projection(f, i) = Projection(d, i)
      BY <2>1, <1>2 DEF Projection
  <2> QED
      BY <2>2, <1>2 DEF Consistent
<1>7. Released(d) = Refreshed(f, Stale(d))
    BY DEF Released
<1> HIDE DEF f
<1> QED
    BY <1>2, <1>4, <1>5, <1>6, <1>7, RefreshFacts

\* What a snapshot has settled outlives the finalization of a side.
LEMMA SettledIsKept ==
    ASSUME NEW d \in Consistent, NEW r \in Records, NEW s \in Sides, NEW seen, NEW now,
           Settled(d, r, now), r.entry \notin EntriesOf(s) \ seen
    PROVE  Settled(GivenUp(d, s, seen), r, now)
<1>1. r.entry \in Entries
    BY DEF Records
<1>2. /\ GivenUp(d, s, seen).owner = d.owner /\ GivenUp(d, s, seen).quarantine = d.quarantine
      /\ GivenUp(d, s, seen).row[r.entry] = d.row[r.entry]
    BY <1>1, GivenUpFacts
<1> QED
    BY <1>2 DEF Settled, Matches

-------------------------------------------------------------------------------
(***************************************************************************)
(* The inductive invariant of a run.                                       *)
(***************************************************************************)
Plans == {<<>>, <<"plex", "seerr">>, <<"plex">>, <<"seerr">>}
NamesOf(e) == [entry |-> e, names |-> names[e]]
Seen == {snapshot[k].entry : k \in DOMAIN snapshot}

LibraryTypeOK ==
    /\ lists \in [Sides -> Seq(Entries)]
    /\ names \in [Entries -> (SUBSET Ids) \ {{}}]
    /\ db \in Consistent
    /\ clock \in Nat \ {0} /\ todo \in Plans /\ both \in BOOLEAN
    /\ phase \in {"idle", "reading", "ingesting", "clearing"}
    /\ total \in Nat \cup {NoTotal} /\ snapshot \in Seq(Records) /\ next \in 0..Len(snapshot)
    /\ {added, removed, corrected} \subseteq SUBSET Entries /\ changes \in Nat

\* What the phases of a run hold.
Staged ==
    /\ phase \in {"idle", "clearing"} <=> todo = <<>>
    /\ phase \in {"idle", "clearing"} => total = NoTotal
    /\ phase # "ingesting" => next = 0
    /\ phase = "ingesting" => total = Len(snapshot)
    /\ total = NoTotal => snapshot = <<>>

\* Upstream lists an entry once, in the list of its side.
Listed == \A s \in Sides : \A m, n \in DOMAIN lists[s] :
    lists[s][m] \in EntriesOf(s) /\ (lists[s][m] = lists[s][n] => m = n)

\* The snapshot has the side's entries once each, with the names they still have
\* unless they were corrected.
Snapped ==
    /\ \A k \in DOMAIN snapshot : snapshot[k].entry \in EntriesOf(side)
    /\ \A k, m \in DOMAIN snapshot : snapshot[k].entry = snapshot[m].entry => k = m
    /\ \A k \in DOMAIN snapshot :
         snapshot[k].entry \notin corrected => snapshot[k] = NamesOf(snapshot[k].entry)

Fits == \A k \in DOMAIN snapshot : k \in DOMAIN lists[side] /\ snapshot[k].entry = lists[side][k]

\* While pages are read, a list that entries only leave is no longer than at the
\* first page, one that they only join no shorter; as long as before, it is the same.
Paged ==
    (phase = "reading" /\ total # NoTotal) =>
        /\ added \cap EntriesOf(side) = {} =>
             Len(lists[side]) <= total /\ (Len(lists[side]) = total => Fits)
        /\ removed \cap EntriesOf(side) = {} =>
             Len(lists[side]) >= total /\ (Len(lists[side]) = total => Fits)

\* A complete snapshot has every entry that was listed throughout.
Complete == (phase = "ingesting" /\ ~Skewed(side)) => Throughout(side) \subseteq Seen

\* The records ingested are settled, and so are the entries of the sides done.
Ingesting == \A k \in 1..next : Settled(db, snapshot[k], clock)
SidesDone ==
    (phase # "idle" /\ both) =>
        \A s \in Sides \ ToSet(todo) : ~Skewed(s) =>
            \A e \in Throughout(s) \ corrected : Settled(db, NamesOf(e), clock)

LibraryInv ==
    /\ LibraryTypeOK /\ Staged /\ Listed /\ Snapped /\ Paged /\ Complete /\ Ingesting /\ SidesDone

-------------------------------------------------------------------------------
(***************************************************************************)
(* Sequences.                                                              *)
(***************************************************************************)
LEMMA MinMaxFacts ==
    ASSUME NEW m \in Int, NEW n \in Int
    PROVE  /\ Min({m, n}) = IF m <= n THEN m ELSE n
           /\ Max({m, n}) = IF m <= n THEN n ELSE m
    BY DEF Min, Max

LEMMA JoinFacts ==
    ASSUME NEW S, NEW s \in Seq(S), NEW t \in Seq(S)
    PROVE  /\ s \o t \in Seq(S) /\ Len(s \o t) = Len(s) + Len(t)
           /\ \A k \in 1..(Len(s) + Len(t)) : (s \o t)[k] = IF k <= Len(s) THEN s[k] ELSE t[k - Len(s)]
    OBVIOUS

IsInsertion(longer, list, n, e) ==
    /\ Len(longer) = Len(list) + 1
    /\ \A k \in 1..(Len(list) + 1) :
         longer[k] = IF k < n THEN list[k] ELSE IF k = n THEN e ELSE list[k - 1]

LEMMA InsertFacts ==
    ASSUME NEW S, NEW list \in Seq(S), NEW n \in 1..(Len(list) + 1), NEW e \in S
    PROVE  InsertAt(list, n, e) \in Seq(S) /\ IsInsertion(InsertAt(list, n, e), list, n, e)
<1> DEFINE before == SubSeq(list, 1, n - 1)
           after  == SubSeq(list, n, Len(list))
<1>1. before \in Seq(S) /\ Len(before) = n - 1 /\ \A k \in 1..(n - 1) : before[k] = list[k]
    OBVIOUS
<1>2. /\ after \in Seq(S) /\ Len(after) = Len(list) - n + 1
      /\ \A k \in 1..(Len(list) - n + 1) : after[k] = list[n + k - 1]
    OBVIOUS
<1> HIDE DEF before, after
<1>3. /\ before \o <<e>> \in Seq(S) /\ Len(before \o <<e>>) = n
      /\ \A k \in 1..n : (before \o <<e>>)[k] = IF k < n THEN list[k] ELSE e
    BY <1>1
<1>4. InsertAt(list, n, e) = (before \o <<e>>) \o after
    BY DEF InsertAt, before, after
<1> DEFINE front == before \o <<e>>
<1> HIDE DEF front
<1>5. front \in Seq(S) /\ Len(front) = n /\ \A k \in 1..n : front[k] = IF k < n THEN list[k] ELSE e
    BY <1>3 DEF front
<1>6. InsertAt(list, n, e) = front \o after
    BY <1>4 DEF front
<1>7. /\ front \o after \in Seq(S) /\ Len(front \o after) = Len(front) + Len(after)
      /\ \A k \in 1..(Len(front) + Len(after)) :
           (front \o after)[k] = IF k <= Len(front) THEN front[k] ELSE after[k - Len(front)]
    BY <1>2, <1>5, JoinFacts
<1>8. /\ n \in Nat /\ n >= 1 /\ n <= Len(list) + 1 /\ Len(list) \in Nat
      /\ Len(front) + Len(after) = Len(list) + 1
    BY <1>2, <1>5
<1>9. ASSUME NEW k \in 1..(Len(list) + 1)
      PROVE  (front \o after)[k] = IF k < n THEN list[k] ELSE IF k = n THEN e ELSE list[k - 1]
  <2>1. CASE k <= n
      BY <2>1, <1>5, <1>7, <1>8
  <2>2. CASE k > n
    <3>1. (front \o after)[k] = after[k - n] /\ k - n \in 1..(Len(list) - n + 1)
        BY <2>2, <1>5, <1>7, <1>8
    <3>2. n + (k - n) - 1 = k - 1
        BY <1>8
    <3> QED
        BY <2>2, <3>1, <3>2, <1>2, <1>8
  <2> QED
      BY <2>1, <2>2, <1>8
<1> QED
    BY <1>6, <1>7, <1>8, <1>9 DEF IsInsertion

LEMMA RemoveFacts ==
    ASSUME NEW S, NEW list \in Seq(S), NEW n \in DOMAIN list
    PROVE  /\ RemoveAt(list, n) \in Seq(S)
           /\ Len(RemoveAt(list, n)) = Len(list) - 1
           /\ \A k \in 1..(Len(list) - 1) : RemoveAt(list, n)[k] = IF k < n THEN list[k] ELSE list[k + 1]
<1> DEFINE before == SubSeq(list, 1, n - 1)
           after  == SubSeq(list, n + 1, Len(list))
<1>1. before \in Seq(S) /\ Len(before) = n - 1 /\ \A k \in 1..(n - 1) : before[k] = list[k]
    OBVIOUS
<1>2. /\ after \in Seq(S) /\ Len(after) = Len(list) - n
      /\ \A k \in 1..(Len(list) - n) : after[k] = list[n + k]
    OBVIOUS
<1>3. RemoveAt(list, n) = before \o after
    BY DEF RemoveAt
<1> HIDE DEF before, after
<1> QED
    BY <1>1, <1>2, <1>3

LEMMA PartFacts ==
    ASSUME NEW S, NEW list \in Seq(S), NEW m \in Nat, NEW n \in Nat, m <= n, n <= Len(list)
    PROVE  /\ SubSeq(list, m + 1, n) \in Seq(S) /\ Len(SubSeq(list, m + 1, n)) = n - m
           /\ \A k \in 1..(n - m) : SubSeq(list, m + 1, n)[k] = list[m + k] /\ m + k \in DOMAIN list
<1>1. /\ SubSeq(list, m + 1, n) \in Seq(S) /\ Len(SubSeq(list, m + 1, n)) = n - m
      /\ \A k \in 1..(n - m) : SubSeq(list, m + 1, n)[k] = list[(m + 1) + k - 1]
    OBVIOUS
<1>2. \A k \in 1..(n - m) : (m + 1) + k - 1 = m + k /\ m + k \in DOMAIN list
    OBVIOUS
<1> QED
    BY <1>1, <1>2

LEMMA PageFacts ==
    ASSUME LibraryTypeOK, todo # <<>>
    PROVE  /\ side \in Sides /\ lists[side] \in Seq(Entries)
           /\ Page \in Seq(Records)
           /\ Len(snapshot) <= Len(lists[side]) => Len(snapshot) + Len(Page) <= Len(lists[side])
           /\ Len(snapshot) >= Len(lists[side]) => Page = <<>>
           /\ \A k \in 1..Len(Page) : /\ Len(snapshot) + k \in DOMAIN lists[side]
                                      /\ Page[k] = NamesOf(lists[side][Len(snapshot) + k])
<1>1. side \in Sides /\ lists[side] \in Seq(Entries) /\ names \in [Entries -> (SUBSET Ids) \ {{}}]
      /\ Len(snapshot) \in Nat /\ Len(lists[side]) \in Nat
    BY DEF LibraryTypeOK, side, Sides, Plans
<1> DEFINE size == Min({PageSize, Max({0, Len(lists[side]) - (Len(snapshot) + 1) + 1})})
<1>2. /\ size \in Nat
      /\ Len(snapshot) <= Len(lists[side]) => Len(snapshot) + size <= Len(lists[side])
      /\ Len(snapshot) >= Len(lists[side]) => size = 0
      /\ \A k \in 1..size : Len(snapshot) + k \in 1..Len(lists[side])
  <2> DEFINE rest == Len(lists[side]) - (Len(snapshot) + 1) + 1
             top  == Max({0, rest})
  <2>1. rest \in Int /\ rest = Len(lists[side]) - Len(snapshot)
      BY <1>1
  <2> HIDE DEF rest
  <2>2. top = IF 0 <= rest THEN rest ELSE 0
      BY <2>1 DEF Max
  <2>3. top \in Nat /\ PageSize \in Nat
      BY <2>1, <2>2, LibraryAssumption
  <2> HIDE DEF top
  <2>4. size = IF PageSize <= top THEN PageSize ELSE top
      BY <2>3, MinMaxFacts DEF top, rest
  <2> HIDE DEF size
  <2> QED
      BY <1>1, <2>1, <2>2, <2>3, <2>4
<1>3. Page = [k \in 1..size |-> [entry |-> lists[side][(Len(snapshot) + 1) + k - 1],
                                 names |-> names[lists[side][(Len(snapshot) + 1) + k - 1]]]]
    BY DEF Page
<1> HIDE DEF size
<1>4. \A k \in 1..size : /\ (Len(snapshot) + 1) + k - 1 = Len(snapshot) + k
                         /\ lists[side][Len(snapshot) + k] \in Entries
    BY <1>1, <1>2
<1>5. \A k \in 1..size : Page[k] = NamesOf(lists[side][Len(snapshot) + k])
    BY <1>3, <1>4 DEF NamesOf
<1>6. \A k \in 1..size : Page[k] \in Records
  <2>1. \A e \in Entries : NamesOf(e) \in Records
      BY <1>1 DEF NamesOf, Records
  <2> QED
      BY <1>4, <1>5, <2>1
<1>7. Page \in Seq(Records) /\ Len(Page) = size
  <2>1. DOMAIN Page = 1..size /\ Page = [k \in 1..size |-> Page[k]]
      BY <1>3
  <2>2. Page \in [1..size -> Records]
      BY <1>6, <2>1
  <2> QED
      BY <1>2, <2>1, <2>2
<1> QED
    BY <1>1, <1>2, <1>5, <1>7

-------------------------------------------------------------------------------
LEMMA LibraryInit == Init => LibraryInv
<1> SUFFICES ASSUME Init PROVE LibraryInv
    OBVIOUS
<1>1. \A s \in Sides : lists[s] \in Seq(Entries)
  <2>1. ASSUME NEW s \in Sides PROVE lists[s] \in Seq(Entries)
    <3>1. \/ lists[s] = <<>>
          \/ \E e \in Entries : lists[s] = <<e>>
          \/ \E e, f \in Entries : lists[s] = <<e, f>>
        BY DEF Init
    <3>2. \A e, f \in Entries : <<e>> \in Seq(Entries) /\ <<e, f>> \in Seq(Entries)
        OBVIOUS
    <3>3. <<>> \in Seq(Entries)
        OBVIOUS
    <3> QED
        BY <3>1, <3>2, <3>3
  <2> QED
      BY <2>1
<1>2. lists \in [Sides -> Seq(Entries)]
    BY <1>1 DEF Init
<1>3. Listed
    BY <1>1 DEF Init, Listed, IsInjective, ToSet
<1>4. db \in Consistent
  <2>1. db \in Databases
      BY DEF Init, Databases, Titles, Groups
  <2>2. \A i \in Items : db.index[i] = Projection(db, i)
      BY DEF Init, Projection
  <2> QED
      BY <2>1, <2>2 DEF Init, Consistent
<1>5. names \in [Entries -> (SUBSET Ids) \ {{}}]
    BY LibraryAssumption DEF Init
<1>6. LibraryTypeOK
  <2>1. {added, removed, corrected} \subseteq SUBSET Entries
      BY DEF Init
  <2>2. snapshot = <<>> /\ snapshot \in Seq(Records) /\ Len(snapshot) = 0
      BY DEF Init
  <2>3. /\ next \in 0..Len(snapshot) /\ clock \in Nat \ {0} /\ changes \in Nat
        /\ total \in Nat \cup {NoTotal} /\ todo \in Plans /\ both \in BOOLEAN
        /\ phase \in {"idle", "reading", "ingesting", "clearing"}
    <3>1. next = 0 /\ clock = 1 /\ changes = 0 /\ total = NoTotal /\ todo = <<>> /\ both = FALSE
          /\ phase = "idle"
        BY DEF Init
    <3>2. <<>> \in Plans
        BY DEF Plans
    <3>3. 0 \in 0..Len(snapshot)
        BY <2>2
    <3>4. clock \in Nat \ {0} /\ changes \in Nat /\ next \in 0..Len(snapshot)
        BY <3>1, <3>3
    <3> QED
        BY <3>1, <3>2, <3>4
  <2> QED
      BY <1>2, <1>4, <1>5, <2>1, <2>2, <2>3 DEF LibraryTypeOK
<1>7. Staged /\ Snapped /\ Paged /\ Complete /\ Ingesting /\ SidesDone
    BY DEF Init, Staged, Snapped, Paged, Complete, Ingesting, SidesDone
<1> QED
    BY <1>3, <1>6, <1>7 DEF LibraryInv

LEMMA StartStep ==
    ASSUME LibraryInv, NEW order \in {<<"plex", "seerr">>, <<"plex">>, <<"seerr">>}, Start(order)
    PROVE  LibraryInv'
<1> USE DEF LibraryInv, Start, upstream, reading
<1>1. LibraryTypeOK'
  <2>1. {added, removed, corrected}' \subseteq SUBSET Entries
    <3>1. added' = {} /\ removed' = {} /\ corrected' = {}
        OBVIOUS
    <3> QED
        BY <3>1
  <2>2. order \in Plans /\ (Len(order) = 2) \in BOOLEAN
      BY DEF Plans
  <2> QED
      BY <2>1, <2>2 DEF LibraryTypeOK
<1>2. Staged'
    BY DEF Staged
<1>3. Listed'
    BY DEF Listed
<1>4. snapshot' = <<>> /\ total' = NoTotal /\ next' = 0
    BY DEF Staged
<1>5. Snapped' /\ Paged' /\ Complete' /\ Ingesting'
    BY <1>4 DEF Snapped, Paged, Complete, Ingesting
<1>6. SidesDone'
  <2>1. both' => order = <<"plex", "seerr">>
    <3>1. Len(<<"plex">>) = 1 /\ Len(<<"seerr">>) = 1 /\ (both' <=> Len(order) = 2)
        OBVIOUS
    <3> QED
        BY <3>1
  <2>2. ToSet(<<"plex", "seerr">>) = Sides
      BY DEF ToSet, Sides
  <2> QED
      BY <2>1, <2>2 DEF SidesDone
<1> QED
    BY <1>1, <1>2, <1>3, <1>5, <1>6

LEMMA AbortStep ==
    ASSUME LibraryInv, Abort
    PROVE  LibraryInv'
<1> USE DEF LibraryInv, Abort, Reset, upstream
<1>1. LibraryTypeOK'
  <2>1. {added, removed, corrected}' \subseteq SUBSET Entries
      BY DEF LibraryTypeOK
  <2> QED
      BY <2>1 DEF LibraryTypeOK, Plans
<1>2. Staged' /\ Listed' /\ Snapped' /\ Paged' /\ Complete' /\ Ingesting' /\ SidesDone'
    BY DEF Staged, Listed, Snapped, Paged, Complete, Ingesting, SidesDone
<1> QED
    BY <1>1, <1>2

LEMMA FinishStep ==
    ASSUME LibraryInv, Finish
    PROVE  LibraryInv'
<1> USE DEF LibraryInv, Finish, reading, upstream
<1>1. db' \in Consistent
    BY ReleasedFacts DEF LibraryTypeOK
<1>2. LibraryTypeOK'
  <2>1. {added, removed, corrected}' \subseteq SUBSET Entries
      BY DEF LibraryTypeOK
  <2> QED
      BY <1>1, <2>1 DEF LibraryTypeOK
<1>3. snapshot = <<>> /\ next = 0
    BY DEF Staged
<1>4. Staged' /\ Listed' /\ Snapped' /\ Paged' /\ Complete' /\ Ingesting' /\ SidesDone'
    BY <1>3 DEF Staged, Listed, Snapped, Paged, Complete, Ingesting, SidesDone
<1> QED
    BY <1>2, <1>4

LEMMA FoundStep ==
    ASSUME LibraryInv, NEW e \in Entries, IngestFound(e)
    PROVE  LibraryInv'
<1> USE DEF LibraryInv, IngestFound, reading, upstream
<1>1. e \in Found /\ names[e] \in (SUBSET Ids) \ {{}} /\ db \in Consistent /\ clock \in Nat
    BY DEF LibraryTypeOK
<1>2. NamesOf(e) \in Records /\ NamesOf(e).entry = e
    BY <1>1 DEF NamesOf, Records
<1> DEFINE records == <<NamesOf(e)>>
<1>3. records \in Seq(Records) /\ Len(records) = 1 /\ \A n \in 1..Len(records) : records[n].entry = e
    BY <1>2
<1>4. db' = Ingested(db, records)
    BY DEF NamesOf
<1> HIDE DEF records
<1>5. db' \in Consistent
    BY <1>1, <1>3, <1>4, BatchFacts
<1>6. \A r \in Records : Settled(db, r, clock) /\ r.entry \notin Found => Settled(db', r, clock)
    BY <1>1, <1>3, <1>4, BatchFacts
<1>7. LibraryTypeOK'
  <2>1. {added, removed, corrected}' \subseteq SUBSET Entries
      BY DEF LibraryTypeOK
  <2> QED
      BY <1>5, <2>1 DEF LibraryTypeOK
<1>8. \A s \in Sides : EntriesOf(s) \cap Found = {}
    BY LibraryAssumption DEF EntriesOf, Sides
<1>9. Ingesting'
  <2>1. \A k \in 1..next : k \in DOMAIN snapshot /\ snapshot[k] \in Records
      BY DEF LibraryTypeOK
  <2>2. \A k \in 1..next : snapshot[k].entry \notin Found
    <3>1. next # 0 => side \in Sides
        BY DEF Staged, LibraryTypeOK, side, Plans, Sides
    <3> QED
        BY <3>1, <2>1, <1>8 DEF Snapped, LibraryTypeOK
  <2> QED
      BY <1>6, <2>1, <2>2 DEF Ingesting
<1>10. SidesDone'
  <2>1. \A s \in Sides : \A f \in Throughout(s) : f \in EntriesOf(s) /\ f \in Entries
      BY DEF Throughout, Listed, LibraryTypeOK, ToSet
  <2>2. \A f \in Entries : NamesOf(f) \in Records /\ NamesOf(f).entry = f
      BY DEF NamesOf, Records, LibraryTypeOK
  <2> QED
      BY <1>6, <1>8, <2>1, <2>2 DEF SidesDone, Throughout, Skewed, NamesOf
<1>11. Staged' /\ Listed' /\ Snapped' /\ Paged' /\ Complete'
    BY DEF Staged, Listed, Snapped, Paged, Complete, Fits, Seen, side, Throughout, Skewed, NamesOf
<1> QED
    BY <1>7, <1>9, <1>10, <1>11

LEMMA ReadStep ==
    ASSUME LibraryInv, ReadPage
    PROVE  LibraryInv'
<1> USE DEF LibraryInv, ReadPage, upstream
<1>1. todo # <<>> /\ side \in Sides /\ lists[side] \in Seq(Entries)
    BY PageFacts DEF Staged
<1>2. /\ Page \in Seq(Records)
      /\ \A k \in 1..Len(Page) : /\ Len(snapshot) + k \in DOMAIN lists[side]
                                 /\ Page[k] = NamesOf(lists[side][Len(snapshot) + k])
      /\ Len(snapshot) <= Len(lists[side]) => Len(snapshot) + Len(Page) <= Len(lists[side])
    BY <1>1, PageFacts
<1>3. snapshot \in Seq(Records) /\ Len(snapshot) \in Nat /\ Len(Page) \in Nat /\ Len(lists[side]) \in Nat
    BY <1>1, <1>2 DEF LibraryTypeOK
<1>4. /\ snapshot' \in Seq(Records) /\ Len(snapshot') = Len(snapshot) + Len(Page)
      /\ DOMAIN snapshot' = 1..(Len(snapshot) + Len(Page))
      /\ \A k \in 1..Len(snapshot) : snapshot'[k] = snapshot[k]
      /\ \A k \in 1..Len(Page) : snapshot'[Len(snapshot) + k] = Page[k]
      /\ \A k \in DOMAIN snapshot' : \/ k \in 1..Len(snapshot)
                                     \/ \E m \in 1..Len(Page) : k = Len(snapshot) + m
  <2>1. /\ snapshot' \in Seq(Records) /\ Len(snapshot') = Len(snapshot) + Len(Page)
        /\ \A k \in 1..(Len(snapshot) + Len(Page)) :
             snapshot'[k] = IF k <= Len(snapshot) THEN snapshot[k] ELSE Page[k - Len(snapshot)]
      BY <1>2, <1>3, JoinFacts
  <2>2. ASSUME NEW k \in 1..(Len(snapshot) + Len(Page))
        PROVE  k \in 1..Len(snapshot) \/ \E m \in 1..Len(Page) : k = Len(snapshot) + m
    <3>1. CASE k > Len(snapshot)
      <4>1. k - Len(snapshot) \in 1..Len(Page) /\ k = Len(snapshot) + (k - Len(snapshot))
          BY <1>3, <3>1
      <4> QED
          BY <4>1
    <3> QED
        BY <1>3, <3>1
  <2>3. DOMAIN snapshot' = 1..(Len(snapshot) + Len(Page))
      BY <2>1
  <2>4. \A k \in 1..Len(Page) : /\ Len(snapshot) + k \in 1..(Len(snapshot) + Len(Page))
                                /\ ~(Len(snapshot) + k <= Len(snapshot))
                                /\ Len(snapshot) + k - Len(snapshot) = k
      BY <1>3
  <2>5. \A k \in 1..Len(snapshot) : k \in 1..(Len(snapshot) + Len(Page)) /\ k <= Len(snapshot)
      BY <1>3
  <2> QED
      BY <2>1, <2>2, <2>3, <2>4, <2>5
<1>5. /\ total' = Len(lists[side]) /\ total \in {NoTotal, Len(lists[side])}
      /\ {r.entry : r \in ToSet(Page)} \cap {r.entry : r \in ToSet(snapshot)} = {}
      /\ Page = <<>> => Len(snapshot) = Len(lists[side])
    BY DEF Sound
<1>6. next = 0 /\ next' = 0 /\ side' = side
    BY DEF Staged, side
<1>7. LibraryTypeOK'
  <2>1. {added, removed, corrected}' \subseteq SUBSET Entries
      BY DEF LibraryTypeOK
  <2>2. next' \in 0..Len(snapshot')
      BY <1>3, <1>4, <1>6
  <2>3. total' \in Nat
      BY <1>3, <1>5
  <2> QED
      BY <1>4, <2>1, <2>2, <2>3 DEF LibraryTypeOK
<1>8. Staged'
    BY <1>1, <1>3, <1>5, <1>6 DEF Staged, NoTotal
<1>9. Listed' /\ Ingesting'
    BY <1>6 DEF Listed, Ingesting
<1>10. Snapped'
  <2> DEFINE upto == Len(snapshot)
             list == lists[side]
  <2>1. \A k \in 1..Len(Page) : /\ Page[k].entry = list[upto + k]
                                /\ Page[k].entry \in EntriesOf(side) /\ Page[k] = NamesOf(Page[k].entry)
    <3>1. \A k \in 1..Len(Page) : upto + k \in DOMAIN list /\ Page[k] = NamesOf(list[upto + k])
        BY <1>2
    <3>2. \A e : NamesOf(e).entry = e
        BY DEF NamesOf
    <3>3. \A n \in DOMAIN list : list[n] \in EntriesOf(side)
        BY <1>1 DEF Listed
    <3> HIDE DEF list, upto
    <3> QED
        BY <3>1, <3>2, <3>3
  <2>2. \A k, m \in 1..Len(Page) : Page[k].entry = Page[m].entry => k = m
    <3>1. ASSUME NEW k \in 1..Len(Page), NEW m \in 1..Len(Page), Page[k].entry = Page[m].entry
          PROVE  k = m
      <4>1. upto + k \in DOMAIN list /\ upto + m \in DOMAIN list /\ list[upto + k] = list[upto + m]
          BY <1>2, <2>1, <3>1
      <4>2. \A n, j \in DOMAIN list : list[n] = list[j] => n = j
          BY <1>1 DEF Listed
      <4>3. upto + k = upto + m
        <5> HIDE DEF list, upto
        <5> QED
            BY <4>1, <4>2
      <4> QED
          BY <1>3, <4>3
    <3> QED
        BY <3>1
  <2>3. \A k \in 1..Len(snapshot), m \in 1..Len(Page) : snapshot[k].entry # Page[m].entry
    <3>1. \A k \in 1..Len(snapshot) : snapshot[k] \in ToSet(snapshot)
        BY <1>3 DEF ToSet
    <3>2. \A m \in 1..Len(Page) : Page[m] \in ToSet(Page)
        BY <1>2 DEF ToSet
    <3> QED
        BY <1>5, <3>1, <3>2
  <2>4. ASSUME NEW k \in DOMAIN snapshot'
        PROVE  /\ snapshot'[k].entry \in EntriesOf(side)
               /\ snapshot'[k].entry \notin corrected => snapshot'[k] = NamesOf(snapshot'[k].entry)
      BY <1>3, <1>4, <2>1 DEF Snapped
  <2>5. ASSUME NEW k \in DOMAIN snapshot', NEW m \in DOMAIN snapshot', snapshot'[k].entry = snapshot'[m].entry
        PROVE  k = m
    <3>1. CASE k \in 1..Len(snapshot) /\ m \in 1..Len(snapshot)
        BY <1>3, <1>4, <2>5, <3>1 DEF Snapped
    <3>2. CASE k \in 1..Len(snapshot) /\ m \notin 1..Len(snapshot)
        BY <1>4, <2>3, <2>5, <3>2
    <3>3. CASE k \notin 1..Len(snapshot) /\ m \in 1..Len(snapshot)
        BY <1>4, <2>3, <2>5, <3>3
    <3>4. CASE k \notin 1..Len(snapshot) /\ m \notin 1..Len(snapshot)
      <4>1. PICK n \in 1..Len(Page) : k = Len(snapshot) + n
          BY <1>4, <3>4
      <4>2. PICK j \in 1..Len(Page) : m = Len(snapshot) + j
          BY <1>4, <3>4
      <4>3. Page[n].entry = Page[j].entry
          BY <1>4, <2>5, <4>1, <4>2
      <4> QED
          BY <2>2, <4>1, <4>2, <4>3
    <3> QED
        BY <3>1, <3>2, <3>3, <3>4
  <2> QED
      BY <1>6, <2>4, <2>5 DEF Snapped, NamesOf
<1>11. Fits => Fits' /\ Len(snapshot) <= Len(lists[side])
  <2> SUFFICES ASSUME Fits PROVE Fits' /\ Len(snapshot) <= Len(lists[side])
      OBVIOUS
  <2>1. \A k \in DOMAIN snapshot' : k \in DOMAIN lists[side] /\ snapshot'[k].entry = lists[side][k]
    <3>1. \A k \in 1..Len(Page) : Page[k].entry = lists[side][Len(snapshot) + k]
      <4>1. \A e : NamesOf(e).entry = e
          BY DEF NamesOf
      <4> QED
          BY <1>2, <4>1
    <3> QED
        BY <1>2, <1>3, <1>4, <3>1 DEF Fits
  <2>2. Len(snapshot) <= Len(lists[side])
    <3>1. CASE snapshot # <<>>
      <4>1. Len(snapshot) \in DOMAIN snapshot
          BY <1>3, <3>1
      <4> QED
          BY <1>1, <1>3, <4>1 DEF Fits
    <3> QED
        BY <1>3, <3>1
  <2> QED
      BY <1>6, <2>1, <2>2 DEF Fits
<1>12. added \cap EntriesOf(side) = {} \/ removed \cap EntriesOf(side) = {} => Fits
  <2>1. CASE total = NoTotal
      BY <2>1 DEF Staged, Fits
  <2>2. CASE total # NoTotal
      BY <2>2, <1>3, <1>5 DEF Paged
  <2> QED
      BY <2>1, <2>2
<1>13. Paged'
    BY <1>3, <1>5, <1>6, <1>11, <1>12 DEF Paged
<1>14. Complete'
  <2> SUFFICES ASSUME phase' = "ingesting", ~Skewed(side), NEW e \in Throughout(side)
               PROVE  e \in Seen'
      BY <1>6 DEF Complete, Throughout, Skewed
  <2>1. Fits' /\ Len(snapshot') = Len(lists[side])
      BY <1>5, <1>11, <1>12 DEF Skewed
  <2>2. PICK k \in DOMAIN lists[side] : lists[side][k] = e
      BY DEF Throughout, ToSet
  <2>3. k \in DOMAIN snapshot'
      BY <1>1, <1>3, <1>4, <2>1
  <2>4. snapshot'[k].entry = e
      BY <1>6, <2>1, <2>2, <2>3 DEF Fits
  <2> QED
      BY <2>3, <2>4 DEF Seen
<1>15. SidesDone'
    BY DEF SidesDone, Throughout, Skewed, NamesOf
<1> QED
    BY <1>7, <1>8, <1>9, <1>10, <1>13, <1>14, <1>15

\* The part of the snapshot that a batch ingests.
LEMMA BatchBounds ==
    ASSUME LibraryInv, IngestBatch
    PROVE  /\ next' \in Nat /\ next < next' /\ next' <= Len(snapshot)
           /\ SubSeq(snapshot, next + 1, next') \in Seq(Records)
           /\ Len(SubSeq(snapshot, next + 1, next')) = next' - next
           /\ \A n \in 1..(next' - next) : /\ SubSeq(snapshot, next + 1, next')[n] = snapshot[next + n]
                                           /\ next + n \in DOMAIN snapshot
<1>1. /\ snapshot \in Seq(Records) /\ Len(snapshot) \in Nat /\ next \in Nat /\ next < Len(snapshot)
      /\ BatchSize \in Nat \ {0} /\ next' = Min({Len(snapshot), next + BatchSize})
    BY LibraryAssumption DEF LibraryInv, LibraryTypeOK, IngestBatch
<1>2. next' \in Nat /\ next < next' /\ next' <= Len(snapshot) /\ next <= next'
    BY <1>1, MinMaxFacts
<1>3. snapshot \in Seq(Records) /\ next \in Nat /\ next' \in Nat /\ next <= next' /\ next' <= Len(snapshot)
    BY <1>1, <1>2
<1>4. /\ SubSeq(snapshot, next + 1, next') \in Seq(Records)
      /\ Len(SubSeq(snapshot, next + 1, next')) = next' - next
      /\ \A n \in 1..(next' - next) : /\ SubSeq(snapshot, next + 1, next')[n] = snapshot[next + n]
                                      /\ next + n \in DOMAIN snapshot
    BY <1>3, PartFacts
<1> QED
    BY <1>2, <1>4

LEMMA BatchStep ==
    ASSUME LibraryInv, IngestBatch
    PROVE  LibraryInv'
<1> USE DEF LibraryInv, IngestBatch, upstream
<1>1. /\ snapshot \in Seq(Records) /\ Len(snapshot) \in Nat /\ next \in Nat
      /\ db \in Consistent /\ clock \in Nat
    BY DEF LibraryTypeOK
<1>2. next' \in Nat /\ next < next' /\ next' <= Len(snapshot)
    BY BatchBounds
<1>3. PICK records : records = SubSeq(snapshot, next + 1, next')
    OBVIOUS
<1>4. /\ records \in Seq(Records) /\ Len(records) = next' - next
      /\ \A n \in 1..(next' - next) : records[n] = snapshot[next + n] /\ next + n \in DOMAIN snapshot
    BY <1>3, BatchBounds
<1>5. db' = Ingested(db, records)
    BY <1>3
<1>6. db' \in Consistent
    BY <1>1, <1>4, <1>5, BatchFacts
<1>7. \A r \in Records : (/\ Settled(db, r, clock)
                          /\ \A n \in 1..Len(records) : records[n].entry # r.entry)
                            => Settled(db', r, clock)
    BY <1>1, <1>4, <1>5, BatchFacts
<1>8. \A k \in 1..Len(records) : Settled(db', records[k], clock)
  <2>1. \A k, n \in 1..Len(records) : records[n].entry = records[k].entry => n = k
    <3>1. ASSUME NEW k \in 1..Len(records), NEW n \in 1..Len(records), records[n].entry = records[k].entry
          PROVE  n = k
      <4>1. next + n = next + k
        <5>1. /\ next + n \in DOMAIN snapshot /\ next + k \in DOMAIN snapshot
              /\ snapshot[next + n].entry = snapshot[next + k].entry
            BY <1>4, <3>1
        <5> QED
            BY <5>1 DEF Snapped
      <4> QED
          BY <1>1, <1>2, <1>4, <4>1
    <3> QED
        BY <3>1
  <2> QED
      BY <1>1, <1>4, <1>5, <2>1, BatchFacts
<1>9. LibraryTypeOK'
  <2>1. {added, removed, corrected}' \subseteq SUBSET Entries
      BY DEF LibraryTypeOK
  <2>2. next' \in 0..Len(snapshot')
      BY <1>1, <1>2
  <2> QED
      BY <1>6, <2>1, <2>2 DEF LibraryTypeOK
<1>10. Ingesting'
  <2>1. ASSUME NEW k \in 1..next' PROVE Settled(db', snapshot[k], clock)
    <3>1. k \in DOMAIN snapshot /\ snapshot[k] \in Records
        BY <1>1, <1>2
    <3>2. CASE k <= next
      <4>1. \A n \in 1..Len(records) : records[n].entry # snapshot[k].entry
        <5>1. ASSUME NEW n \in 1..Len(records), records[n].entry = snapshot[k].entry PROVE FALSE
          <6>1. next + n = k
            <7>1. next + n \in DOMAIN snapshot /\ snapshot[next + n].entry = snapshot[k].entry
                BY <1>4, <5>1
            <7> QED
                BY <3>1, <7>1 DEF Snapped
          <6> QED
              BY <1>1, <1>2, <1>4, <3>2, <6>1
        <5> QED
            BY <5>1
      <4>2. Settled(db, snapshot[k], clock)
          BY <1>1, <1>2, <3>2 DEF Ingesting
      <4> QED
          BY <1>7, <3>1, <4>1, <4>2
    <3>3. CASE k > next
      <4>1. k - next \in 1..Len(records) /\ next + (k - next) = k
          BY <1>1, <1>2, <1>4, <3>3
      <4>2. records[k - next] = snapshot[k]
          BY <1>4, <4>1
      <4> QED
          BY <1>8, <4>1, <4>2
    <3> QED
        BY <1>1, <1>2, <3>2, <3>3
  <2> QED
      BY <2>1 DEF Ingesting
<1>11. SidesDone'
  <2> SUFFICES ASSUME both, NEW s \in Sides \ ToSet(todo), ~Skewed(s), NEW e \in Throughout(s) \ corrected
               PROVE  Settled(db', NamesOf(e), clock)
      BY DEF SidesDone, Throughout, Skewed, NamesOf
  <2>1. Settled(db, NamesOf(e), clock)
      BY DEF SidesDone
  <2>2. e \in EntriesOf(s) /\ e \in Entries
      BY DEF Throughout, Listed, LibraryTypeOK, ToSet
  <2>3. NamesOf(e) \in Records /\ NamesOf(e).entry = e
      BY <2>2 DEF NamesOf, Records, LibraryTypeOK
  <2>4. side \in ToSet(todo) /\ side \in Sides
      BY DEF Staged, LibraryTypeOK, Plans, side, ToSet, Sides
  <2>5. e \notin EntriesOf(side)
      BY <2>2, <2>4, LibraryAssumption DEF EntriesOf, Sides
  <2>6. \A n \in 1..Len(records) : records[n].entry # e
    <3>1. \A n \in 1..Len(records) : next + n \in DOMAIN snapshot /\ records[n] = snapshot[next + n]
        BY <1>4
    <3>2. \A m \in DOMAIN snapshot : snapshot[m].entry \in EntriesOf(side)
        BY DEF Snapped
    <3> QED
        BY <2>5, <3>1, <3>2
  <2> QED
      BY <1>7, <2>1, <2>3, <2>6
<1>12. Staged' /\ Listed' /\ Snapped' /\ Paged' /\ Complete'
    BY DEF Staged, Listed, Snapped, Paged, Complete, Fits, Seen, side, Throughout, Skewed, NamesOf
<1> QED
    BY <1>9, <1>10, <1>11, <1>12

LEMMA PlanFacts ==
    ASSUME NEW plan \in Plans, plan # <<>>
    PROVE  /\ Head(plan) \in Sides /\ Tail(plan) \in Plans
           /\ ToSet(plan) = {Head(plan)} \cup ToSet(Tail(plan))
<1>1. CASE plan = <<"plex", "seerr">>
  <2>1. Head(plan) = "plex" /\ Tail(plan) = <<"seerr">>
      BY <1>1
  <2>2. ToSet(plan) = {"plex", "seerr"} /\ ToSet(<<"seerr">>) = {"seerr"}
      BY <1>1 DEF ToSet
  <2> QED
      BY <2>1, <2>2 DEF Plans, Sides
<1>2. ASSUME NEW s \in Sides, plan = <<s>>
      PROVE  /\ Head(plan) \in Sides /\ Tail(plan) \in Plans
             /\ ToSet(plan) = {Head(plan)} \cup ToSet(Tail(plan))
  <2>1. Head(plan) = s /\ Tail(plan) = <<>>
      BY <1>2
  <2>2. ToSet(plan) = {s} /\ ToSet(<<>>) = {}
      BY <1>2 DEF ToSet
  <2> QED
      BY <2>1, <2>2 DEF Plans
<1> QED
    BY <1>1, <1>2 DEF Plans, Sides

LEMMA FinalizeStep ==
    ASSUME LibraryInv, Finalize
    PROVE  LibraryInv'
<1> USE DEF LibraryInv, Finalize, Reset, upstream
<1>1. /\ side \in Sides /\ side \in ToSet(todo) /\ todo' \in Plans
      /\ ToSet(todo') \cup {side} = ToSet(todo)
  <2>1. todo # <<>> /\ todo \in Plans /\ todo' = Tail(todo) /\ side = Head(todo)
      BY DEF Staged, LibraryTypeOK, side
  <2> QED
      BY <2>1, PlanFacts
<1>2. snapshot \in Seq(Records) /\ db \in Consistent /\ clock \in Nat
    BY DEF LibraryTypeOK
<1>3. {r.entry : r \in ToSet(snapshot)} = Seen
    BY DEF ToSet, Seen
<1>4. db' = GivenUp(db, side, Seen)
    BY <1>3
<1>5. snapshot' = <<>> /\ total' = NoTotal /\ next' = 0
    OBVIOUS
<1>6. db' \in Consistent
    BY <1>1, <1>2, <1>4, GivenUpFacts
<1>7. LibraryTypeOK'
  <2>1. {added, removed, corrected}' \subseteq SUBSET Entries
      BY DEF LibraryTypeOK
  <2>2. /\ snapshot' \in Seq(Records) /\ next' \in 0..Len(snapshot') /\ total' \in Nat \cup {NoTotal}
        /\ phase' \in {"idle", "reading", "ingesting", "clearing"}
      BY <1>5
  <2> QED
      BY <1>1, <1>6, <2>1, <2>2 DEF LibraryTypeOK
<1>8. Staged' /\ Listed' /\ Snapped' /\ Paged' /\ Complete' /\ Ingesting'
    BY <1>5 DEF Staged, Listed, Snapped, Paged, Complete, Ingesting
<1>9. SidesDone'
  <2> SUFFICES ASSUME both, NEW s \in Sides \ ToSet(todo'), ~Skewed(s), NEW e \in Throughout(s) \ corrected
               PROVE  Settled(db', NamesOf(e), clock)
      BY DEF SidesDone, Throughout, Skewed, NamesOf
  <2>1. e \in EntriesOf(s) /\ e \in Entries
      BY DEF Throughout, Listed, LibraryTypeOK, ToSet
  <2>2. NamesOf(e) \in Records /\ NamesOf(e).entry = e
      BY <2>1 DEF NamesOf, Records, LibraryTypeOK
  <2>3. Settled(db, NamesOf(e), clock) /\ e \notin EntriesOf(side) \ Seen
    <3>1. CASE s = side
      <4>1. e \in Seen
          BY <3>1 DEF Complete
      <4>2. PICK k \in DOMAIN snapshot : snapshot[k].entry = e
          BY <4>1 DEF Seen
      <4>3. snapshot[k] = NamesOf(e)
          BY <4>2 DEF Snapped
      <4>4. k \in 1..next
          BY <1>2, <4>2
      <4> QED
          BY <4>1, <4>3, <4>4 DEF Ingesting
    <3>2. CASE s # side
      <4>1. s \notin ToSet(todo)
          BY <1>1, <3>2
      <4>2. EntriesOf(s) \cap EntriesOf(side) = {}
          BY <1>1, <3>2, LibraryAssumption DEF EntriesOf, Sides
      <4> QED
          BY <2>1, <4>1, <4>2 DEF SidesDone
    <3> QED
        BY <3>1, <3>2
  <2> QED
      BY <1>1, <1>2, <1>4, <2>2, <2>3, SettledIsKept
<1> QED
    BY <1>7, <1>8, <1>9

\* What every change upstream leaves alone.
LEMMA ChangeFrame ==
    ASSUME LibraryInv, NEW e \in Entries, NEW kind \in {"added", "removed", "corrected"}, Changes(e, kind),
           lists' \in [Sides -> Seq(Entries)], names' \in [Entries -> (SUBSET Ids) \ {{}}],
           \A f \in Entries : names'[f] = names[f] \/ (kind = "corrected" /\ f = e),
           \A s \in Sides : \A f \in ToSet(lists'[s]) : f \in ToSet(lists[s]) \/ (kind = "added" /\ f = e)
    PROVE  /\ LibraryTypeOK' /\ Staged' /\ Snapped' /\ Ingesting' /\ Complete' /\ SidesDone'
           /\ side' = side /\ todo' = todo /\ phase' = phase /\ total' = total /\ snapshot' = snapshot
           /\ added \subseteq added' /\ removed \subseteq removed'
<1> USE DEF LibraryInv, Changes, reading
<1>1. LibraryTypeOK'
  <2>1. {added, removed, corrected} \subseteq SUBSET Entries
      BY DEF LibraryTypeOK
  <2>2. {added, removed, corrected}' \subseteq SUBSET Entries
      BY <2>1
  <2>3. changes' \in Nat
      BY DEF LibraryTypeOK
  <2> QED
      BY <2>2, <2>3 DEF LibraryTypeOK
<1>2. Staged' /\ Ingesting'
    BY DEF Staged, Ingesting
<1>3. /\ added \subseteq added' /\ removed \subseteq removed' /\ corrected \subseteq corrected'
      /\ phase # "idle" => /\ kind = "corrected" => e \in corrected'
                           /\ kind = "added" => e \in added'
    OBVIOUS
<1>4. \A f \in Entries : (phase # "idle" /\ f \notin corrected') =>
         NamesOf(f)' = NamesOf(f) /\ f \notin corrected
    BY <1>3 DEF NamesOf
<1>5. side' = side
    BY DEF side
<1>6. \A s \in Sides : phase # "idle" => Throughout(s)' \subseteq Throughout(s)
    BY <1>3 DEF Throughout
<1>7. \A s \in Sides : Skewed(s) => Skewed(s)'
    BY <1>3 DEF Skewed
<1>8. Snapped'
  <2>1. phase = "idle" => snapshot = <<>>
      BY DEF Staged
  <2>2. \A k \in DOMAIN snapshot : snapshot[k].entry \in Entries
    <3>1. \A k \in DOMAIN snapshot : snapshot[k] \in Records
        BY DEF LibraryTypeOK
    <3> QED
        BY <3>1 DEF Records
  <2>3. ASSUME NEW k \in DOMAIN snapshot, snapshot[k].entry \notin corrected'
        PROVE  snapshot[k] = NamesOf(snapshot[k].entry)'
    <3>1. phase # "idle"
        BY <2>1
    <3>2. PICK f \in Entries : f = snapshot[k].entry
        BY <2>2
    <3>3. snapshot[k] = NamesOf(f) /\ NamesOf(f)' = NamesOf(f)
        BY <1>4, <2>3, <3>1, <3>2 DEF Snapped
    <3> QED
        BY <3>2, <3>3
  <2> QED
      BY <1>5, <2>3 DEF Snapped
<1>9. Complete'
  <2>1. phase = "ingesting" => side \in Sides
      BY DEF Staged, LibraryTypeOK, Plans, side, Sides
  <2> QED
      BY <1>5, <1>6, <1>7, <2>1 DEF Complete, Seen
<1>10. SidesDone'
  <2> SUFFICES ASSUME phase # "idle", both, NEW s \in Sides \ ToSet(todo), ~Skewed(s)',
                      NEW f \in Throughout(s)', f \notin corrected'
               PROVE  Settled(db, NamesOf(f)', clock)
      BY DEF SidesDone
  <2>1. f \in Throughout(s) /\ ~Skewed(s)
      BY <1>6, <1>7
  <2>2. f \in Entries
      BY <2>1 DEF Throughout, LibraryTypeOK, ToSet
  <2>3. NamesOf(f)' = NamesOf(f) /\ f \notin corrected
      BY <1>4, <2>2
  <2> QED
      BY <2>1, <2>3 DEF SidesDone
<1> QED
    BY <1>1, <1>2, <1>3, <1>5, <1>8, <1>9, <1>10

LEMMA CorrectStep ==
    ASSUME LibraryInv, NEW e \in Entries, Correct(e)
    PROVE  LibraryInv'
<1> USE DEF LibraryInv, Correct
<1>1. names' \in [Entries -> (SUBSET Ids) \ {{}}]
    BY LibraryAssumption DEF LibraryTypeOK
<1>2. \A f \in Entries : names'[f] = names[f] \/ f = e
    BY DEF LibraryTypeOK
<1>3. lists' = lists /\ lists' \in [Sides -> Seq(Entries)]
    BY DEF LibraryTypeOK
<1>4. Changes(e, "corrected")
    OBVIOUS
<1> HIDE DEF Correct
<1>5. /\ LibraryTypeOK' /\ Staged' /\ Snapped' /\ Ingesting' /\ Complete' /\ SidesDone'
      /\ side' = side /\ todo' = todo /\ phase' = phase /\ total' = total /\ snapshot' = snapshot
      /\ added \subseteq added' /\ removed \subseteq removed'
    BY <1>1, <1>2, <1>3, <1>4, ChangeFrame
<1>6. Listed' /\ Paged'
    BY <1>3, <1>5 DEF Listed, Paged, Fits
<1> QED
    BY <1>5, <1>6

LEMMA AppearStep ==
    ASSUME LibraryInv, NEW s \in Sides, NEW e \in EntriesOf(s), Appears(s, e)
    PROVE  LibraryInv'
<1> USE DEF LibraryInv
<1>1. e \in Entries /\ lists \in [Sides -> Seq(Entries)] /\ names' = names
    BY DEF EntriesOf, Entries, LibraryTypeOK, Appears
<1>2. PICK n \in 1..(Len(lists[s]) + 1) : lists' = [lists EXCEPT ![s] = InsertAt(@, n, e)]
    BY DEF Appears
<1> DEFINE list == lists[s]
           longer == InsertAt(list, n, e)
<1>3. list \in Seq(Entries) /\ Len(list) \in Nat /\ DOMAIN list = 1..Len(list) /\ n \in 1..(Len(list) + 1)
    BY <1>1, <1>2
<1>4. /\ longer \in Seq(Entries) /\ Len(longer) = Len(list) + 1
      /\ \A k \in 1..(Len(list) + 1) : longer[k] = IF k < n THEN list[k] ELSE IF k = n THEN e ELSE list[k - 1]
  <2>1. e \in Entries /\ list \in Seq(Entries) /\ n \in 1..(Len(list) + 1)
      BY <1>1, <1>3
  <2>2. longer \in Seq(Entries) /\ IsInsertion(longer, list, n, e)
    <3> HIDE DEF list
    <3> QED
        BY <2>1, InsertFacts
  <2> QED
      BY <2>2 DEF IsInsertion
<1>5. lists'[s] = longer /\ \A r \in Sides \ {s} : lists'[r] = lists[r]
    BY <1>1, <1>2
<1>6. lists' \in [Sides -> Seq(Entries)]
    BY <1>1, <1>2, <1>4
<1>7. e \notin ToSet(list) /\ Changes(e, "added")
    BY DEF Appears
<1> HIDE DEF list, longer
<1>8. \A k \in 1..(Len(list) + 1) : k # n =>
         \E m \in 1..Len(list) : longer[k] = list[m] /\ m = IF k < n THEN k ELSE k - 1
  <2> SUFFICES ASSUME NEW k \in 1..(Len(list) + 1), k # n
               PROVE  \E m \in 1..Len(list) : longer[k] = list[m] /\ m = IF k < n THEN k ELSE k - 1
      OBVIOUS
  <2>1. CASE k < n
      BY <1>3, <1>4, <2>1
  <2>2. CASE ~(k < n)
    <3>1. k - 1 \in 1..Len(list)
        BY <1>3, <2>2
    <3> QED
        BY <1>4, <2>2, <3>1
  <2> QED
      BY <2>1, <2>2
<1>9. \A r \in Sides : \A f \in ToSet(lists'[r]) : f \in ToSet(lists[r]) \/ f = e
  <2>1. \A f \in ToSet(longer) : f \in ToSet(list) \/ f = e
      BY <1>3, <1>4, <1>8 DEF ToSet
  <2> QED
      BY <1>5, <2>1 DEF list
<1>10. names' \in [Entries -> (SUBSET Ids) \ {{}}]
    BY <1>1 DEF LibraryTypeOK
<1>11. /\ LibraryTypeOK' /\ Staged' /\ Snapped' /\ Ingesting' /\ Complete' /\ SidesDone'
       /\ side' = side /\ todo' = todo /\ phase' = phase /\ total' = total /\ snapshot' = snapshot
       /\ added \subseteq added' /\ removed \subseteq removed'
    BY <1>1, <1>6, <1>7, <1>9, <1>10, ChangeFrame
<1>12. Listed'
  <2>1. \A k \in DOMAIN list : list[k] \in EntriesOf(s) /\ list[k] # e
      BY <1>7 DEF Listed, list, ToSet
  <2>2. \A k, m \in DOMAIN list : list[k] = list[m] => k = m
      BY DEF Listed, list
  <2>3. ASSUME NEW k \in 1..(Len(list) + 1), NEW m \in 1..(Len(list) + 1)
        PROVE  longer[k] \in EntriesOf(s) /\ (longer[k] = longer[m] => k = m)
    <3>1. longer[n] = e /\ n \in Nat
        BY <1>2, <1>3, <1>4 DEF list
    <3>2. ASSUME NEW i \in 1..(Len(list) + 1), i # n
          PROVE  longer[i] \in EntriesOf(s) /\ longer[i] # e
        BY <1>3, <1>8, <2>1, <3>2
    <3>3. ASSUME k # n, m # n, longer[k] = longer[m] PROVE k = m
      <4>1. PICK i \in 1..Len(list) : longer[k] = list[i] /\ i = IF k < n THEN k ELSE k - 1
          BY <1>8, <3>3
      <4>2. PICK j \in 1..Len(list) : longer[m] = list[j] /\ j = IF m < n THEN m ELSE m - 1
          BY <1>8, <3>3
      <4>3. i = j
          BY <1>3, <2>2, <3>3, <4>1, <4>2
      <4> QED
          BY <3>1, <3>3, <4>1, <4>2, <4>3
    <3> QED
        BY <3>1, <3>2, <3>3
  <2>4. DOMAIN longer = 1..(Len(list) + 1)
      BY <1>3, <1>4
  <2> QED
      BY <1>5, <2>3, <2>4 DEF Listed
<1>13. Paged'
  <2> SUFFICES ASSUME phase = "reading", total # NoTotal PROVE Paged'
      BY <1>11 DEF Paged
  <2>1. side \in Sides /\ total \in Nat
      BY PlanFacts DEF Staged, LibraryTypeOK, side
  <2>2. CASE s # side
    <3>1. lists'[side] = lists[side]
        BY <1>5, <2>1, <2>2
    <3> QED
        BY <1>11, <3>1 DEF Paged, Fits
  <2>3. CASE s = side
    <3>1. e \in added' \cap EntriesOf(side)
        BY <1>7, <2>3 DEF Changes
    <3>2. Len(lists'[side]) = Len(lists[side]) + 1 /\ Len(lists[side]) \in Nat
        BY <1>3, <1>4, <1>5, <2>3 DEF list
    <3> QED
        BY <1>11, <2>1, <3>1, <3>2 DEF Paged
  <2> QED
      BY <2>2, <2>3
<1> QED
    BY <1>11, <1>12, <1>13

LEMMA DisappearStep ==
    ASSUME LibraryInv, NEW s \in Sides, NEW e \in EntriesOf(s), Disappears(s, e)
    PROVE  LibraryInv'
<1> USE DEF LibraryInv
<1>1. e \in Entries /\ lists \in [Sides -> Seq(Entries)] /\ names' = names
    BY DEF EntriesOf, Entries, LibraryTypeOK, Disappears
<1>2. PICK n \in DOMAIN lists[s] : lists' = [lists EXCEPT ![s] = RemoveAt(@, n)]
    BY DEF Disappears
<1> DEFINE list == lists[s]
           shorter == RemoveAt(list, n)
<1>3. list \in Seq(Entries) /\ Len(list) \in Nat /\ DOMAIN list = 1..Len(list) /\ Len(list) >= 1
    BY <1>1, <1>2
<1>4. /\ shorter \in Seq(Entries) /\ Len(shorter) = Len(list) - 1
      /\ \A k \in 1..(Len(list) - 1) : shorter[k] = IF k < n THEN list[k] ELSE list[k + 1]
    BY <1>2, <1>3, RemoveFacts
<1>5. lists'[s] = shorter /\ \A r \in Sides \ {s} : lists'[r] = lists[r]
    BY <1>1, <1>2
<1>6. lists' \in [Sides -> Seq(Entries)]
    BY <1>1, <1>2, <1>4
<1>7. Changes(e, "removed") /\ n \in 1..Len(list)
    BY <1>2, <1>3 DEF Disappears
<1> HIDE DEF list, shorter
<1>8. \A k \in 1..(Len(list) - 1) :
         \E m \in 1..Len(list) : shorter[k] = list[m] /\ m = IF k < n THEN k ELSE k + 1
    BY <1>3, <1>4, <1>7
<1>9. \A r \in Sides : \A f \in ToSet(lists'[r]) : f \in ToSet(lists[r])
  <2>1. \A f \in ToSet(shorter) : f \in ToSet(list)
      BY <1>3, <1>4, <1>8 DEF ToSet
  <2> QED
      BY <1>5, <2>1 DEF list
<1>10. names' \in [Entries -> (SUBSET Ids) \ {{}}]
    BY <1>1 DEF LibraryTypeOK
<1>11. /\ LibraryTypeOK' /\ Staged' /\ Snapped' /\ Ingesting' /\ Complete' /\ SidesDone'
       /\ side' = side /\ todo' = todo /\ phase' = phase /\ total' = total /\ snapshot' = snapshot
       /\ added \subseteq added' /\ removed \subseteq removed'
    BY <1>1, <1>6, <1>7, <1>9, <1>10, ChangeFrame
<1>12. Listed'
  <2>1. \A k \in DOMAIN list : list[k] \in EntriesOf(s)
      BY DEF Listed, list
  <2>2. \A k, m \in DOMAIN list : list[k] = list[m] => k = m
      BY DEF Listed, list
  <2>3. ASSUME NEW k \in 1..(Len(list) - 1), NEW m \in 1..(Len(list) - 1)
        PROVE  shorter[k] \in EntriesOf(s) /\ (shorter[k] = shorter[m] => k = m)
    <3>1. PICK i \in 1..Len(list) : shorter[k] = list[i] /\ i = IF k < n THEN k ELSE k + 1
        BY <1>8
    <3>2. PICK j \in 1..Len(list) : shorter[m] = list[j] /\ j = IF m < n THEN m ELSE m + 1
        BY <1>8
    <3> QED
        BY <1>3, <1>7, <2>1, <2>2, <3>1, <3>2
  <2>4. DOMAIN shorter = 1..(Len(list) - 1)
      BY <1>3, <1>4
  <2> QED
      BY <1>5, <2>3, <2>4 DEF Listed
<1>13. Paged'
  <2> SUFFICES ASSUME phase = "reading", total # NoTotal PROVE Paged'
      BY <1>11 DEF Paged
  <2>1. side \in Sides /\ total \in Nat
      BY PlanFacts DEF Staged, LibraryTypeOK, side
  <2>2. CASE s # side
    <3>1. lists'[side] = lists[side]
        BY <1>5, <2>1, <2>2
    <3> QED
        BY <1>11, <3>1 DEF Paged, Fits
  <2>3. CASE s = side
    <3>1. e \in removed' \cap EntriesOf(side)
        BY <1>7, <2>3 DEF Changes
    <3>2. Len(lists'[side]) = Len(lists[side]) - 1 /\ Len(lists[side]) \in Nat
        BY <1>3, <1>4, <1>5, <2>3 DEF list
    <3> QED
        BY <1>11, <2>1, <3>1, <3>2 DEF Paged
  <2> QED
      BY <2>2, <2>3
<1> QED
    BY <1>11, <1>12, <1>13

LEMMA LibraryStep == LibraryInv /\ [Next]_vars => LibraryInv'
<1> SUFFICES ASSUME LibraryInv, [Next]_vars PROVE LibraryInv'
    OBVIOUS
<1>1. ASSUME NEW order \in {<<"plex", "seerr">>, <<"plex">>, <<"seerr">>}, Start(order) PROVE LibraryInv'
    BY <1>1, StartStep
<1>2. CASE ReadPage
    BY <1>2, ReadStep
<1>3. CASE IngestBatch
    BY <1>3, BatchStep
<1>4. CASE Finalize
    BY <1>4, FinalizeStep
<1>5. CASE Finish
    BY <1>5, FinishStep
<1>6. CASE Abort
    BY <1>6, AbortStep
<1>7. ASSUME NEW e \in Found, IngestFound(e) PROVE LibraryInv'
    BY <1>7, FoundStep DEF Entries
<1>8. ASSUME NEW s \in Sides, NEW e \in EntriesOf(s), Appears(s, e) PROVE LibraryInv'
    BY <1>8, AppearStep
<1>9. ASSUME NEW s \in Sides, NEW e \in EntriesOf(s), Disappears(s, e) PROVE LibraryInv'
    BY <1>9, DisappearStep
<1>10. ASSUME NEW e \in Entries, Correct(e) PROVE LibraryInv'
    BY <1>10, CorrectStep
<1>11. CASE UNCHANGED vars
  <2> USE DEF LibraryInv
  <2>1. UNCHANGED <<lists, names, db, clock, todo, both, phase, total, snapshot, next,
                    added, removed, corrected, changes>>
      BY <1>11 DEF vars, upstream, reading
  <2>2. LibraryTypeOK' /\ Staged' /\ Listed'
      BY <2>1 DEF LibraryTypeOK, Staged, Listed
  <2>3. Snapped' /\ Paged' /\ Complete'
      BY <2>1 DEF Snapped, Paged, Complete, Fits, Seen, side, Throughout, Skewed, NamesOf
  <2>4. Ingesting' /\ SidesDone'
      BY <2>1 DEF Ingesting, SidesDone, Throughout, Skewed, NamesOf
  <2> QED
      BY <2>2, <2>3, <2>4
<1> QED
    BY <1>1, <1>2, <1>3, <1>4, <1>5, <1>6, <1>7, <1>8, <1>9, <1>10, <1>11 DEF Next

\* In every reachable state the pages read fit the list they were read from, what was
\* ingested is settled, and rows and index agree.
THEOREM LibraryInductive == Spec => []LibraryInv
<1> QED
    BY LibraryInit, LibraryStep, PTL DEF Spec

\* The state of a run and of the database has its types, for libraries of any size.
THEOREM LibraryTypeCorrect == Spec => []LibraryTypeOK
<1>1. LibraryInv => LibraryTypeOK
    BY DEF LibraryInv
<1> QED
    BY <1>1, LibraryInductive, PTL

\* Search never offers an item by a state it no longer has: seven transactions write
\* rows, titles and quarantines, and each refreshes every item that it changes.
THEOREM IndexNeverLags == Spec => []IndexAgrees
<1>1. LibraryInv => IndexAgrees
    BY DEF LibraryInv, LibraryTypeOK, Consistent, IndexAgrees
<1> QED
    BY <1>1, LibraryInductive, PTL

\* What is listed all through a run is not given up by it: the pages agree on a total,
\* so that they show the whole list unless entries both came and went.
THEOREM ListedEntriesSurvive == Spec => ListedIsKept
<1> DEFINE A == \A s \in Sides : \A e \in Throughout(s) :
                   (db.listed[e] /\ ~db'.listed[e]) => Skewed(s)
<1>1. LibraryInv /\ [Next]_vars => [A]_vars
  <2> SUFFICES ASSUME LibraryInv, Next, NEW s \in Sides, NEW e \in Throughout(s),
                      db.listed[e], ~db'.listed[e]
               PROVE  Skewed(s)
      OBVIOUS
  <2> USE DEF LibraryInv
  <2>1. e \in EntriesOf(s) /\ e \in Entries
      BY DEF Throughout, Listed, LibraryTypeOK, ToSet
  <2>2. e \notin Found /\ db \in Consistent /\ clock \in Nat /\ snapshot \in Seq(Records)
      BY <2>1, LibraryAssumption DEF EntriesOf, Sides, LibraryTypeOK
  <2>3. db' # db
      OBVIOUS
  <2>4. ASSUME NEW records \in Seq(Records), db' = Ingested(db, records) PROVE FALSE
      BY <2>1, <2>2, <2>4, BatchFacts
  <2>5. CASE IngestBatch
    <3>1. \E records \in Seq(Records) : db' = Ingested(db, records)
      <4>1. SubSeq(snapshot, next + 1, next') \in Seq(Records)
          BY <2>5, BatchBounds
      <4> QED
          BY <2>5, <4>1 DEF IngestBatch
    <3> QED
        BY <2>4, <3>1
  <2>6. ASSUME NEW f \in Found, IngestFound(f) PROVE FALSE
    <3>1. NamesOf(f) \in Records /\ db' = Ingested(db, <<NamesOf(f)>>)
        BY <2>6 DEF NamesOf, Records, IngestFound, LibraryTypeOK, Entries
    <3>2. <<NamesOf(f)>> \in Seq(Records)
        BY <3>1
    <3> QED
        BY <2>4, <3>1, <3>2
  <2>7. CASE Finish
      BY <2>2, <2>7, ReleasedFacts DEF Finish
  <2>8. CASE Finalize
    <3>1. side \in Sides /\ {r.entry : r \in ToSet(snapshot)} = Seen
        BY <2>8, PlanFacts DEF Finalize, Staged, LibraryTypeOK, side, ToSet, Seen
    <3>2. e \in EntriesOf(side) \ Seen
        BY <2>1, <2>2, <2>8, <3>1, GivenUpFacts DEF Finalize
    <3>3. s = side
        BY <2>1, <3>1, <3>2, LibraryAssumption DEF EntriesOf, Sides
    <3> QED
        BY <2>8, <3>2, <3>3 DEF Complete, Finalize
  <2> QED
      BY <2>3, <2>5, <2>6, <2>7, <2>8
         DEF Next, Start, ReadPage, Abort, Appears, Disappears, Correct, Changes, upstream
<1> HIDE DEF A
<1>2. Spec => [][A]_vars
    BY <1>1, LibraryInductive, PTL DEF Spec
<1> QED
    BY <1>2 DEF A, ListedIsKept

\* "Reproduced conflicts remain blocked": when a full run ends, an entry that was listed
\* and unchanged all through it either has one item, or has two that stay quarantined.
THEOREM ReproducedConflictsStay == Spec => ConflictsStayBlocked
<1> DEFINE Blocked(e) == {j \in Matches(db, NamesOf(e)) : db'.quarantine[j] # 0}
           A == \A i \in Items : (db.quarantine[i] # 0 /\ db'.quarantine[i] = 0) =>
                  \A s \in Sides : \A e \in Throughout(s) \ corrected :
                    (Conflicts(db, NamesOf(e)) /\ i \in Matches(db, NamesOf(e)))
                      => (Skewed(s) \/ \E j, k \in Blocked(e) : j # k)
<1>1. LibraryInv /\ [Next]_vars => [A]_vars
  <2> SUFFICES ASSUME LibraryInv, Next,
                      NEW i \in Items, db.quarantine[i] # 0, db'.quarantine[i] = 0,
                      NEW s \in Sides, NEW e \in Throughout(s) \ corrected,
                      Conflicts(db, NamesOf(e)), ~Skewed(s)
               PROVE  \E j, k \in Blocked(e) : j # k
      OBVIOUS
  <2> USE DEF LibraryInv
  <2>1. db \in Consistent /\ clock \in Nat \ {0} /\ snapshot \in Seq(Records) /\ db' # db
      BY DEF LibraryTypeOK
  <2>2. ASSUME NEW records \in Seq(Records), db' = Ingested(db, records) PROVE FALSE
      BY <2>1, <2>2, BatchFacts
  <2>3. CASE IngestBatch
    <3>1. SubSeq(snapshot, next + 1, next') \in Seq(Records)
        BY <2>3, BatchBounds
    <3> QED
        BY <2>2, <2>3, <3>1 DEF IngestBatch
  <2>4. ASSUME NEW f \in Found, IngestFound(f) PROVE FALSE
    <3>1. NamesOf(f) \in Records /\ db' = Ingested(db, <<NamesOf(f)>>)
        BY <2>4 DEF NamesOf, Records, IngestFound, LibraryTypeOK, Entries
    <3>2. <<NamesOf(f)>> \in Seq(Records)
        BY <3>1
    <3> QED
        BY <2>2, <3>1, <3>2
  <2>5. CASE Finalize
    <3>1. side \in Sides
        BY <2>5, PlanFacts DEF Finalize, Staged, LibraryTypeOK, side
    <3> QED
        BY <2>1, <2>5, <3>1, GivenUpFacts DEF Finalize
  <2>6. CASE Finish
    <3>1. both /\ db' = Released(db) /\ phase # "idle" /\ todo = <<>>
        BY <2>1, <2>6 DEF Finish, Staged
    <3>2. Settled(db, NamesOf(e), clock)
      <4>1. s \notin ToSet(todo)
          BY <3>1 DEF ToSet
      <4> QED
          BY <3>1, <4>1 DEF SidesDone
    <3>3. e \in Entries /\ NamesOf(e) \in Records
        BY DEF NamesOf, Records, LibraryTypeOK, Throughout, ToSet
    <3>4. db \in Databases
        BY <2>1 DEF Consistent
    <3>5. PICK j, k \in Matches(db, NamesOf(e)) :
             j # k /\ db.quarantine[j] = clock /\ db.quarantine[k] = clock
      <4>1. ASSUME NEW m \in Items, \A x \in NamesOf(e).names : db.owner[x] = m,
                   db.row[NamesOf(e).entry] \in {m, NoItem}
            PROVE  FALSE
        <5>1. Matches(db, NamesOf(e)) \subseteq {m}
            BY <3>3, <3>4, <4>1, MatchFacts
        <5> QED
            BY <5>1 DEF Conflicts
      <4> QED
          BY <3>2, <4>1 DEF Settled
    <3>6. j \in Items /\ k \in Items
        BY <3>3, <3>4, MatchFacts
    <3>7. db'.quarantine[j] = clock /\ db'.quarantine[k] = clock
      <4>1. j \notin Stale(db) /\ k \notin Stale(db)
          BY <2>1, <3>5 DEF Stale
      <4> QED
          BY <2>1, <3>1, <3>5, <3>6, <4>1, ReleasedFacts
    <3> QED
        BY <2>1, <3>5, <3>7
  <2> QED
      BY <2>1, <2>3, <2>4, <2>5, <2>6
         DEF Next, Start, ReadPage, Abort, Appears, Disappears, Correct, Changes, upstream
<1> HIDE DEF A
<1>2. Spec => [][A]_vars
    BY <1>1, LibraryInductive, PTL DEF Spec
<1> QED
    BY <1>2 DEF A, ConflictsStayBlocked, NamesOf

===============================================================================
