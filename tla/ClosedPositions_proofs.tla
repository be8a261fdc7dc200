----------------------- MODULE ClosedPositions_proofs -----------------------
(***************************************************************************)
(* Theorems about ClosedPositions: what holds for any cycles, rows of      *)
(* earlier versions, clock and number of sessions.                         *)
(***************************************************************************)
EXTENDS ClosedPositions, TLAPS

USE ClosedConstants, ClosedMarks

Table == [Ids -> Row \cup {Unused, Gone}]

\* the identities that a row of c may have
Names(c) == {Identity(c), Plain(Base(c))} \cup {Staged(Base(c), t) : t \in Time}

Named(table) == \A i \in Stored(table) : table[i].source \in Names(table[i].cycle)

\* what may become of a table: a row that is gone stays gone, a key that was
\* given out is not free again, a row stays one of its cycle
Follows(old, new) ==
    \A i \in Ids :
        /\ old[i] # Unused => new[i] # Unused
        /\ old[i] = Gone => new[i] = Gone
        /\ i \in Stored(old) \cap Stored(new) => old[i].cycle = new[i].cycle

ViewOK(w) ==
    /\ seen[w] \in Table /\ Named(seen[w]) /\ UniqueSources(seen[w])
    /\ Follows(seen[w], rows)
    /\ pc[w] \in {"idle", "fetched"} => seen[w] = NoRows

TableInv ==
    /\ TypeOK
    /\ Named(rows) /\ UniqueSources(rows)
    /\ \A w \in Workers : ViewOK(w)

(***************************************************************************)
(* Identities.                                                             *)
(***************************************************************************)
LEMMA IdentityTyped ==
  ASSUME exchange \in Exchanges, NEW c \in Cycles
  PROVE  Names(c) \subseteq Sources /\ Base(c) \in Cycles /\ Identity(c) \in Names(c)
  <1>1. Base(c) \in Cycles /\ 0 \in Time
    BY DEF Base, Time
  <1> QED
    BY <1>1 DEF Names, Identity, Plain, Staged, Sources

\* No two cycles have one identity, although OKX reuses a posId.
LEMMA IdentityIsOwn ==
  ASSUME exchange \in Exchanges, NEW c \in Cycles, NEW d \in Cycles,
         Identity(c) \in Names(d)
  PROVE  c = d
  <1>1. CASE exchange = "OKX"
    BY <1>1 DEF Identity, Names, Plain, Staged, Base
  <1>2. CASE exchange # "OKX"
    BY <1>2 DEF Identity, Names, Plain, Staged, Base
  <1> QED
    BY <1>1, <1>2

LEMMA CanonicalStays ==
  ASSUME exchange \in Exchanges, NEW c \in Cycles, NEW s \in Names(c)
  PROVE  Canonical(s) \in Names(c)
  BY DEF Names, Identity, Canonical, Plain, Staged

\* the rows of a cycle that an upsert takes for it are of it, and all are taken
LEMMA RowsOfCycle ==
  ASSUME exchange \in Exchanges, NEW view \in Table, Named(view), NEW c \in Cycles
  PROVE  /\ Exact(view, c) \subseteq Of(view, c)
         /\ SameCycle(view, c) \subseteq Of(view, c)
         /\ Of(view, c) \subseteq Exact(view, c) \cup SameCycle(view, c)
  <1>1. \A i \in Stored(view) : view[i] \in Row /\ view[i].cycle \in Cycles
    BY DEF Stored, Table, Row
  <1>2. Exact(view, c) \subseteq Of(view, c)
    BY <1>1, IdentityIsOwn DEF Exact, Of, Named
  <1>3. CASE exchange = "BITGET"
    <2>1. ASSUME NEW i \in Stored(view), Canonical(view[i].source) = Identity(c)
          PROVE  view[i].cycle = c
      <3>1. view[i].source \in Names(view[i].cycle) /\ view[i].cycle \in Cycles
        BY <1>1, <2>1 DEF Named
      <3>2. Identity(c) \in Names(view[i].cycle)
        BY <2>1, <3>1, CanonicalStays
      <3> QED
        BY <3>1, <3>2, IdentityIsOwn
    <2>2. ASSUME NEW i \in Of(view, c)
          PROVE  Canonical(view[i].source) = Identity(c)
      BY <1>3, <2>2 DEF Of, Named, Names, Identity, Canonical, Plain, Staged
    <2> QED
      BY <1>2, <1>3, <2>1, <2>2 DEF SameCycle, Of
  <1>4. CASE exchange = "OKX"
    <2>1. ASSUME NEW i \in Of(view, c), view[i].source # Identity(c)
          PROVE  view[i].source.form # "cycle" /\ view[i].source.base = Base(c)
      BY <1>4, <2>1 DEF Of, Named, Names, Plain, Staged
    <2> QED
      BY <1>2, <1>4, <2>1 DEF SameCycle, Of, Exact
  <1>5. CASE exchange = "POLYMARKET"
    BY <1>2, <1>5 DEF SameCycle, Of
  <1> QED
    BY <1>2, <1>3, <1>4, <1>5 DEF Exchanges

(***************************************************************************)
(* Initial states, and steps that leave the rows alone.                    *)
(***************************************************************************)
LEMMA DayTyped ==
  ASSUME NEW t \in Time
  PROVE  DayOf(t) \in Days
  BY DEF Days

LEMMA TableInit == Init => TableInv
  <1> SUFFICES ASSUME Init PROVE TableInv
    OBVIOUS
  <1>1. exchange \in Exchanges /\ now = StartTime /\ closedAt \in [Cycles -> 0 .. StartTime]
    BY DEF Init
  <1>2. \A i \in Ids : rows[i] = Unused \/ rows[i] \in LegacyRows(closedAt)
    BY DEF Init
  <1>3. rows \in Table /\ Named(rows) /\ UniqueSources(rows)
    <2>1. rows \in Table
      BY <1>2 DEF Init, Table, LegacyRows
    <2>2. UniqueSources(rows)
      BY DEF Init, Legacy
    <2>3. ASSUME NEW i \in Stored(rows) PROVE rows[i].source \in Names(rows[i].cycle)
      <3>1. rows[i] \in LegacyRows(closedAt)
        BY <1>2 DEF Stored
      <3> QED
        BY <3>1 DEF LegacyRows, Names, Row
    <2> QED
      BY <2>1, <2>2, <2>3 DEF Named
  <1>4. dailyDays \in SUBSET Days
    <2>1. ASSUME NEW d \in 0 .. DayOf(StartTime) - 1 PROVE d \in Days
      <3>1. d \in Nat /\ d < StartTime \div DayLength
        BY DEF DayOf
      <3>2. d * DayLength \in Nat /\ (d * DayLength) \div DayLength = d
        BY <3>1
      <3>3. d * DayLength <= StartTime
        BY <3>1
      <3> QED
        BY <3>2, <3>3 DEF Days, DayOf, Time
    <2> QED
      BY <2>1 DEF Init
  <1>5. daily \in [Days -> SUBSET Ids]
    BY DEF Init, OnDay, Stored
  <1>6. \A w \in Workers : seen[w] = NoRows
    BY DEF Init
  <1>7. NoRows \in Table /\ Stored(NoRows) = {}
    BY DEF NoRows, Table, Stored
  <1>8. \A w \in Workers : ViewOK(w)
    BY <1>6, <1>7 DEF ViewOK, Named, UniqueSources, Follows, NoRows
  <1>9. TypeOK
    <2>1. /\ now \in Time /\ closedAt \in [Cycles -> Time]
          /\ pc \in [Workers -> {"idle", "fetched", "loaded", "cleaning"}]
          /\ started \in [Workers -> Time] /\ answer \in [Workers -> [Cycles -> Time]]
      BY <1>1 DEF Init, Time, NoAnswer
    <2>2. seen \in [Workers -> Table]
      BY <1>7 DEF Init
    <2>3. passed \in SUBSET Workers /\ overtaken \in SUBSET dailyDays
      BY DEF Init
    <2> QED
      BY <1>1, <1>3, <1>4, <1>5, <2>1, <2>2, <2>3 DEF TypeOK, Table
  <1> QED
    BY <1>3, <1>8, <1>9 DEF TableInv

LEMMA FollowsTrans ==
  ASSUME NEW a \in Table, NEW b \in Table, NEW c \in Table, Follows(a, b), Follows(b, c)
  PROVE  Follows(a, c)
  BY DEF Follows, Stored, Table

(***************************************************************************)
(* The unit of work: what a commit makes of the rows.                      *)
(***************************************************************************)
\* the rows a session knows, under the cycles they still have
Agrees(view) ==
    \A i \in Stored(view) :
        rows[i] # Unused /\ (i \in Stored(rows) => view[i].cycle = rows[i].cycle)

LEMMA ViewAgrees ==
  ASSUME TableInv, NEW w \in Workers
  PROVE  seen[w] \in Table /\ Named(seen[w]) /\ Agrees(seen[w])
  BY DEF TableInv, ViewOK, Agrees, Follows, Stored

LEMMA WrittenRow ==
  ASSUME TableInv, NEW i \in Ids, rows[i] # Unused, NEW loaded, NEW new \in Row,
         new.source \in Names(new.cycle), i \in Stored(rows) => rows[i].cycle = new.cycle
  PROVE  /\ Written(i, loaded, new) = Gone <=> rows[i] = Gone
         /\ i \in Stored(rows) => /\ Written(i, loaded, new) \in Row
                                  /\ Written(i, loaded, new).cycle = rows[i].cycle
                                  /\ Written(i, loaded, new).source \in Names(new.cycle)
  <1>1. CASE rows[i] = Gone
    BY <1>1 DEF Written, Stored
  <1>2. CASE rows[i] # Gone
    <2>1. i \in Stored(rows) /\ rows[i] \in Row /\ rows[i].source \in Names(new.cycle)
      BY <1>2 DEF TableInv, TypeOK, Stored, Named
    <2> DEFINE r == [cycle |-> new.cycle,
                     source |-> Flushed(loaded.source, new.source, rows[i].source),
                     closeTime |-> Flushed(loaded.closeTime, new.closeTime,
                                           rows[i].closeTime)]
    <2>2. Written(i, loaded, new) = r
      BY <1>2 DEF Written
    <2>3. /\ Flushed(loaded.source, new.source, rows[i].source) \in Sources \cap Names(new.cycle)
          /\ Flushed(loaded.closeTime, new.closeTime, rows[i].closeTime) \in Time
          /\ new.cycle \in Cycles
      BY <2>1 DEF Flushed, Row
    <2>4. r \in Row /\ r.cycle = new.cycle /\ r.source \in Names(new.cycle)
      BY <2>3 DEF Row
    <2> HIDE DEF r
    <2> QED
      BY <1>2, <2>1, <2>2, <2>4, ClosedMarks
  <1> QED
    BY <1>1, <1>2

LEMMA ItemTyped ==
  ASSUME TableInv, NEW w \in Workers, NEW c \in Items(w)
  PROVE  /\ c \in Cycles /\ Item(w, c) \in Row /\ Item(w, c).cycle = c
         /\ Item(w, c).source = Identity(c) /\ Item(w, c).source \in Names(c)
         /\ Item(w, c).closeTime = answer[w][c]
  <1>1. c \in Cycles /\ answer[w][c] \in Time /\ exchange \in Exchanges
    BY DEF Items, TableInv, TypeOK
  <1> QED
    BY <1>1, IdentityTyped DEF Item, Row

\* where an item may go
LEMMA TargetsAre ==
  ASSUME TableInv, NEW view \in Table, Named(view), Agrees(view),
         NEW c \in Cycles, NEW i \in Targets(view, c)
  PROVE  \/ i \in Of(view, c) /\ rows[i] # Unused
         \/ i \in Ids /\ rows[i] = Unused /\ Of(view, c) = {}
  <1>1. /\ Exact(view, c) \subseteq Of(view, c)
        /\ SameCycle(view, c) \subseteq Of(view, c)
        /\ Of(view, c) \subseteq Exact(view, c) \cup SameCycle(view, c)
    BY RowsOfCycle DEF TableInv, TypeOK
  <1>2. \A j \in Of(view, c) : rows[j] # Unused
    BY DEF Of, Agrees
  <1>3. \/ i \in Exact(view, c) \/ i \in SameCycle(view, c)
        \/ /\ i \in Ids /\ rows[i] = Unused
           /\ Exact(view, c) = {} /\ SameCycle(view, c) = {}
    BY DEF Targets, Latest
  <1> QED
    BY <1>1, <1>2, <1>3

\* the deletions of an upsert beside those in `more'
Doomed(w, view, target) ==
    UNION {Duplicates(view, c) \ {target[c]} : c \in DOMAIN target}

CanCommit(w, view, target, more) ==
    /\ view \in Table /\ Named(view) /\ Agrees(view)
    /\ target \in [Items(w) -> Ids] /\ CanUpsert(w, view, target)
    /\ \A i \in more : rows[i] # Unused /\ i \notin Stored(view)

\* A target is never deleted: it is a row of its cycle or a free key.
LEMMA TargetsStay ==
  ASSUME TableInv, NEW w \in Workers, NEW view, NEW target, NEW more,
         CanCommit(w, view, target, more), NEW c \in Items(w)
  PROVE  target[c] \notin more \cup Doomed(w, view, target)
  <1>1. /\ Items(w) \subseteq Cycles /\ DOMAIN target = Items(w)
        /\ target[c] \in Targets(view, c)
    BY DEF Items, CanCommit, CanUpsert
  <1>2. \/ target[c] \in Of(view, c) /\ rows[target[c]] # Unused
        \/ rows[target[c]] = Unused /\ Of(view, c) = {}
    BY <1>1, TargetsAre DEF CanCommit
  <1>3. target[c] \notin more
    BY <1>2 DEF CanCommit, Of
  <1>4. ASSUME NEW d \in Items(w), target[c] \in Duplicates(view, d) \ {target[d]}
        PROVE  FALSE
    <2>1. d # c
      BY <1>4
    <2>2. SameCycle(view, d) \subseteq Of(view, d)
      BY <1>1, RowsOfCycle DEF CanCommit, TableInv, TypeOK
    <2>3. target[c] \in Of(view, d)
      BY <1>4, <2>2 DEF Duplicates
    <2>4. rows[target[c]] # Unused
      BY <2>3 DEF CanCommit, Agrees, Of
    <2> QED
      BY <1>2, <2>1, <2>3, <2>4 DEF Of
  <1> QED
    BY <1>1, <1>3, <1>4 DEF Doomed

LEMMA UpsertedRows ==
  ASSUME TableInv, NEW w \in Workers, NEW view, NEW target, NEW more,
         CanCommit(w, view, target, more), NEW table,
         table = Upserted(w, view, target, more)
  PROVE  /\ \A i \in Ids \cap (more \cup Doomed(w, view, target)) : table[i] = Gone
         /\ \A c \in Items(w) :
               table[target[c]] = IF rows[target[c]] = Unused THEN Item(w, c)
                                  ELSE Written(target[c], view[target[c]], Item(w, c))
         /\ \A i \in Ids : \/ \E c \in Items(w) : i = target[c]
                           \/ i \in more \cup Doomed(w, view, target)
                           \/ table[i] = rows[i]
  <1> DEFINE gone == more \cup Doomed(w, view, target)
             chosen(i) == CHOOSE d \in DOMAIN target : target[d] = i
             value(i) == IF rows[i] = Unused THEN Item(w, chosen(i))
                         ELSE Written(i, view[i], Item(w, chosen(i)))
  <1>1. /\ target \in [Items(w) -> Ids] /\ DOMAIN target = Items(w)
        /\ \A c, d \in Items(w) : target[c] = target[d] => c = d
    BY DEF CanCommit, CanUpsert
  <1>2. table = [i \in Ids |-> IF i \in gone THEN Gone
                               ELSE IF \E c \in DOMAIN target : target[c] = i
                                    THEN value(i) ELSE rows[i]]
    BY DEF Upserted, Doomed
  <1>3. ASSUME NEW c \in Items(w)
        PROVE  value(target[c]) = IF rows[target[c]] = Unused THEN Item(w, c)
                                  ELSE Written(target[c], view[target[c]], Item(w, c))
    <2>1. chosen(target[c]) = c
      BY <1>1
    <2> HIDE DEF chosen
    <2> QED
      BY <2>1
  <1>4. ASSUME NEW c \in Items(w)
        PROVE  target[c] \in Ids /\ target[c] \notin gone
    BY <1>1, TargetsStay
  <1> HIDE DEF value, gone
  <1>5. ASSUME NEW c \in Items(w) PROVE table[target[c]] = value(target[c])
    BY <1>1, <1>2, <1>4
  <1>6. \A i \in Ids \cap gone : table[i] = Gone
    BY <1>2
  <1>7. \A i \in Ids : (\E c \in Items(w) : i = target[c]) \/ i \in gone \/ table[i] = rows[i]
    BY <1>1, <1>2
  <1> QED
    BY <1>3, <1>5, <1>6, <1>7 DEF gone

\* a row after an upsert: gone, as it was, or an item of its own cycle
LEMMA UpsertedRow ==
  ASSUME TableInv, NEW w \in Workers, NEW view, NEW target, NEW more,
         CanCommit(w, view, target, more), NEW table,
         table = Upserted(w, view, target, more), NEW i \in Ids
  PROVE  \/ table[i] = rows[i]
         \/ table[i] = Gone /\ rows[i] # Unused
         \/ \E c \in Items(w) :
               /\ i = target[c]
               /\ table[i] \in Row /\ table[i].cycle = c
               /\ table[i].source \in Names(c)
               /\ rows[i] # Gone
               /\ i \in Stored(rows) => rows[i].cycle = c
               /\ rows[i] = Unused => table[i] = Item(w, c) /\ Of(view, c) = {}
               /\ rows[i] # Unused => /\ table[i] = Written(i, view[i], Item(w, c))
                                      /\ i \in Of(view, c)
  <1>1. CASE \E c \in Items(w) : i = target[c]
    <2>1. PICK c \in Items(w) : i = target[c]
      BY <1>1
    <2>2. /\ c \in Cycles /\ Item(w, c) \in Row /\ Item(w, c).cycle = c
          /\ Item(w, c).source \in Names(c)
      BY ItemTyped
    <2>3. i \in Targets(view, c)
      BY <2>1 DEF CanCommit, CanUpsert
    <2>4. \/ i \in Of(view, c) /\ rows[i] # Unused
          \/ rows[i] = Unused /\ Of(view, c) = {}
      BY <2>2, <2>3, TargetsAre DEF CanCommit
    <2>5. table[i] = IF rows[i] = Unused THEN Item(w, c)
                     ELSE Written(i, view[i], Item(w, c))
      BY <2>1, UpsertedRows
    <2>6. CASE rows[i] = Unused
      BY <2>1, <2>2, <2>4, <2>5, <2>6, ClosedMarks DEF Stored
    <2>7. CASE rows[i] # Unused
      <3>1. i \in Of(view, c)
        BY <2>4, <2>7
      <3>2. i \in Stored(rows) => rows[i].cycle = c
        BY <3>1 DEF CanCommit, Agrees, Of
      <3>3. /\ Written(i, view[i], Item(w, c)) = Gone <=> rows[i] = Gone
            /\ i \in Stored(rows) => /\ table[i] \in Row
                                     /\ table[i].cycle = rows[i].cycle
                                     /\ table[i].source \in Names(c)
        BY <2>2, <2>5, <2>7, <3>2, WrittenRow
      <3>4. CASE rows[i] = Gone
        BY <2>5, <2>7, <3>3, <3>4
      <3>5. CASE rows[i] # Gone
        <4>1. i \in Stored(rows)
          BY <2>7, <3>5 DEF Stored
        <4> QED
          BY <2>1, <2>5, <2>7, <3>1, <3>2, <3>3, <3>5, <4>1
      <3> QED
        BY <3>4, <3>5
    <2> QED
      BY <2>6, <2>7
  <1>2. CASE i \in more \cup Doomed(w, view, target)
    <2>1. table[i] = Gone
      BY <1>2, UpsertedRows
    <2>2. CASE i \in more
      BY <2>1, <2>2 DEF CanCommit
    <2>3. CASE i \in Doomed(w, view, target)
      <3>1. PICK c \in Items(w) : i \in Duplicates(view, c)
        BY <2>3 DEF Doomed, CanCommit
      <3>2. SameCycle(view, c) \subseteq Of(view, c)
        BY RowsOfCycle DEF CanCommit, TableInv, TypeOK, Items
      <3>3. i \in Stored(view)
        BY <3>1, <3>2 DEF Duplicates, Of
      <3> QED
        BY <2>1, <3>3 DEF CanCommit, Agrees
    <2> QED
      BY <1>2, <2>2, <2>3
  <1>3. CASE table[i] = rows[i]
    BY <1>3
  <1> QED
    BY <1>1, <1>2, <1>3, UpsertedRows

\* a row after a cleanup: not known to it, a duplicate, a keeper that is gone,
\* or a keeper under its canonical identity
CleanedTo(w, keepers, i, row) ==
    \/ i \notin Stored(seen[w]) /\ row = rows[i]
    \/ i \in Stored(seen[w]) /\ i \notin keepers /\ row = Gone /\ rows[i] # Unused
    \/ i \in keepers /\ row = Gone /\ rows[i] = Gone
    \/ /\ i \in keepers /\ i \in Stored(rows) /\ row \in Row
       /\ row.cycle = rows[i].cycle /\ row.source \in Names(rows[i].cycle)
       /\ row.closeTime = rows[i].closeTime
       /\ row.source = Flushed(seen[w][i].source, Canonical(seen[w][i].source),
                               rows[i].source)

LEMMA CleanedRow ==
  ASSUME TableInv, NEW w \in Workers, NEW keepers \in SUBSET Stored(seen[w]),
         NEW table, table = Cleaned(seen[w], keepers), NEW i \in Ids
  PROVE  CleanedTo(w, keepers, i, table[i])
  <1>1. /\ seen[w] \in Table /\ Named(seen[w]) /\ Agrees(seen[w])
    BY ViewAgrees
  <1>2. CASE i \notin Stored(seen[w])
    BY <1>2 DEF Cleaned, CleanedTo
  <1>3. CASE i \in Stored(seen[w]) /\ i \notin keepers
    BY <1>1, <1>3 DEF Cleaned, Agrees, CleanedTo
  <1>4. CASE i \in keepers
    <2> DEFINE loaded == seen[w][i]
               new == [loaded EXCEPT !.source = Canonical(@)]
    <2>1. i \in Stored(seen[w]) /\ loaded \in Row /\ rows[i] # Unused
      BY <1>1, <1>4 DEF Stored, Table, Agrees
    <2>2. loaded.source \in Names(loaded.cycle) /\ loaded.cycle \in Cycles
      BY <1>1, <2>1 DEF Named, Row
    <2>3. Canonical(loaded.source) \in Names(loaded.cycle)
      BY <2>2, CanonicalStays DEF TableInv, TypeOK
    <2>4. Names(loaded.cycle) \subseteq Sources
      BY <2>2, IdentityTyped DEF TableInv, TypeOK
    <2>5. /\ new \in Row /\ new.cycle = loaded.cycle
          /\ new.source = Canonical(loaded.source) /\ new.closeTime = loaded.closeTime
      BY <2>1, <2>3, <2>4 DEF Row
    <2>6. table[i] = Written(i, loaded, new)
      BY <1>4 DEF Cleaned
    <2> HIDE DEF new, loaded
    <2>7. i \in Stored(rows) => rows[i].cycle = new.cycle
      BY <1>1, <2>1, <2>5 DEF Agrees, loaded
    <2>8. /\ Written(i, loaded, new) = Gone <=> rows[i] = Gone
          /\ i \in Stored(rows) => /\ table[i] \in Row
                                   /\ table[i].cycle = rows[i].cycle
                                   /\ table[i].source \in Names(new.cycle)
      BY <2>1, <2>3, <2>5, <2>6, <2>7, WrittenRow
    <2>9. CASE rows[i] = Gone
      BY <1>4, <2>6, <2>8, <2>9 DEF CleanedTo
    <2>10. CASE rows[i] # Gone
      <3>1. i \in Stored(rows)
        BY <2>1, <2>10 DEF Stored
      <3>2. table[i].closeTime = rows[i].closeTime
        BY <2>5, <2>6, <2>10 DEF Written, Flushed
      <3>3. table[i].source = Flushed(loaded.source, new.source, rows[i].source)
        BY <2>6, <2>10 DEF Written
      <3> QED
        BY <1>4, <2>5, <2>7, <2>8, <3>1, <3>2, <3>3 DEF loaded, CleanedTo
    <2> QED
      BY <2>9, <2>10
  <1> QED
    BY <1>2, <1>3, <1>4

\* the view of the upsert inside the rebuild
LEMMA SessionViewOK ==
  ASSUME TableInv, NEW w \in Workers, NEW doomed \in SUBSET Stored(seen[w])
  PROVE  /\ SessionView(w, doomed) \in Table /\ Named(SessionView(w, doomed))
         /\ Agrees(SessionView(w, doomed))
         /\ \A i \in doomed : rows[i] # Unused /\ i \notin Stored(SessionView(w, doomed))
  <1> DEFINE later == SessionView(w, doomed)
  <1>1. /\ seen[w] \in Table /\ Named(seen[w]) /\ Agrees(seen[w])
        /\ rows \in Table /\ Named(rows)
    BY ViewAgrees DEF TableInv, TypeOK, Table
  <1>2. /\ later = [i \in Ids |-> later[i]]
        /\ \A i \in Ids : \/ i \in doomed /\ later[i] = Gone
                          \/ /\ i \notin doomed /\ later[i] = seen[w][i]
                             /\ i \in Stored(seen[w]) /\ rows[i] # Gone
                          \/ i \notin doomed /\ later[i] = rows[i]
    BY DEF SessionView
  <1> HIDE DEF later
  <1>3. later \in Table
    BY <1>1, <1>2 DEF Table
  <1>4. ASSUME NEW i \in Stored(later)
        PROVE  /\ later[i].source \in Names(later[i].cycle)
               /\ rows[i] # Unused /\ (i \in Stored(rows) => later[i].cycle = rows[i].cycle)
               /\ i \notin doomed
    <2>1. i \in Ids /\ later[i] # Gone /\ later[i] # Unused
      BY DEF Stored
    <2>2. CASE later[i] = seen[w][i] /\ i \in Stored(seen[w]) /\ i \notin doomed
      BY <1>1, <2>2 DEF Named, Agrees
    <2>3. CASE later[i] = rows[i] /\ i \notin doomed
      BY <1>1, <2>1, <2>3 DEF Named, Stored
    <2> QED
      BY <1>2, <2>1, <2>2, <2>3
  <1>5. \A i \in doomed : rows[i] # Unused
    BY <1>1 DEF Agrees
  <1> QED
    BY <1>3, <1>4, <1>5 DEF Named, Agrees, later

\* what every step makes of the rows
RowsStep ==
    /\ rows' \in Table /\ Follows(rows, rows') /\ UniqueSources(rows')
    /\ \A i \in Stored(rows') : rows'[i].source \in Names(rows'[i].cycle)

LEMMA UpsertStep ==
  ASSUME TableInv, NEW w \in Workers, NEW view, NEW target, NEW more,
         CanCommit(w, view, target, more), rows' = Upserted(w, view, target, more),
         UniqueSources(rows')
  PROVE  RowsStep
  <1>1. rows' = [i \in Ids |-> rows'[i]]
    BY DEF Upserted
  <1>2. rows \in Table /\ Named(rows)
    BY DEF TableInv, TypeOK, Table
  <1>3. ASSUME NEW i \in Ids
        PROVE  /\ rows'[i] \in Row \cup {Unused, Gone}
               /\ rows[i] # Unused => rows'[i] # Unused
               /\ rows[i] = Gone => rows'[i] = Gone
               /\ i \in Stored(rows) \cap Stored(rows') => rows[i].cycle = rows'[i].cycle
               /\ i \in Stored(rows') => rows'[i].source \in Names(rows'[i].cycle)
    <2>1. CASE rows'[i] = rows[i]
      BY <1>2, <2>1 DEF Stored, Table, Named
    <2>2. CASE rows'[i] = Gone /\ rows[i] # Unused
      BY <2>2, ClosedMarks DEF Stored
    <2>3. CASE \E c \in Items(w) : /\ rows'[i] \in Row /\ rows'[i].cycle = c
                                   /\ rows'[i].source \in Names(c) /\ rows[i] # Gone
                                   /\ i \in Stored(rows) => rows[i].cycle = c
      BY <2>3, ClosedMarks
    <2> QED
      BY <2>1, <2>2, <2>3, UpsertedRow
  <1>4. rows' \in Table
    BY <1>1, <1>3 DEF Table
  <1>5. \A i \in Stored(rows') : i \in Ids
    BY DEF Stored
  <1> QED
    BY <1>3, <1>4, <1>5 DEF RowsStep, Follows

LEMMA CleanupStep ==
  ASSUME TableInv, NEW w \in Workers, NEW keepers \in SUBSET Stored(seen[w]),
         rows' = Cleaned(seen[w], keepers), UniqueSources(rows')
  PROVE  RowsStep
  <1>1. rows' = [i \in Ids |-> rows'[i]]
    BY DEF Cleaned
  <1>2. rows \in Table /\ Named(rows)
    BY DEF TableInv, TypeOK, Table
  <1>3. ASSUME NEW i \in Ids
        PROVE  /\ rows'[i] \in Row \cup {Unused, Gone}
               /\ rows[i] # Unused => rows'[i] # Unused
               /\ rows[i] = Gone => rows'[i] = Gone
               /\ i \in Stored(rows) \cap Stored(rows') => rows[i].cycle = rows'[i].cycle
               /\ i \in Stored(rows') => rows'[i].source \in Names(rows'[i].cycle)
    <2>1. CASE rows'[i] = rows[i]
      BY <1>2, <2>1 DEF Stored, Table, Named
    <2>2. CASE rows'[i] = Gone /\ rows[i] # Unused
      BY <2>2, ClosedMarks DEF Stored
    <2>3. CASE /\ i \in Stored(rows) /\ rows'[i] \in Row
               /\ rows'[i].cycle = rows[i].cycle /\ rows'[i].source \in Names(rows[i].cycle)
      BY <2>3, ClosedMarks DEF Stored
    <2> QED
      BY <2>1, <2>2, <2>3, CleanedRow, ClosedMarks DEF CleanedTo
  <1>4. rows' \in Table
    BY <1>1, <1>3 DEF Table
  <1>5. \A i \in Stored(rows') : i \in Ids
    BY DEF Stored
  <1> QED
    BY <1>3, <1>4, <1>5 DEF RowsStep, Follows

LEMMA SyncUpserts ==
  ASSUME TableInv, NEW w \in Workers, CommitSync(w)
  PROVE  \E target \in [Items(w) -> Ids] :
            /\ CanCommit(w, seen[w], target, {})
            /\ rows' = Upserted(w, seen[w], target, {}) /\ UniqueSources(rows')
  BY ViewAgrees DEF CommitSync, CanCommit

LEMMA RebuildUpserts ==
  ASSUME TableInv, NEW w \in Workers, CommitRebuild(w)
  PROVE  \E keepers \in SUBSET UnderOldIdentity(seen[w]) :
            LET doomed == UnderOldIdentity(seen[w]) \ keepers
                later  == SessionView(w, doomed)
            IN \E target \in [Items(w) -> Ids] :
                  /\ CanCommit(w, later, target, doomed)
                  /\ rows' = Upserted(w, later, target, doomed) /\ UniqueSources(rows')
  <1>1. PICK keepers \in SUBSET UnderOldIdentity(seen[w]) :
          LET doomed == UnderOldIdentity(seen[w]) \ keepers
              later  == SessionView(w, doomed)
          IN \E target \in [Items(w) -> Ids] :
                /\ CanUpsert(w, later, target)
                /\ rows' = Upserted(w, later, target, doomed) /\ UniqueSources(rows')
    BY DEF CommitRebuild
  <1> DEFINE doomed == UnderOldIdentity(seen[w]) \ keepers
             later  == SessionView(w, doomed)
  <1>2. PICK target \in [Items(w) -> Ids] :
          /\ CanUpsert(w, later, target)
          /\ rows' = Upserted(w, later, target, doomed) /\ UniqueSources(rows')
    BY <1>1
  <1>3. doomed \in SUBSET Stored(seen[w])
    BY DEF UnderOldIdentity
  <1>4. CanCommit(w, later, target, doomed)
    BY <1>2, <1>3, SessionViewOK DEF CanCommit
  <1> QED
    BY <1>2, <1>4

LEMMA RowsNext ==
  ASSUME TableInv, [Next]_vars
  PROVE  RowsStep
  <1>1. ASSUME NEW w \in Workers, CommitSync(w) PROVE RowsStep
    BY <1>1, SyncUpserts, UpsertStep
  <1>2. ASSUME NEW w \in Workers, CommitRebuild(w) PROVE RowsStep
    <2>1. \E view, target, more :
            /\ CanCommit(w, view, target, more)
            /\ rows' = Upserted(w, view, target, more) /\ UniqueSources(rows')
      BY <1>2, RebuildUpserts
    <2> QED
      BY <2>1, UpsertStep
  <1>3. ASSUME NEW w \in Workers, CommitCleanup(w) PROVE RowsStep
    <2>1. PICK keepers \in SUBSET Stored(seen[w]) :
            rows' = Cleaned(seen[w], keepers) /\ UniqueSources(rows')
      BY <1>3 DEF CommitCleanup
    <2> QED
      BY <2>1, CleanupStep
  <1>4. CASE rows' = rows
    <2>1. rows \in Table /\ Named(rows) /\ UniqueSources(rows)
      BY DEF TableInv, TypeOK, Table
    <2> QED
      BY <1>4, <2>1 DEF RowsStep, Follows, Named
  <1>5. \/ \E w \in Workers : CommitSync(w) \/ CommitCleanup(w) \/ CommitRebuild(w)
        \/ rows' = rows
    BY DEF Next, Sync, Tool, Workers, Tick, Reduce, Fetch, LoadRows, GiveUp,
         StartCleanup, vars, dbVars
  <1> QED
    BY <1>1, <1>2, <1>3, <1>4, <1>5

(***************************************************************************)
(* Types.                                                                  *)
(***************************************************************************)
LEMMA TotalsTyped ==
  ASSUME daily \in [Days -> SUBSET Ids], NEW table, NEW days
  PROVE  Totals(table, days) \in [Days -> SUBSET Ids]
  BY DEF Totals, OnDay, Stored

LEMMA DailyNext ==
  ASSUME TypeOK, [Next]_vars
  PROVE  /\ dailyDays' \in SUBSET Days /\ daily' \in [Days -> SUBSET Ids]
         /\ overtaken' \in SUBSET dailyDays'
  <1>0. /\ dailyDays \in SUBSET Days /\ daily \in [Days -> SUBSET Ids]
        /\ overtaken \in SUBSET dailyDays
    BY DEF TypeOK
  <1>1. ASSUME NEW w \in Workers, CommitSync(w)
        PROVE  /\ dailyDays' \in SUBSET Days /\ daily' \in [Days -> SUBSET Ids]
               /\ overtaken' \in SUBSET dailyDays'
    <2> DEFINE today == DayOf(started[w])
               repaired == Totals(rows', RepairedBySync(w))
               upToNow == {i \in OnDay(rows', today) : rows'[i].closeTime <= started[w]}
               others == overtaken \ RepairedBySync(w)
    <2>1. today \in Days
      BY DayTyped DEF TypeOK
    <2>2. /\ repaired \in [Days -> SUBSET Ids] /\ upToNow \in SUBSET Ids
          /\ others \in SUBSET dailyDays
      BY <1>0, TotalsTyped DEF OnDay, Stored
    <2>3. \/ /\ dailyDays' = dailyDays \cup {today}
             /\ daily' = [repaired EXCEPT ![today] = upToNow]
             /\ overtaken' = others \cup {today} \/ overtaken' = others \ {today}
          \/ daily' = repaired /\ dailyDays' = dailyDays /\ overtaken' = others
      BY <1>1 DEF CommitSync
    <2> HIDE DEF today, repaired, upToNow, others
    <2> QED
      BY <1>0, <2>1, <2>2, <2>3
  <1>2. ASSUME NEW w \in Workers, CommitCleanup(w) \/ CommitRebuild(w)
        PROVE  /\ dailyDays' \in SUBSET Days /\ daily' \in [Days -> SUBSET Ids]
               /\ overtaken' \in SUBSET dailyDays'
    BY <1>0, <1>2, TotalsTyped DEF CommitCleanup, CommitRebuild
  <1>3. \/ \E w \in Workers : CommitSync(w) \/ CommitCleanup(w) \/ CommitRebuild(w)
        \/ dailyDays' = dailyDays /\ daily' = daily /\ overtaken' = overtaken
    BY DEF Next, Sync, Tool, Workers, Tick, Reduce, Fetch, LoadRows, GiveUp,
         StartCleanup, vars, dbVars
  <1> QED
    BY <1>0, <1>1, <1>2, <1>3

\* the sessions a commit has passed by
LEMMA PassedNext ==
  ASSUME TypeOK, [Next]_vars
  PROVE  /\ passed' \in SUBSET Workers
         /\ \A v \in Workers : v \in passed /\ v \notin passed' => pc'[v] = "idle"
  <1>1. ASSUME NEW w \in Workers, CommitSync(w)
        PROVE  passed' = (passed \cup StartedBefore(w)) \ {w} /\ pc'[w] = "idle"
    BY <1>1 DEF CommitSync, Reset, TypeOK
  <1>2. ASSUME NEW w \in Workers, CommitCleanup(w) \/ CommitRebuild(w) \/ GiveUp(w)
        PROVE  passed' = passed \ {w} /\ pc'[w] = "idle"
    BY <1>2 DEF CommitCleanup, CommitRebuild, GiveUp, Reset, TypeOK
  <1>3. \/ \E w \in Workers : CommitSync(w) \/ CommitCleanup(w) \/ CommitRebuild(w) \/ GiveUp(w)
        \/ passed' = passed
    BY DEF Next, Sync, Tool, Workers, Tick, Reduce, Fetch, LoadRows, StartCleanup,
         vars, workerVars
  <1>4. \A w \in Workers : StartedBefore(w) \in SUBSET Workers
    BY DEF StartedBefore
  <1> QED
    BY <1>1, <1>2, <1>3, <1>4 DEF TypeOK

LEMMA ClockNext ==
  ASSUME TypeOK, [Next]_vars
  PROVE  exchange' = exchange /\ now' \in Time /\ closedAt' \in [Cycles -> Time]
  BY DEF TypeOK, Next, Sync, Tool, Tick, Reduce, Fetch, LoadRows, GiveUp, Reset,
       StartCleanup, CommitSync, CommitCleanup, CommitRebuild, vars, Time

\* a session's own steps leave the others alone
OthersStay(w) ==
    \A v \in Workers \ {w} : /\ pc'[v] = pc[v] /\ started'[v] = started[v]
                             /\ answer'[v] = answer[v] /\ seen'[v] = seen[v]

Ends(w) ==
    Reset(w) /\ (GiveUp(w) \/ CommitSync(w) \/ CommitCleanup(w) \/ CommitRebuild(w))

LEMMA WorkerActs ==
  ASSUME TypeOK, NEW w \in Workers,
         Fetch(w) \/ LoadRows(w) \/ StartCleanup(w) \/ GiveUp(w) \/ CommitSync(w)
         \/ CommitCleanup(w) \/ CommitRebuild(w)
  PROVE  OthersStay(w) /\ (Fetch(w) \/ LoadRows(w) \/ StartCleanup(w) \/ Ends(w))
  BY DEF TypeOK, Fetch, LoadRows, StartCleanup, GiveUp, CommitSync, CommitCleanup,
     CommitRebuild, Reset, OthersStay, Ends

\* what a step does to one worker, and to no other
LEMMA WorkersNext ==
  ASSUME TypeOK, [Next]_vars
  PROVE  \/ UNCHANGED workerVars
         \/ \E w \in Workers :
              OthersStay(w) /\ (Fetch(w) \/ LoadRows(w) \/ StartCleanup(w) \/ Ends(w))
  <1>1. \/ UNCHANGED workerVars
        \/ \E w \in Workers : Fetch(w) \/ LoadRows(w) \/ StartCleanup(w) \/ GiveUp(w)
             \/ CommitSync(w) \/ CommitCleanup(w) \/ CommitRebuild(w)
    BY DEF Next, Sync, Tool, Workers, Tick, Reduce, vars
  <1> QED
    BY <1>1, WorkerActs

LEMMA TypeNext ==
  ASSUME TypeOK, rows' \in Table, [Next]_vars
  PROVE  TypeOK'
  <1>1. /\ exchange' \in Exchanges /\ now' \in Time /\ closedAt' \in [Cycles -> Time]
        /\ dailyDays' \in SUBSET Days /\ daily' \in [Days -> SUBSET Ids]
        /\ passed' \in SUBSET Workers /\ overtaken' \in SUBSET dailyDays'
    BY ClockNext, DailyNext, PassedNext DEF TypeOK
  <1>2. /\ pc' \in [Workers -> {"idle", "fetched", "loaded", "cleaning"}]
        /\ started' \in [Workers -> Time]
        /\ answer' \in [Workers -> [Cycles -> Time]]
        /\ seen' \in [Workers -> Table]
    <2>0. /\ pc \in [Workers -> {"idle", "fetched", "loaded", "cleaning"}]
          /\ started \in [Workers -> Time] /\ answer \in [Workers -> [Cycles -> Time]]
          /\ seen \in [Workers -> Table] /\ rows \in Table /\ NoRows \in Table
          /\ 0 \in Time /\ NoAnswer \in [Cycles -> Time] /\ now \in Time
      BY DEF TypeOK, Table, NoRows, NoAnswer, Time
    <2>1. ASSUME NEW w \in Workers, Fetch(w)
          PROVE  answer' \in [Workers -> [Cycles -> Time]]
      <3>1. PICK from \in 1 .. now :
              answer' = [answer EXCEPT ![w] =
                [c \in Cycles |-> IF closedAt[c] >= from THEN closedAt[c] ELSE 0]]
        BY <2>1 DEF Fetch
      <3>2. [c \in Cycles |-> IF closedAt[c] >= from THEN closedAt[c] ELSE 0]
              \in [Cycles -> Time]
        BY <2>0 DEF TypeOK
      <3> QED
        BY <2>0, <3>1, <3>2
    <2>2. CASE UNCHANGED workerVars
      BY <2>0, <2>2 DEF workerVars
    <2>3. ASSUME NEW w \in Workers, Fetch(w)
          PROVE  /\ pc' \in [Workers -> {"idle", "fetched", "loaded", "cleaning"}]
                 /\ started' \in [Workers -> Time] /\ seen' \in [Workers -> Table]
      BY <2>0, <2>3 DEF Fetch
    <2>4. ASSUME NEW w \in Workers, LoadRows(w) \/ StartCleanup(w)
          PROVE  /\ pc' \in [Workers -> {"idle", "fetched", "loaded", "cleaning"}]
                 /\ started' \in [Workers -> Time]
                 /\ answer' \in [Workers -> [Cycles -> Time]]
                 /\ seen' \in [Workers -> Table]
      BY <2>0, <2>4 DEF LoadRows, StartCleanup
    <2>5. ASSUME NEW w \in Workers, Reset(w)
          PROVE  /\ pc' \in [Workers -> {"idle", "fetched", "loaded", "cleaning"}]
                 /\ started' \in [Workers -> Time]
                 /\ answer' \in [Workers -> [Cycles -> Time]]
                 /\ seen' \in [Workers -> Table]
      BY <2>0, <2>5 DEF Reset
    <2> QED
      BY <2>1, <2>2, <2>3, <2>4, <2>5, WorkersNext DEF Ends
  <1> QED
    BY <1>1, <1>2 DEF TypeOK, Table, Workers

LEMMA NamesStay ==
  ASSUME exchange' = exchange
  PROVE  /\ \A c : Names(c)' = Names(c) /\ Identity(c)' = Identity(c)
         /\ (\A i \in Stored(rows') : rows'[i].source \in Names(rows'[i].cycle))
               => Named(rows)'
  <1>1. \A c : Names(c)' = Names(c) /\ Identity(c)' = Identity(c)
    BY DEF Names, Identity, Base, Plain, Staged
  <1> QED
    BY <1>1 DEF Named, Stored

\* a session keeps its view, loads the rows, or forgets its view
LEMMA SeenNext ==
  ASSUME TableInv, [Next]_vars, NEW w \in Workers
  PROVE  \/ seen'[w] = seen[w] /\ pc'[w] = pc[w]
         \/ seen'[w] = NoRows /\ pc'[w] \in {"idle", "fetched"}
         \/ seen'[w] = rows /\ pc'[w] \notin {"idle", "fetched"} /\ rows' = rows
  <1>1. ASSUME Fetch(w) PROVE seen'[w] = NoRows /\ pc'[w] \in {"idle", "fetched"}
    BY <1>1 DEF Fetch, TableInv, ViewOK, TypeOK
  <1>2. ASSUME LoadRows(w) \/ StartCleanup(w)
        PROVE  seen'[w] = rows /\ pc'[w] \notin {"idle", "fetched"} /\ rows' = rows
    BY <1>2 DEF LoadRows, StartCleanup, TableInv, TypeOK, dbVars
  <1>3. ASSUME Reset(w) PROVE seen'[w] = NoRows /\ pc'[w] \in {"idle", "fetched"}
    BY <1>3 DEF Reset, TableInv, TypeOK
  <1>4. \/ UNCHANGED workerVars
        \/ \E v \in Workers :
             /\ \A u \in Workers \ {v} : pc'[u] = pc[u] /\ seen'[u] = seen[u]
             /\ Fetch(v) \/ LoadRows(v) \/ StartCleanup(v) \/ Reset(v)
    BY WorkersNext DEF TableInv, OthersStay, Ends
  <1> QED
    BY <1>1, <1>2, <1>3, <1>4 DEF workerVars

LEMMA ViewNext ==
  ASSUME TableInv, TypeOK', RowsStep, [Next]_vars, NEW w \in Workers
  PROVE  ViewOK(w)'
  <1>1. ViewOK(w) /\ seen[w] \in Table /\ rows \in Table /\ exchange' = exchange
    BY ClockNext DEF TableInv, TypeOK, Table
  <1>2. \A c : Names(c)' = Names(c)
    BY <1>1, NamesStay
  <1>3. rows' \in Table /\ Follows(rows, rows')
    BY DEF RowsStep
  <1>4. CASE seen'[w] = seen[w] /\ pc'[w] = pc[w]
    <2>1. Follows(seen[w], rows')
      BY <1>1, <1>3, FollowsTrans DEF ViewOK
    <2> QED
      BY <1>1, <1>2, <1>4, <2>1 DEF ViewOK, Named, UniqueSources, Stored, NoRows,
           Follows, Table
  <1>5. CASE seen'[w] = NoRows
    <2>1. NoRows \in Table /\ Stored(NoRows) = {} /\ \A i \in Ids : NoRows[i] = Unused
      BY DEF NoRows, Table, Stored
    <2>2. Stored(seen'[w]) = {} /\ NoRows' = NoRows
      BY <1>5, <2>1 DEF Stored, NoRows
    <2> HIDE DEF NoRows
    <2> QED
      BY <1>5, <2>1, <2>2, ClosedMarks DEF ViewOK, Named, UniqueSources, Stored, Follows, Table
  <1>6. CASE seen'[w] = rows /\ pc'[w] \notin {"idle", "fetched"}
    <2>1. Named(rows) /\ UniqueSources(rows)
      BY DEF TableInv
    <2> QED
      BY <1>1, <1>2, <1>3, <1>6, <2>1 DEF ViewOK, Named, UniqueSources, Stored, Follows
  <1> QED
    BY <1>1, <1>4, <1>5, <1>6, SeenNext

LEMMA TableNext == TableInv /\ [Next]_vars => TableInv'
  <1> SUFFICES ASSUME TableInv, [Next]_vars PROVE TableInv'
    OBVIOUS
  <1>1. RowsStep /\ exchange' = exchange
    <2>1. TypeOK
      BY DEF TableInv
    <2> QED
      BY <2>1, RowsNext, ClockNext
  <1>2. TypeOK'
    BY <1>1, TypeNext DEF TableInv, RowsStep
  <1>3. Named(rows)' /\ UniqueSources(rows)'
    BY <1>1, NamesStay DEF RowsStep, UniqueSources, Stored
  <1>4. \A w \in Workers : ViewOK(w)'
    BY <1>1, <1>2, ViewNext
  <1> QED
    BY <1>2, <1>3, <1>4 DEF TableInv, Workers

\* Types, through upserts, merges and rebuilds by any number of sessions.
THEOREM SpecTypeOK == Spec => []TypeOK
  <1>1. TableInv => TypeOK
    BY DEF TableInv
  <1> QED
    BY <1>1, TableInit, TableNext, PTL DEF Spec

(***************************************************************************)
(* No second row for a cycle. A session may not know a row that another    *)
(* inserted since it loaded; such a row has the identity of its cycle, so  *)
(* that the unique key refuses a second one.                               *)
(***************************************************************************)
Own(row) == row.source = Identity(row.cycle)

Active(w) == pc[w] \in {"loaded", "cleaning"}

\* the rows inserted since w loaded: nobody has seen them under another identity
FreshOwn(w) ==
    Active(w) => \A i \in Ids : seen[w][i] = Unused =>
        /\ i \in Stored(rows) => Own(rows[i])
        /\ \A v \in Workers : i \in Stored(seen[v]) => Own(seen[v][i])

FreshInv == TableInv /\ \A w \in Workers : FreshOwn(w)

\* the identity of its cycle is kept by whoever saw a row under it
LEMMA OwnStays ==
  ASSUME TableInv, NEW w \in Workers, NEW i \in Ids, [Next]_vars,
         i \in Stored(rows'), seen[w][i] = Unused, Active(w), FreshOwn(w)
  PROVE  Own(rows'[i])
  <1>1. CASE rows'[i] = rows[i]
    BY <1>1 DEF FreshOwn, Stored
  <1>2. ASSUME NEW v \in Workers, NEW view, NEW target, NEW more,
               CanCommit(v, view, target, more), rows' = Upserted(v, view, target, more),
               rows'[i] # rows[i],
               i \in Stored(view) => view[i] = rows[i] \/ view[i] = seen[v][i]
        PROVE  Own(rows'[i])
    <2>1. PICK c \in Items(v) :
            /\ rows'[i] \in Row /\ rows'[i].cycle = c /\ rows[i] # Gone
            /\ i \in Stored(rows) => rows[i].cycle = c
            /\ rows[i] = Unused => rows'[i] = Item(v, c)
            /\ rows[i] # Unused => /\ rows'[i] = Written(i, view[i], Item(v, c))
                                   /\ i \in Of(view, c)
      BY <1>2, UpsertedRow DEF Stored
    <2>2. CASE rows[i] = Unused
      BY <2>1, <2>2, ItemTyped DEF Own
    <2>3. CASE rows[i] # Unused
      <3>1. i \in Stored(rows) /\ Own(rows[i]) /\ rows[i].cycle = c
        BY <2>1, <2>3 DEF Stored, FreshOwn
      <3>2. view[i].source = Identity(c)
        <4>1. i \in Stored(view) /\ view[i].cycle = c
          BY <2>1, <2>3 DEF Of
        <4>2. CASE view[i] = rows[i]
          BY <3>1, <4>2 DEF Own
        <4>3. CASE view[i] = seen[v][i]
          BY <4>1, <4>3 DEF Own, FreshOwn, Stored
        <4> QED
          BY <1>2, <4>1, <4>2, <4>3
      <3>3. rows'[i].source = rows[i].source
        BY <2>1, <2>3, <3>2, ItemTyped DEF Written, Flushed
      <3> QED
        BY <2>1, <3>1, <3>3 DEF Own
    <2> QED
      BY <2>2, <2>3
  <1>3. ASSUME NEW v \in Workers, CommitSync(v) PROVE Own(rows'[i])
    BY <1>1, <1>2, <1>3, SyncUpserts
  <1>4. ASSUME NEW v \in Workers, CommitRebuild(v) PROVE Own(rows'[i])
    <2>1. PICK doomed, target :
            /\ CanCommit(v, SessionView(v, doomed), target, doomed)
            /\ rows' = Upserted(v, SessionView(v, doomed), target, doomed)
      BY <1>4, RebuildUpserts
    <2> DEFINE later == SessionView(v, doomed)
    <2>2. i \in Stored(later) => later[i] = rows[i] \/ later[i] = seen[v][i]
      BY DEF SessionView, Stored
    <2> HIDE DEF later
    <2> QED
      BY <1>1, <1>2, <2>1, <2>2 DEF later
  <1>5. ASSUME NEW v \in Workers, CommitCleanup(v) PROVE Own(rows'[i])
    <2>1. PICK keepers \in SUBSET Stored(seen[v]) : rows' = Cleaned(seen[v], keepers)
      BY <1>5 DEF CommitCleanup
    <2>2. CASE i \in Stored(seen[v]) /\ rows'[i] # rows[i]
      <3>1. /\ i \in Stored(rows) /\ rows'[i].cycle = rows[i].cycle
            /\ rows'[i].source = Flushed(seen[v][i].source, Canonical(seen[v][i].source),
                                         rows[i].source)
        <4>1. rows'[i] # Gone /\ i \in Ids
          BY DEF Stored
        <4>2. CleanedTo(v, keepers, i, rows'[i])
          BY <2>1, <4>1, CleanedRow
        <4> QED
          BY <2>2, <4>1, <4>2 DEF CleanedTo
      <3>2. Own(rows[i]) /\ Own(seen[v][i])
        BY <2>2, <3>1 DEF FreshOwn
      <3>3. Canonical(seen[v][i].source) = seen[v][i].source
        BY <3>2 DEF Own, Identity, Canonical, Plain
      <3> QED
        BY <3>1, <3>2, <3>3 DEF Own, Flushed
    <2>3. CASE i \notin Stored(seen[v])
      BY <1>1, <2>1, <2>3, CleanedRow DEF CleanedTo, Stored
    <2> QED
      BY <1>1, <2>2, <2>3
  <1>6. \/ \E v \in Workers : CommitSync(v) \/ CommitCleanup(v) \/ CommitRebuild(v)
        \/ rows' = rows
    BY DEF Next, Sync, Tool, Workers, Tick, Reduce, Fetch, LoadRows, GiveUp,
         StartCleanup, vars, dbVars
  <1> QED
    BY <1>1, <1>3, <1>4, <1>5, <1>6

LEMMA FreshNext == FreshInv /\ [Next]_vars => FreshInv'
  <1> SUFFICES ASSUME FreshInv, [Next]_vars PROVE FreshInv'
    OBVIOUS
  <1>1. TableInv /\ TableInv' /\ exchange' = exchange
    BY TableNext, ClockNext DEF FreshInv, TableInv
  <1>2. \A row : Own(row)' = Own(row)
    BY <1>1, NamesStay DEF Own
  <1>3. ASSUME NEW w \in Workers, Active(w)', NEW i \in Ids, seen'[w][i] = Unused
        PROVE  /\ i \in Stored(rows)' => Own(rows'[i])
               /\ \A v \in Workers : i \in Stored(seen[v])' => Own(seen'[v][i])
    <2>0. /\ \A v \in Workers : seen[v][i] # Unused => rows[i] # Unused
          /\ Stored(rows)' = Stored(rows')
          /\ \A v \in Workers : Stored(seen[v])' = Stored(seen'[v])
      BY <1>1 DEF TableInv, ViewOK, Follows, Stored
    <2>1. CASE seen'[w] = rows /\ rows' = rows
      <3>1. rows[i] = Unused
        BY <1>3, <2>1
      <3>2. ASSUME NEW v \in Workers PROVE i \notin Stored(seen'[v])
        <4>1. seen'[v] = seen[v] \/ seen'[v] = NoRows \/ seen'[v] = rows
          BY <1>1, SeenNext
        <4> QED
          BY <2>0, <3>1, <4>1 DEF Stored, NoRows
      <3> QED
        BY <2>0, <2>1, <3>1, <3>2 DEF Stored
    <2>2. CASE seen'[w] = seen[w] /\ pc'[w] = pc[w]
      <3>1. Active(w) /\ seen[w][i] = Unused /\ FreshOwn(w)
        BY <1>3, <2>2 DEF Active, FreshInv
      <3>2. i \in Stored(rows') => Own(rows'[i])
        BY <1>1, <3>1, OwnStays
      <3>3. ASSUME NEW v \in Workers, i \in Stored(seen'[v]) PROVE Own(seen'[v][i])
        <4>1. \/ seen'[v] = seen[v] \/ seen'[v] = NoRows \/ seen'[v] = rows
          BY <1>1, SeenNext
        <4>2. seen'[v] # NoRows
          BY <3>3 DEF Stored, NoRows
        <4> QED
          BY <3>1, <3>3, <4>1, <4>2 DEF FreshOwn
      <3> QED
        BY <2>0, <3>2, <3>3
    <2> QED
      BY <1>1, <1>3, <2>1, <2>2, SeenNext DEF Active
  <1>4. ASSUME NEW w \in Workers PROVE FreshOwn(w)'
    <2>1. Workers' = Workers /\ \A row : Own(row)' = Own(row)
      BY <1>2 DEF Workers
    <2> QED
      BY <1>1, <1>3, <2>1 DEF FreshOwn, Own
  <1> QED
    BY <1>1, <1>4 DEF FreshInv, Workers

LEMMA FreshInit == Init => FreshInv
  BY TableInit DEF Init, FreshInv, FreshOwn, Active

\* where the rows of a cycle come from: one that is inserted is the only one
LEMMA InsertedAlone ==
  ASSUME FreshInv, NEW w \in Workers, Active(w), NEW view, NEW target, NEW more,
         CanCommit(w, view, target, more), rows' = Upserted(w, view, target, more),
         UniqueSources(rows'), exchange' = exchange,
         \A i \in Stored(seen[w]) \ Stored(view) : i \in more \/ rows[i] = Gone,
         NEW c \in Items(w), rows[target[c]] = Unused,
         NEW j \in Of(rows, c)
  PROVE  j \notin Stored(rows')
  <1> SUFFICES ASSUME j \in Stored(rows') PROVE FALSE
    OBVIOUS
  <1>1. /\ c \in Cycles /\ j \in Ids /\ j \in Stored(rows) /\ rows[j].cycle = c
        /\ rows[j] # Unused /\ rows[j] # Gone
    BY DEF Of, Stored, Items
  <1>2. target[c] \in Ids /\ rows'[target[c]] = Item(w, c) /\ Of(view, c) = {}
    <2>1. target[c] \in Ids /\ target[c] \in Targets(view, c)
      BY DEF CanCommit, CanUpsert
    <2>2. rows'[target[c]] = Item(w, c)
      BY UpsertedRows DEF FreshInv
    <2> QED
      BY <1>1, <2>1, <2>2, TargetsAre DEF FreshInv, CanCommit
  <1>3. j \notin Stored(view)
    BY <1>1, <1>2 DEF CanCommit, Agrees, Of
  <1>4. j \notin more
    BY UpsertedRows, <1>1 DEF FreshInv, Stored
  <1>5. seen[w][j] = Unused
    <2>1. ViewOK(w)
      BY DEF FreshInv, TableInv
    <2>2. j \notin Stored(seen[w])
      BY <1>1, <1>3, <1>4
    <2> QED
      BY <1>1, <2>1, <2>2 DEF ViewOK, Follows, Stored
  <1>6. rows[j].source = Identity(c)
    BY <1>1, <1>5 DEF FreshInv, FreshOwn, Own
  <1>7. rows'[j] = rows[j]
    <2>1. ASSUME NEW d \in Items(w) PROVE j # target[d]
      <3>1. target[d] \in Targets(view, d) /\ d \in Cycles
        BY DEF CanCommit, CanUpsert, Items
      <3>2. target[d] \in Of(view, d) \/ rows[target[d]] = Unused
        BY <3>1, TargetsAre DEF FreshInv, CanCommit
      <3> QED
        BY <1>1, <1>3, <3>2 DEF Of
    <2>2. j \notin Doomed(w, view, target)
      BY <1>1, UpsertedRows DEF FreshInv, Stored
    <2> QED
      BY <1>1, <1>4, <2>1, <2>2, UpsertedRows DEF FreshInv
  <1>8. target[c] \in Stored(rows') /\ rows'[target[c]].source = Identity(c)
    BY <1>2, ItemTyped, ClosedMarks DEF FreshInv, Stored
  <1>9. j = target[c]
    BY <1>6, <1>7, <1>8 DEF UniqueSources
  <1> QED
    BY <1>1, <1>9

\* A commit that upserts gives no cycle a second row.
LEMMA UpsertKeepsOne ==
  ASSUME FreshInv, NEW w \in Workers, Active(w), NEW view, NEW target, NEW more,
         CanCommit(w, view, target, more), rows' = Upserted(w, view, target, more),
         UniqueSources(rows'), exchange' = exchange,
         \A i \in Stored(seen[w]) \ Stored(view) : i \in more \/ rows[i] = Gone,
         NEW c \in Cycles, AtMostOne(Of(rows, c))
  PROVE  AtMostOne(Of(rows', c))
  <1>1. ASSUME NEW i \in Of(rows', c)
        PROVE  \/ i \in Of(rows, c)
               \/ c \in Items(w) /\ i = target[c] /\ rows[i] = Unused
    <2>1. i \in Ids /\ rows'[i] # Gone /\ rows'[i] # Unused /\ rows'[i].cycle = c
      BY DEF Of, Stored
    <2>2. CASE rows'[i] = rows[i]
      BY <2>1, <2>2 DEF Of, Stored
    <2>3. CASE \E d \in Items(w) : /\ i = target[d] /\ rows'[i].cycle = d /\ rows[i] # Gone
                                   /\ i \in Stored(rows) => rows[i].cycle = d
      BY <2>1, <2>3 DEF Of, Stored
    <2> QED
      BY <2>1, <2>2, <2>3, UpsertedRow DEF FreshInv
  <1>2. CASE c \in Items(w) /\ rows[target[c]] = Unused
    <2>1. Of(rows, c) \cap Of(rows', c) = {}
      BY <1>2, InsertedAlone DEF Of
    <2> QED
      BY <1>1, <2>1 DEF AtMostOne
  <1>3. CASE ~(c \in Items(w) /\ rows[target[c]] = Unused)
    BY <1>1, <1>3 DEF AtMostOne
  <1> QED
    BY <1>2, <1>3

LEMMA OneRowNext ==
  ASSUME FreshInv, [Next]_vars, NEW c \in Cycles, AtMostOne(Of(rows, c))
  PROVE  AtMostOne(Of(rows', c))
  <1>0. TableInv /\ exchange' = exchange
    BY ClockNext DEF FreshInv, TableInv
  <1>1. ASSUME NEW w \in Workers, CommitSync(w) PROVE AtMostOne(Of(rows', c))
    <2>1. Active(w)
      BY <1>1 DEF CommitSync, Active
    <2> QED
      BY <1>0, <1>1, <2>1, SyncUpserts, UpsertKeepsOne
  <1>2. ASSUME NEW w \in Workers, CommitRebuild(w) PROVE AtMostOne(Of(rows', c))
    <2>1. Active(w)
      BY <1>2 DEF CommitRebuild, Active
    <2>2. PICK doomed, target :
            /\ CanCommit(w, SessionView(w, doomed), target, doomed)
            /\ rows' = Upserted(w, SessionView(w, doomed), target, doomed)
            /\ UniqueSources(rows')
      BY <1>0, <1>2, RebuildUpserts
    <2>3. \A i \in Stored(seen[w]) \ Stored(SessionView(w, doomed)) :
             i \in doomed \/ rows[i] = Gone
      BY DEF SessionView, Stored
    <2> QED
      BY <1>0, <2>1, <2>2, <2>3, UpsertKeepsOne
  <1>3. ASSUME NEW w \in Workers, CommitCleanup(w) PROVE AtMostOne(Of(rows', c))
    <2>1. PICK keepers \in SUBSET Stored(seen[w]) : rows' = Cleaned(seen[w], keepers)
      BY <1>3 DEF CommitCleanup
    <2>2. ASSUME NEW i \in Of(rows', c) PROVE i \in Of(rows, c)
      <3>1. i \in Ids /\ rows'[i] # Gone /\ rows'[i] # Unused /\ rows'[i].cycle = c
        BY DEF Of, Stored
      <3>2. CleanedTo(w, keepers, i, rows'[i])
        BY <1>0, <2>1, <3>1, CleanedRow
      <3> QED
        BY <3>1, <3>2 DEF Of, Stored, CleanedTo
    <2> QED
      BY <2>2 DEF AtMostOne
  <1>4. CASE rows' = rows
    BY <1>4
  <1>5. \/ \E w \in Workers : CommitSync(w) \/ CommitCleanup(w) \/ CommitRebuild(w)
        \/ rows' = rows
    BY DEF Next, Sync, Tool, Workers, Tick, Reduce, Fetch, LoadRows, GiveUp,
         StartCleanup, vars, dbVars
  <1> QED
    BY <1>1, <1>2, <1>3, <1>4, <1>5

\* Whatever sessions load, delete, rename and insert side by side, however many,
\* a cycle with one row at most gets no second one (_upsert_closed_positions and
\* the tools of maintenance.py).
THEOREM SpecNoNewDuplicate == Spec => NoNewDuplicate
  <1>1. FreshInv /\ [Next]_vars =>
          [\A c \in Cycles : AtMostOne(Of(rows, c)) => AtMostOne(Of(rows', c))]_vars
    BY OneRowNext
  <1> QED
    BY <1>1, FreshInit, FreshNext, PTL DEF Spec, NoNewDuplicate

(***************************************************************************)
(* Daily totals. A total written with the balance counts what closed until *)
(* the request began. A later close can be stored by then only if another  *)
(* synchronisation, which has started later, has committed meanwhile.      *)
(***************************************************************************)
InFlight(w) == pc[w] \in {"fetched", "loaded"}

LateInv ==
    /\ TableInv
    /\ LateSettlementsReachTheirDay
    /\ \A c \in Cycles : closedAt[c] <= now
    /\ \A w \in Workers :
          started[w] <= now /\ \A c \in Items(w) : answer[w][c] <= started[w]
    /\ \A i \in Stored(rows) :
          /\ rows[i].closeTime <= now
          /\ exchange = "POLYMARKET" =>
                \A w \in Workers \ passed : InFlight(w) => rows[i].closeTime <= started[w]

LEMMA LateInit == Init => LateInv
  <1> SUFFICES ASSUME Init PROVE LateInv
    OBVIOUS
  <1>1. TableInv
    BY TableInit
  <1>2. /\ \A w \in Workers : pc[w] = "idle" /\ answer[w] = NoAnswer
        /\ now = StartTime /\ closedAt \in [Cycles -> 0 .. StartTime]
    BY DEF Init
  <1>3. ASSUME NEW i \in Stored(rows) PROVE rows[i].closeTime <= now
    <2>1. rows[i] \in LegacyRows(closedAt)
      BY DEF Init, Stored
    <2>2. rows[i].cycle \in Cycles /\ rows[i].closeTime \in 1 .. closedAt[rows[i].cycle]
      BY <2>1 DEF LegacyRows, Row
    <2>3. closedAt[rows[i].cycle] \in 0 .. StartTime
      BY <1>2, <2>2
    <2> HIDE DEF Init
    <2> QED
      BY <1>2, <2>2, <2>3
  <1>4. LateSettlementsReachTheirDay
    <2>1. ASSUME NEW i \in Stored(rows), DayOf(rows[i].closeTime) \in dailyDays
          PROVE  i \in daily[DayOf(rows[i].closeTime)]
      <3>1. DayOf(rows[i].closeTime) \in Days
        BY <1>1, <2>1 DEF TableInv, TypeOK
      <3> QED
        BY <2>1, <3>1 DEF Init, OnDay
    <2> QED
      BY <2>1 DEF LateSettlementsReachTheirDay
  <1>5. \A w \in Workers : Items(w) = {} /\ started[w] <= now
    BY <1>2 DEF Init, Items, NoAnswer
  <1>6. \A c \in Cycles : closedAt[c] <= now
    BY <1>2
  <1>7. \A w \in Workers : pc[w] = "idle"
    BY <1>2
  <1> QED
    BY <1>1, <1>3, <1>4, <1>5, <1>6, <1>7 DEF LateInv, InFlight

\* the time a row has after a step: the one it had, or that of an item
LEMMA CloseTimes ==
  ASSUME LateInv, NEW w \in Workers, NEW view, NEW target, NEW more,
         CanCommit(w, view, target, more), rows' = Upserted(w, view, target, more),
         NEW i \in Stored(rows')
  PROVE  \/ i \in Stored(rows) /\ rows'[i].closeTime = rows[i].closeTime
         \/ \E c \in Items(w) : rows'[i].closeTime = answer[w][c]
  <1>1. i \in Ids /\ rows'[i] # Gone /\ rows'[i] # Unused
    BY DEF Stored
  <1>2. CASE rows'[i] = rows[i]
    BY <1>1, <1>2 DEF Stored
  <1>3. CASE \E c \in Items(w) :
               /\ rows[i] # Gone
               /\ rows[i] = Unused => rows'[i] = Item(w, c)
               /\ rows[i] # Unused => rows'[i] = Written(i, view[i], Item(w, c))
    <2>1. PICK c \in Items(w) : /\ rows[i] # Gone
                                /\ rows[i] = Unused => rows'[i] = Item(w, c)
                                /\ rows[i] # Unused => rows'[i] = Written(i, view[i], Item(w, c))
      BY <1>3
    <2>2. Item(w, c).closeTime = answer[w][c]
      BY ItemTyped DEF LateInv
    <2>3. CASE rows[i] = Unused
      BY <2>1, <2>2, <2>3
    <2>4. CASE rows[i] # Unused
      BY <1>1, <2>1, <2>2, <2>4 DEF Written, Flushed, Stored
    <2> QED
      BY <2>3, <2>4
  <1> QED
    BY <1>1, <1>2, <1>3, UpsertedRow DEF LateInv

LEMMA SyncReachesDays ==
  ASSUME LateInv, TypeOK', exchange = "POLYMARKET", exchange' = exchange,
         NEW w \in Workers, CommitSync(w)
  PROVE  LateSettlementsReachTheirDay'
  <1> DEFINE today == DayOf(started[w])
             repaired == Totals(rows', DaysOf(w))
             upToNow == {i \in OnDay(rows', today) : rows'[i].closeTime <= started[w]}
             others == overtaken \ DaysOf(w)
  <1> SUFFICES ASSUME NEW i \in Stored(rows'), NEW day, day = DayOf(rows'[i].closeTime),
                      day \in dailyDays', day \notin overtaken'
               PROVE  i \in daily'[day]
    BY DEF LateSettlementsReachTheirDay, Stored, DayOf
  <1>1. TableInv /\ pc[w] = "loaded"
    BY DEF LateInv, CommitSync
  <1>2. /\ daily \in [Days -> SUBSET Ids] /\ today \in Days /\ started[w] \in Time
        /\ dailyDays \in SUBSET Days
    BY <1>1, DayTyped DEF TableInv, TypeOK
  <1>3. \/ i \in Stored(rows) /\ rows'[i].closeTime = rows[i].closeTime
        \/ \E c \in Items(w) : rows'[i].closeTime = answer[w][c]
    BY <1>1, SyncUpserts, CloseTimes
  <1>4. w \notin passed => rows'[i].closeTime <= started[w]
    BY <1>1, <1>3 DEF LateInv, InFlight
  <1>5. repaired \in [Days -> SUBSET Ids] /\ upToNow \in SUBSET Ids
    BY <1>2, TotalsTyped DEF OnDay, Stored
  <1>6. day \in dailyDays /\ day \notin others => i \in repaired[day]
    <2>1. CASE day \in DaysOf(w)
      BY <1>2, <2>1 DEF Totals, OnDay
    <2>2. CASE day \notin DaysOf(w)
      <3>1. i \in Stored(rows) /\ rows'[i].closeTime = rows[i].closeTime
        BY <1>3, <2>2 DEF DaysOf
      <3> QED
        BY <1>2, <2>2, <3>1 DEF LateInv, LateSettlementsReachTheirDay, Totals, OnDay
    <2> QED
      BY <2>1, <2>2
  <1>7. day = today /\ w \notin passed => i \in upToNow
    BY <1>4 DEF OnDay
  <1>8. \/ /\ dailyDays' = dailyDays \cup {today}
           /\ daily' = [repaired EXCEPT ![today] = upToNow]
           /\ overtaken' = IF w \in passed THEN others \cup {today} ELSE others \ {today}
        \/ daily' = repaired /\ dailyDays' = dailyDays /\ overtaken' = others
    BY DEF CommitSync, RepairedBySync
  <1> HIDE DEF today, repaired, upToNow, others
  <1>9. CASE /\ dailyDays' = dailyDays \cup {today}
             /\ daily' = [repaired EXCEPT ![today] = upToNow]
             /\ overtaken' = IF w \in passed THEN others \cup {today} ELSE others \ {today}
    <2>1. CASE day = today
      <3>1. w \notin passed
        BY <1>9, <2>1
      <3> QED
        BY <1>2, <1>5, <1>7, <1>9, <2>1, <3>1
    <2>2. CASE day # today
      <3>1. day \in dailyDays /\ day \notin others
        BY <1>9, <2>2
      <3> QED
        BY <1>2, <1>5, <1>6, <1>9, <2>2, <3>1
    <2> QED
      BY <2>1, <2>2
  <1> QED
    BY <1>6, <1>8, <1>9

LEMMA CleanupReachesDays ==
  ASSUME LateInv, TypeOK', exchange = "POLYMARKET", NEW w \in Workers, CommitCleanup(w)
  PROVE  LateSettlementsReachTheirDay'
  <1> SUFFICES ASSUME NEW i \in Stored(rows'), NEW day, day = DayOf(rows'[i].closeTime),
                      day \in dailyDays', day \notin overtaken'
               PROVE  i \in daily'[day]
    BY DEF LateSettlementsReachTheirDay, Stored, DayOf
  <1>1. /\ dailyDays' = dailyDays /\ daily' = Totals(rows', RepairedByCleanup(seen[w]))
        /\ overtaken' = overtaken \ RepairedByCleanup(seen[w])
    BY DEF CommitCleanup
  <1>2. day \in Days /\ TableInv /\ i \in Ids /\ rows'[i] # Gone /\ rows'[i] # Unused
    BY DEF TypeOK, LateInv, Stored
  <1>3. PICK keepers \in SUBSET Stored(seen[w]) : rows' = Cleaned(seen[w], keepers)
    BY DEF CommitCleanup
  <1>4. CleanedTo(w, keepers, i, rows'[i])
    BY <1>2, <1>3, CleanedRow
  <1>5. i \in Stored(rows) /\ rows'[i].closeTime = rows[i].closeTime
    BY <1>2, <1>4 DEF CleanedTo, Stored
  <1>6. day \notin RepairedByCleanup(seen[w]) => i \in daily[day]
    BY <1>1, <1>5 DEF LateInv, LateSettlementsReachTheirDay
  <1> QED
    BY <1>1, <1>2, <1>6 DEF Totals, OnDay

LEMMA LateStep ==
  ASSUME LateInv, TypeOK', [Next]_vars
  PROVE  LateSettlementsReachTheirDay'
  <1>0. TypeOK /\ TableInv /\ exchange' = exchange
    BY ClockNext DEF LateInv, TableInv
  <1>1. CASE exchange # "POLYMARKET"
    BY <1>0, <1>1 DEF LateSettlementsReachTheirDay
  <1>2. ASSUME exchange = "POLYMARKET", NEW w \in Workers, CommitSync(w)
        PROVE  LateSettlementsReachTheirDay'
    BY <1>0, <1>2, SyncReachesDays
  <1>3. ASSUME exchange = "POLYMARKET", NEW w \in Workers, CommitCleanup(w)
        PROVE  LateSettlementsReachTheirDay'
    BY <1>3, CleanupReachesDays
  <1>4. ASSUME exchange = "POLYMARKET", NEW w \in Workers, CommitRebuild(w) PROVE FALSE
    BY <1>4 DEF CommitRebuild
  <1>5. CASE rows' = rows /\ daily' = daily /\ dailyDays' = dailyDays /\ overtaken' = overtaken
    BY <1>0, <1>5 DEF LateInv, LateSettlementsReachTheirDay, Stored, DayOf
  <1>6. \/ \E w \in Workers : CommitSync(w) \/ CommitCleanup(w) \/ CommitRebuild(w)
        \/ rows' = rows /\ daily' = daily /\ dailyDays' = dailyDays /\ overtaken' = overtaken
    BY DEF Next, Sync, Tool, Workers, Tick, Reduce, Fetch, LoadRows, GiveUp, StartCleanup,
         vars, dbVars
  <1> QED
    BY <1>1, <1>2, <1>3, <1>4, <1>5, <1>6

\* the clock and the answers, which are never ahead of it
LEMMA AnswersNext ==
  ASSUME LateInv, TypeOK', [Next]_vars
  PROVE  /\ now <= now' /\ \A c \in Cycles : closedAt'[c] <= now'
         /\ \A w \in Workers :
               /\ started'[w] <= now'
               /\ \A c \in Cycles : answer'[w][c] # 0 => answer'[w][c] <= started'[w]
         /\ \A w \in Workers : InFlight(w)' =>
               started'[w] = now \/ (InFlight(w) /\ started'[w] = started[w])
  <1>0. TypeOK /\ TableInv /\ now \in Nat /\ \A c \in Cycles : closedAt[c] <= now
    BY DEF LateInv, TableInv, TypeOK, Time
  <1>1. now <= now' /\ \A c \in Cycles : closedAt'[c] <= now'
    <2>1. CASE Tick
      BY <1>0, <2>1 DEF Tick, TypeOK, Time
    <2>2. CASE \E c \in Cycles : Reduce(c)
      BY <1>0, <2>2 DEF Reduce, TypeOK, Time
    <2>3. CASE now' = now /\ closedAt' = closedAt
      BY <1>0, <2>3
    <2> QED
      BY <2>1, <2>2, <2>3 DEF Next, Sync, Tool, Fetch, LoadRows, GiveUp, StartCleanup,
           CommitSync, CommitCleanup, CommitRebuild, vars
  <1>2. ASSUME NEW w \in Workers, Fetch(w)
        PROVE  /\ \A c \in Cycles : answer'[w][c] # 0 => answer'[w][c] <= started'[w]
               /\ started'[w] = now
    <2>1. PICK from \in 1 .. now :
            answer' = [answer EXCEPT ![w] =
              [c \in Cycles |-> IF closedAt[c] >= from THEN closedAt[c] ELSE 0]]
      BY <1>2 DEF Fetch
    <2>2. started'[w] = now
      BY <1>0, <1>2 DEF Fetch, TypeOK
    <2>3. \A c \in Cycles : answer'[w][c] = IF closedAt[c] >= from THEN closedAt[c] ELSE 0
      BY <1>0, <2>1 DEF TypeOK
    <2> QED
      BY <1>0, <2>2, <2>3
  <1>3. ASSUME NEW w \in Workers, Reset(w)
        PROVE  /\ \A c \in Cycles : answer'[w][c] = 0
               /\ pc'[w] = "idle"
    BY <1>0, <1>3 DEF Reset, TypeOK, NoAnswer
  <1>4. ASSUME NEW w \in Workers, LoadRows(w) \/ StartCleanup(w)
        PROVE  /\ answer'[w] = answer[w] /\ started'[w] = started[w]
               /\ pc[w] = "fetched" \/ pc'[w] = "cleaning"
    BY <1>0, <1>4 DEF LoadRows, StartCleanup, TypeOK
  <1>5. ASSUME NEW w \in Workers
        PROVE  \A c \in Cycles : answer[w][c] # 0 => answer[w][c] <= started[w]
    BY DEF LateInv, Items
  <1>6. ASSUME NEW w \in Workers
        PROVE  \/ Fetch(w) \/ LoadRows(w) \/ StartCleanup(w) \/ Reset(w)
               \/ /\ pc'[w] = pc[w] /\ started'[w] = started[w] /\ answer'[w] = answer[w]
    BY <1>0, WorkersNext DEF workerVars, OthersStay, Ends
  <1>8. ASSUME NEW w \in Workers
        PROVE  /\ started'[w] <= now'
               /\ \A c \in Cycles : answer'[w][c] # 0 => answer'[w][c] <= started'[w]
    <2>1. \A c \in Cycles : answer'[w][c] # 0 => answer'[w][c] <= started'[w]
      BY <1>2, <1>3, <1>4, <1>5, <1>6
    <2>2. started'[w] = now \/ started'[w] = started[w] \/ started'[w] = 0
      BY <1>0, <1>2, <1>4, <1>6 DEF Reset, TypeOK
    <2>3. started[w] \in Nat /\ started[w] <= now /\ now' \in Nat
      BY <1>0 DEF LateInv, TypeOK, Time
    <2>4. now \in Nat /\ now <= now'
      BY <1>0, <1>1
    <2>5. started'[w] <= now'
      BY <2>2, <2>3, <2>4
    <2> QED
      BY <2>1, <2>5
  <1>9. ASSUME NEW w \in Workers, InFlight(w)'
        PROVE  started'[w] = now \/ (InFlight(w) /\ started'[w] = started[w])
    BY <1>2, <1>3, <1>4, <1>6, <1>9 DEF InFlight
  <1> QED
    BY <1>1, <1>8, <1>9

\* what a commit writes did not close after the start of any session it has not passed
LEMMA LateRow ==
  ASSUME LateInv, TypeOK', [Next]_vars, NEW i \in Stored(rows')
  PROVE  \/ i \in Stored(rows) /\ rows'[i].closeTime = rows[i].closeTime
         \/ \E v \in Workers : \E c \in Items(v) :
               /\ rows'[i].closeTime = answer[v][c]
               /\ \/ exchange # "POLYMARKET"
                  \/ pc'[v] = "idle" /\ passed' = (passed \cup StartedBefore(v)) \ {v}
  <1>1. TableInv /\ TypeOK
    BY DEF LateInv, TableInv
  <1>2. ASSUME NEW v \in Workers, CommitSync(v)
        PROVE  \/ i \in Stored(rows) /\ rows'[i].closeTime = rows[i].closeTime
               \/ /\ \E c \in Items(v) : rows'[i].closeTime = answer[v][c]
                  /\ pc'[v] = "idle" /\ passed' = (passed \cup StartedBefore(v)) \ {v}
    <2>1. \/ i \in Stored(rows) /\ rows'[i].closeTime = rows[i].closeTime
          \/ \E c \in Items(v) : rows'[i].closeTime = answer[v][c]
      BY <1>1, <1>2, SyncUpserts, CloseTimes
    <2>2. pc'[v] = "idle" /\ passed' = (passed \cup StartedBefore(v)) \ {v}
      BY <1>1, <1>2 DEF CommitSync, Reset, TypeOK
    <2> QED
      BY <2>1, <2>2
  <1>3. ASSUME NEW v \in Workers, CommitRebuild(v)
        PROVE  \/ i \in Stored(rows) /\ rows'[i].closeTime = rows[i].closeTime
               \/ /\ \E c \in Items(v) : rows'[i].closeTime = answer[v][c]
                  /\ exchange # "POLYMARKET"
    <2>1. \E view, target, more : CanCommit(v, view, target, more)
                                  /\ rows' = Upserted(v, view, target, more)
      BY <1>1, <1>3, RebuildUpserts
    <2> QED
      BY <1>3, <2>1, CloseTimes DEF CommitRebuild
  <1>4. ASSUME NEW v \in Workers, CommitCleanup(v)
        PROVE  i \in Stored(rows) /\ rows'[i].closeTime = rows[i].closeTime
    <2>1. i \in Ids /\ rows'[i] # Gone /\ rows'[i] # Unused
      BY DEF Stored
    <2>2. PICK keepers \in SUBSET Stored(seen[v]) : rows' = Cleaned(seen[v], keepers)
      BY <1>4 DEF CommitCleanup
    <2>3. CleanedTo(v, keepers, i, rows'[i])
      BY <1>1, <2>1, <2>2, CleanedRow
    <2> QED
      BY <2>1, <2>3 DEF CleanedTo, Stored
  <1>5. CASE rows' = rows
    BY <1>5
  <1>6. \/ \E v \in Workers : CommitSync(v) \/ CommitCleanup(v) \/ CommitRebuild(v)
        \/ rows' = rows
    BY DEF Next, Sync, Tool, Workers, Tick, Reduce, Fetch, LoadRows, GiveUp, StartCleanup,
         vars, dbVars
  <1> QED
    BY <1>2, <1>3, <1>4, <1>5, <1>6

LEMMA LateNext == LateInv /\ [Next]_vars => LateInv'
  <1> SUFFICES ASSUME LateInv, [Next]_vars PROVE LateInv'
    OBVIOUS
  <1>1. TableInv /\ TypeOK /\ TableInv' /\ TypeOK' /\ exchange' = exchange
    BY TableNext, ClockNext DEF LateInv, TableInv
  <1>2. /\ now <= now' /\ \A c \in Cycles : closedAt'[c] <= now'
        /\ \A w \in Workers :
              /\ started'[w] <= now'
              /\ \A c \in Cycles : answer'[w][c] # 0 => answer'[w][c] <= started'[w]
        /\ \A w \in Workers : InFlight(w)' =>
              started'[w] = now \/ (InFlight(w) /\ started'[w] = started[w])
    BY <1>1, AnswersNext
  <1>3. /\ now \in Nat /\ now' \in Nat
        /\ \A w \in Workers : started[w] \in Nat /\ \A c \in Cycles : answer[w][c] \in Nat
        /\ \A i \in Stored(rows) : rows[i].closeTime \in Nat
    <2>1. \A i \in Stored(rows) : rows[i] \in Row
      BY <1>1 DEF TypeOK, Stored
    <2> QED
      BY <1>1, <2>1 DEF TypeOK, Time, Row
  <1>4. ASSUME NEW i \in Stored(rows')
        PROVE  /\ rows'[i].closeTime <= now
               /\ exchange = "POLYMARKET" =>
                     \A w \in Workers : InFlight(w)' /\ w \notin passed' =>
                        rows'[i].closeTime <= started'[w]
    <2>1. CASE i \in Stored(rows) /\ rows'[i].closeTime = rows[i].closeTime
      <3>1. rows'[i].closeTime <= now
        BY <2>1 DEF LateInv
      <3>2. ASSUME exchange = "POLYMARKET", NEW w \in Workers, InFlight(w)', w \notin passed'
            PROVE  rows'[i].closeTime <= started'[w]
        <4>1. w \notin passed
          BY <1>1, <3>2, PassedNext DEF InFlight
        <4> QED
          BY <1>2, <2>1, <3>1, <3>2, <4>1 DEF LateInv
      <3> QED
        BY <3>1, <3>2
    <2>2. ASSUME NEW v \in Workers, NEW c \in Items(v), rows'[i].closeTime = answer[v][c],
                 \/ exchange # "POLYMARKET"
                 \/ pc'[v] = "idle" /\ passed' = (passed \cup StartedBefore(v)) \ {v}
          PROVE  /\ rows'[i].closeTime <= now
                 /\ exchange = "POLYMARKET" =>
                       \A w \in Workers : InFlight(w)' /\ w \notin passed' =>
                          rows'[i].closeTime <= started'[w]
      <3>1. c \in Cycles /\ rows'[i].closeTime <= started[v] /\ started[v] <= now
        BY <2>2 DEF LateInv, Items
      <3>2. rows'[i].closeTime \in Nat
        BY <1>3, <2>2, <3>1
      <3>3. ASSUME exchange = "POLYMARKET", NEW w \in Workers, InFlight(w)', w \notin passed'
            PROVE  rows'[i].closeTime <= started'[w]
        <4>1. CASE started'[w] = now
          BY <1>3, <3>1, <3>2, <4>1
        <4>2. CASE InFlight(w) /\ started'[w] = started[w]
          <5>1. w # v /\ w \notin StartedBefore(v)
            BY <2>2, <3>3 DEF InFlight
          <5>2. started[v] <= started[w]
            BY <1>3, <4>2, <5>1 DEF StartedBefore, InFlight
          <5> QED
            BY <1>3, <3>1, <3>2, <4>2, <5>2
        <4> QED
          BY <1>2, <3>3, <4>1, <4>2
      <3> QED
        BY <1>3, <3>1, <3>2, <3>3
    <2> QED
      BY <1>1, <2>1, <2>2, LateRow
  <1>5. \A i \in Stored(rows') : rows'[i].closeTime \in Nat
    <2>1. \A i \in Stored(rows') : rows'[i] \in Row
      BY <1>1 DEF TypeOK, Stored
    <2> QED
      BY <2>1 DEF Time, Row
  <1>6. \A i \in Stored(rows') : rows'[i].closeTime <= now'
    BY <1>2, <1>3, <1>4, <1>5
  <1>7. LateSettlementsReachTheirDay'
    BY <1>1, LateStep
  <1>8. \A w \in Workers' : started'[w] <= now' /\ \A c \in Items(w)' : answer'[w][c] <= started'[w]
    BY <1>2 DEF Items, Workers
  <1>9. Workers' = Workers /\ Stored(rows)' = Stored(rows')
    BY DEF Workers, Stored
  <1> QED
    BY <1>1, <1>2, <1>4, <1>6, <1>7, <1>8, <1>9 DEF LateInv

\* A settlement that arrives late is part of the total of its day, if that day has
\* one, whatever synchronisations of the server and of scripts and whatever cleanups
\* run side by side; only the total of a synchronisation that commits after one
\* which started later may lack it, until the day is written again
\* (_refresh_polymarket_closed_daily_pnl, the write phase of sync_account).
THEOREM SpecLateSettlements == Spec => []LateSettlementsReachTheirDay
  <1>1. LateInv /\ [Next]_vars => LateInv'
    BY LateNext
  <1>2. LateInv => LateSettlementsReachTheirDay
    BY DEF LateInv
  <1> QED
    BY <1>1, <1>2, LateInit, PTL DEF Spec

(***************************************************************************)
(* No cycle is lost. Two sessions may both delete rows of one cycle; they  *)
(* lose it only if each keeps the row the other deletes. While a cycle has *)
(* two rows, no commit has touched what decides which one is kept, so that *)
(* whoever loaded them made the same choice.                               *)
(***************************************************************************)
\* the scripts are run by hand, one at a time
OneTool == \A v, w \in Tools : v = w

\* a row that an upsert or a tool may merge with others of its cycle
IsKin(row)    == exchange = "OKX" => row.source.form # "cycle"
Kin(table, c) == {i \in Of(table, c) : IsKin(table[i])}

\* two states of a row between which no merge of its cycle chooses differently
Alike(a, b) ==
    /\ a.cycle = b.cycle
    /\ exchange = "OKX" => (a.source.form = "cycle" <=> b.source.form = "cycle")
    /\ exchange # "OKX" => a.source = b.source
    /\ exchange # "POLYMARKET" /\ IsKin(a) => a.closeTime = b.closeTime

TwinsAlike ==
    \A c \in Cycles : \A i, j \in Of(rows, c) : i # j =>
        \A w \in Workers : Active(w) => i \in Stored(seen[w]) /\ Alike(seen[w][i], rows[i])

Distinct ==
    exchange # "POLYMARKET" =>
        \A c \in Cycles : \A i, j \in Kin(rows, c) :
            i # j => rows[i].closeTime # rows[j].closeTime

\* what Bitget answers is not older than a row that has a twin
Answered ==
    exchange = "BITGET" => \A c \in Cycles :
        /\ \A i, j \in Of(rows, c) : i # j =>
              /\ rows[i].closeTime <= closedAt[c]
              /\ \A w \in Workers : c \in Items(w) => rows[i].closeTime <= answer[w][c]
        /\ \A w \in Workers : \A i, j \in Of(seen[w], c) :
              i # j /\ c \in Items(w) => seen[w][i].closeTime <= answer[w][c]

\* w does not keep i and delete j
Preferred(w, i, j, c) ==
    /\ exchange = "BITGET" => \/ seen[w][j].source = Identity(c)
                              \/ seen[w][j].closeTime > seen[w][i].closeTime
    /\ exchange = "OKX" => seen[w][j].closeTime > seen[w][i].closeTime
    /\ exchange = "POLYMARKET" /\ pc[w] = "cleaning" => seen[w][i].source # Identity(c)

Kept ==
    \A c \in Cycles : \A w \in Workers : \A i, j \in Kin(seen[w], c) :
        Active(w) /\ i # j /\ rows[i] = Gone /\ j \in Stored(rows) => Preferred(w, i, j, c)

KeepInv ==
    /\ FreshInv /\ TwinsAlike /\ Distinct /\ Answered /\ Kept
    /\ \A w \in Syncs : pc[w] # "cleaning"

LEMMA AlikeTrans ==
  ASSUME NEW a, NEW b, NEW c, Alike(a, b), Alike(b, c)
  PROVE  Alike(a, c)
  BY DEF Alike, IsKin

\* the rows of a cycle that may be merged are found by the upsert and make a group
LEMMA KinMerge ==
  ASSUME exchange \in Exchanges, NEW view \in Table, Named(view), NEW c \in Cycles,
         NEW i \in Kin(view, c)
  PROVE  i \in SameCycle(view, c) /\ Canonical(view[i].source) = Plain(Base(c))
  <1>1. i \in Of(view, c) /\ view[i].source \in Names(c) /\ IsKin(view[i])
    BY DEF Kin, Of, Named
  <1>2. Canonical(view[i].source) = Plain(Base(c))
    BY <1>1 DEF Names, IsKin, Canonical, Identity, Plain, Staged
  <1>3. view[i].source.base = Base(c)
    BY <1>1 DEF Names, IsKin, Identity, Plain, Staged
  <1>4. exchange # "OKX" => Identity(c) = Plain(Base(c))
    BY DEF Identity
  <1> QED
    BY <1>1, <1>2, <1>3, <1>4 DEF SameCycle, Of, IsKin, Exchanges

\* two rows of one cycle, as every session that has loaded them knows them
LEMMA Twins ==
  ASSUME KeepInv, NEW c \in Cycles, NEW i \in Of(rows, c), NEW j \in Of(rows, c), i # j,
         NEW w \in Workers, Active(w)
  PROVE  /\ i \in Of(seen[w], c) /\ j \in Of(seen[w], c)
         /\ Alike(seen[w][i], rows[i]) /\ Alike(seen[w][j], rows[j])
         /\ (IsKin(seen[w][i]) <=> IsKin(rows[i]))
         /\ (IsKin(seen[w][j]) <=> IsKin(rows[j]))
  <1>1. /\ i \in Stored(seen[w]) /\ Alike(seen[w][i], rows[i])
        /\ j \in Stored(seen[w]) /\ Alike(seen[w][j], rows[j])
    BY DEF KeepInv, TwinsAlike
  <1> QED
    BY <1>1 DEF Alike, Of, IsKin

LEMMA OfUpserted ==
  ASSUME TableInv, NEW w \in Workers, NEW view, NEW target, NEW more,
         CanCommit(w, view, target, more), rows' = Upserted(w, view, target, more),
         NEW c \in Cycles, NEW i \in Of(rows', c)
  PROVE  i \in Of(rows, c) \/ (c \in Items(w) /\ i = target[c] /\ rows[i] = Unused)
  <1>1. i \in Ids /\ rows'[i] # Gone /\ rows'[i] # Unused /\ rows'[i].cycle = c
    BY DEF Of, Stored
  <1>2. CASE rows'[i] = rows[i]
    BY <1>1, <1>2 DEF Of, Stored
  <1>3. CASE \E d \in Items(w) : /\ i = target[d] /\ rows'[i].cycle = d /\ rows[i] # Gone
                                 /\ i \in Stored(rows) => rows[i].cycle = d
    BY <1>1, <1>3 DEF Of, Stored
  <1> QED
    BY <1>1, <1>2, <1>3, UpsertedRow

\* a row that an upsert deletes is one of its duplicates
LEMMA UpsertedGone ==
  ASSUME TableInv, NEW w \in Workers, NEW view, NEW target, NEW more,
         CanCommit(w, view, target, more), rows' = Upserted(w, view, target, more),
         NEW i \in Ids, rows[i] # Gone, rows'[i] = Gone
  PROVE  i \in more \cup Doomed(w, view, target)
  <1>1. ASSUME NEW c \in Items(w), i = target[c] PROVE FALSE
    <2>1. c \in Cycles /\ Item(w, c) \in Row /\ Item(w, c).cycle = c
          /\ Item(w, c).source \in Names(c)
      BY ItemTyped
    <2>2. (i \in Of(view, c) /\ rows[i] # Unused) \/ rows[i] = Unused
      <3>1. i \in Targets(view, c)
        BY <1>1 DEF CanCommit, CanUpsert
      <3> QED
        BY <2>1, <3>1, TargetsAre DEF CanCommit
    <2>3. rows'[i] = IF rows[i] = Unused THEN Item(w, c)
                     ELSE Written(i, view[i], Item(w, c))
      BY <1>1, UpsertedRows
    <2>4. CASE rows[i] = Unused
      BY <2>1, <2>3, <2>4, ClosedMarks
    <2>5. CASE rows[i] # Unused
      <3>1. i \in Stored(rows) => rows[i].cycle = c
        BY <2>2, <2>5 DEF Of, CanCommit, Agrees
      <3>2. Written(i, view[i], Item(w, c)) # Gone
        BY <2>1, <2>5, <3>1, WrittenRow
      <3> QED
        BY <2>3, <2>5, <3>2
    <2> QED
      BY <2>4, <2>5
  <1> QED
    BY <1>1, UpsertedRows

\* the view of a commit that upserts: what the session loaded, but for deletions
Knows(w, view, more) ==
    \A i \in Stored(seen[w]) \cap Stored(rows) : i \in more \/ view[i] = seen[w][i]

\* Two rows of a cycle after an upsert were there before, and alike.
LEMMA UpsertKeepsTwins ==
  ASSUME KeepInv, NEW w \in Workers, Active(w), NEW view, NEW target, NEW more,
         CanCommit(w, view, target, more), rows' = Upserted(w, view, target, more),
         UniqueSources(rows'), exchange' = exchange, Knows(w, view, more),
         NEW c \in Cycles, NEW i \in Of(rows', c), NEW j \in Of(rows', c), i # j
  PROVE  i \in Of(rows, c) /\ j \in Of(rows, c) /\ Alike(rows[i], rows'[i])
  <1>0. /\ TableInv /\ FreshInv /\ exchange \in Exchanges
        /\ view \in Table /\ Named(view)
    BY DEF KeepInv, FreshInv, TableInv, TypeOK, CanCommit
  <1>1. /\ i \in Ids /\ rows'[i] # Gone /\ rows'[i] # Unused /\ rows'[i].cycle = c
        /\ j \in Ids /\ rows'[j] # Gone /\ rows'[j] # Unused /\ rows'[j].cycle = c
        /\ i \in Stored(rows') /\ j \in Stored(rows')
    BY DEF Of, Stored
  <1>2. i \in Of(rows, c) /\ j \in Of(rows, c)
    <2>1. \A k \in Stored(seen[w]) \ Stored(view) : k \in more \/ rows[k] = Gone
      <3>1. ViewOK(w)
        BY <1>0 DEF TableInv
      <3> QED
        BY <3>1 DEF Knows, ViewOK, Follows, Stored
    <2>2. CASE c \in Items(w) /\ rows[target[c]] = Unused
      <3>1. i \notin Of(rows, c) /\ j \notin Of(rows, c)
        BY <1>0, <1>1, <2>1, <2>2, InsertedAlone
      <3> QED
        BY <1>0, <3>1, OfUpserted
    <2>3. CASE ~(c \in Items(w) /\ rows[target[c]] = Unused)
      BY <1>0, <2>3, OfUpserted
    <2> QED
      BY <2>2, <2>3
  <1>3. /\ i \in Of(seen[w], c) /\ j \in Of(seen[w], c)
        /\ Alike(seen[w][i], rows[i]) /\ (IsKin(seen[w][i]) <=> IsKin(rows[i]))
    BY <1>2, Twins
  <1>4. /\ i \notin more \cup Doomed(w, view, target)
        /\ j \notin more \cup Doomed(w, view, target)
    BY <1>0, <1>1, UpsertedRows
  <1>5. /\ view[i] = seen[w][i] /\ view[j] = seen[w][j]
        /\ i \in Of(view, c) /\ j \in Of(view, c)
    BY <1>2, <1>3, <1>4 DEF Knows, Of, Stored
  <1>6. CASE rows'[i] = rows[i]
    BY <1>2, <1>6 DEF Alike
  <1>7. CASE rows'[i] # rows[i]
    <2>1. c \in Items(w) /\ i = target[c] /\ rows'[i] = Written(i, view[i], Item(w, c))
      <3>1. PICK d \in Items(w) :
              /\ i = target[d] /\ rows'[i].cycle = d
              /\ rows[i] # Unused => rows'[i] = Written(i, view[i], Item(w, d))
        BY <1>0, <1>1, <1>7, UpsertedRow
      <3> QED
        BY <1>1, <1>2, <3>1 DEF Of, Stored
    <2>2. j \notin Duplicates(view, c)
      BY <1>4, <2>1 DEF Doomed, CanCommit
    <2>3. Exact(view, c) # {} /\ exchange # "BITGET"
      <3>1. Of(view, c) \subseteq Exact(view, c) \cup SameCycle(view, c)
        BY <1>0, RowsOfCycle
      <3>2. exchange = "BITGET" => j \in SameCycle(view, c)
        BY <1>0, <1>5, KinMerge DEF Kin, IsKin
      <3> QED
        BY <1>5, <2>2, <3>1, <3>2 DEF Duplicates
    <2>4. view[i].source = Identity(c)
      BY <2>1, <2>3 DEF CanCommit, CanUpsert, Targets, Exact
    <2>5. rows'[i].source = rows[i].source
      BY <1>2, <2>1, <2>4, ItemTyped, <1>0 DEF Written, Flushed, Of, Stored
    <2>6. exchange = "OKX" => ~IsKin(rows[i])
      BY <1>3, <1>5, <2>4 DEF IsKin, Identity
    <2> QED
      BY <1>0, <1>1, <1>2, <2>3, <2>5, <2>6 DEF Alike, Of, Exchanges
  <1> QED
    BY <1>2, <1>6, <1>7
\* The same of a cleanup: rows it may merge are one group, of which one stays.
LEMMA CleanupKeepsTwins ==
  ASSUME KeepInv, NEW w \in Workers, CommitCleanup(w), exchange' = exchange,
         NEW c \in Cycles, NEW i \in Of(rows', c), NEW j \in Of(rows', c), i # j
  PROVE  i \in Of(rows, c) /\ j \in Of(rows, c) /\ Alike(rows[i], rows'[i])
  <1>0. /\ TableInv /\ exchange \in Exchanges /\ Active(w)
        /\ seen[w] \in Table /\ Named(seen[w])
    BY DEF KeepInv, FreshInv, TableInv, TypeOK, ViewOK, CommitCleanup, Active
  <1>1. /\ i \in Ids /\ rows'[i] # Gone /\ rows'[i] # Unused /\ rows'[i].cycle = c
        /\ j \in Ids /\ rows'[j] # Gone /\ rows'[j] # Unused /\ rows'[j].cycle = c
    BY DEF Of, Stored
  <1>2. PICK keepers \in SUBSET Stored(seen[w]) :
          rows' = Cleaned(seen[w], keepers) /\ KeptByGroup(seen[w], keepers)
    BY DEF CommitCleanup
  <1>3. CleanedTo(w, keepers, i, rows'[i]) /\ CleanedTo(w, keepers, j, rows'[j])
    BY <1>0, <1>1, <1>2, CleanedRow
  <1>4. i \in Of(rows, c) /\ j \in Of(rows, c)
    BY <1>1, <1>3 DEF CleanedTo, Of, Stored
  <1>5. /\ i \in Of(seen[w], c) /\ j \in Of(seen[w], c)
        /\ Alike(seen[w][i], rows[i]) /\ (IsKin(seen[w][i]) <=> IsKin(rows[i]))
    BY <1>0, <1>4, Twins
  <1>6. /\ i \in keepers /\ j \in keepers
        /\ rows'[i].cycle = rows[i].cycle /\ rows'[i].closeTime = rows[i].closeTime
        /\ rows'[i].source = Flushed(seen[w][i].source, Canonical(seen[w][i].source),
                                     rows[i].source)
    BY <1>1, <1>3, <1>5 DEF CleanedTo, Of
  <1>7. ~(IsKin(seen[w][i]) /\ IsKin(seen[w][j]))
    <2>1. ASSUME IsKin(seen[w][i]), IsKin(seen[w][j])
          PROVE  Canonical(seen[w][i].source) = Canonical(seen[w][j].source)
      BY <1>0, <1>5, <2>1, KinMerge DEF Kin
    <2>2. i \in Stored(seen[w]) /\ j \in Stored(seen[w])
      BY <1>5 DEF Of
    <2>3. \E k : Group(seen[w], i) \cap keepers = {k}
      BY <1>2, <2>2 DEF KeptByGroup
    <2>4. j \notin Group(seen[w], i)
      <3>1. i \in Group(seen[w], i)
        BY <2>2 DEF Group
      <3> QED
        BY <1>6, <2>3, <3>1
    <2> QED
      BY <2>1, <2>2, <2>4 DEF Group
  <1>8. exchange = "OKX"
    BY <1>7 DEF IsKin
  <1>9. rows'[i].source.form = "cycle" <=> rows[i].source.form = "cycle"
    <2>1. seen[w][i].source.form = "cycle" <=> rows[i].source.form = "cycle"
      BY <1>5, <1>8 DEF Alike
    <2>2. CASE seen[w][i].source.form = "cycle"
      BY <1>6, <2>2 DEF Canonical, Flushed
    <2>3. CASE seen[w][i].source.form # "cycle"
      BY <1>6, <2>1, <2>3 DEF Canonical, Flushed, Plain
    <2> QED
      BY <2>2, <2>3
  <1> QED
    BY <1>4, <1>6, <1>8, <1>9 DEF Alike

\* the commits of a step
LEMMA Commits ==
  ASSUME [Next]_vars
  PROVE  \/ \E w \in Workers : CommitSync(w)
         \/ \E w \in Tools : CommitCleanup(w) \/ CommitRebuild(w)
         \/ rows' = rows
  BY DEF Next, Sync, Tool, Workers, Tick, Reduce, Fetch, LoadRows, GiveUp, StartCleanup,
     vars, dbVars

LEMMA SyncKnows ==
  ASSUME NEW w
  PROVE  Knows(w, seen[w], {})
  BY DEF Knows

LEMMA RebuildKnows ==
  ASSUME NEW w, NEW doomed
  PROVE  Knows(w, SessionView(w, doomed), doomed)
  BY DEF Knows, SessionView, Stored

LEMMA TwinsStay ==
  ASSUME KeepInv, [Next]_vars,
         NEW c \in Cycles, NEW i \in Of(rows', c), NEW j \in Of(rows', c), i # j
  PROVE  i \in Of(rows, c) /\ j \in Of(rows, c) /\ Alike(rows[i], rows'[i])
  <1>0. TableInv /\ exchange' = exchange
    BY ClockNext DEF KeepInv, FreshInv, TableInv
  <1>1. ASSUME NEW w \in Workers, CommitSync(w)
        PROVE  i \in Of(rows, c) /\ j \in Of(rows, c) /\ Alike(rows[i], rows'[i])
    <2>1. w \in Workers /\ Active(w)
      BY <1>1 DEF Workers, CommitSync, Active
    <2>2. PICK target : /\ CanCommit(w, seen[w], target, {})
                        /\ rows' = Upserted(w, seen[w], target, {}) /\ UniqueSources(rows')
      BY <1>0, <1>1, <2>1, SyncUpserts
    <2> QED
      BY <1>0, <2>1, <2>2, SyncKnows, UpsertKeepsTwins
  <1>2. ASSUME NEW w \in Tools, CommitRebuild(w)
        PROVE  i \in Of(rows, c) /\ j \in Of(rows, c) /\ Alike(rows[i], rows'[i])
    <2>1. w \in Workers /\ Active(w)
      BY <1>2 DEF Workers, CommitRebuild, Active
    <2>2. PICK doomed, target :
            /\ CanCommit(w, SessionView(w, doomed), target, doomed)
            /\ rows' = Upserted(w, SessionView(w, doomed), target, doomed)
            /\ UniqueSources(rows')
      BY <1>0, <1>2, <2>1, RebuildUpserts
    <2> QED
      BY <1>0, <2>1, <2>2, RebuildKnows, UpsertKeepsTwins
  <1>3. ASSUME NEW w \in Tools, CommitCleanup(w)
        PROVE  i \in Of(rows, c) /\ j \in Of(rows, c) /\ Alike(rows[i], rows'[i])
    BY <1>0, <1>3, CleanupKeepsTwins DEF Workers
  <1>4. CASE rows' = rows
    BY <1>4 DEF Alike
  <1> QED
    BY <1>1, <1>2, <1>3, <1>4, Commits

\* which of two rows a commit keeps, seen by the session that commits
Chosen(v, i, j, c) ==
    /\ exchange = "BITGET" => \/ seen[v][j].source = Identity(c)
                              \/ seen[v][i].closeTime <= seen[v][j].closeTime
    /\ exchange = "OKX" => seen[v][i].closeTime <= seen[v][j].closeTime
    /\ exchange = "POLYMARKET" => pc[v] = "cleaning" \/ seen[v][i].source # Identity(c)

LEMMA SyncChooses ==
  ASSUME KeepInv, NEW v \in Workers, CommitSync(v), NEW c \in Cycles,
         NEW i \in Kin(seen[v], c), NEW j \in Kin(seen[v], c), i # j,
         i \in Stored(rows), rows'[i] = Gone, j \in Stored(rows')
  PROVE  Chosen(v, i, j, c)
  <1>0. /\ TableInv /\ exchange \in Exchanges /\ v \in Workers
        /\ seen[v] \in Table /\ Named(seen[v])
        /\ i \in Of(seen[v], c) /\ j \in Of(seen[v], c)
        /\ i \in SameCycle(seen[v], c) /\ j \in SameCycle(seen[v], c)
        /\ i \in Ids /\ rows[i] # Gone /\ rows[i] # Unused /\ j \in Ids /\ rows'[j] # Gone
    <2>1. /\ TableInv /\ exchange \in Exchanges /\ v \in Workers
          /\ seen[v] \in Table /\ Named(seen[v])
      BY DEF KeepInv, FreshInv, TableInv, TypeOK, ViewOK, Workers
    <2> QED
      BY <2>1, KinMerge DEF Kin, Stored
  <1>1. PICK target : /\ CanCommit(v, seen[v], target, {})
                      /\ rows' = Upserted(v, seen[v], target, {})
    BY <1>0, SyncUpserts
  <1>2. PICK d \in Items(v) : i \in Duplicates(seen[v], d) \ {target[d]}
    <2>1. i \in Doomed(v, seen[v], target)
      BY <1>0, <1>1, UpsertedGone
    <2> QED
      BY <1>1, <2>1 DEF Doomed, CanCommit
  <1>3. d = c
    <2>1. d \in Cycles /\ SameCycle(seen[v], d) \subseteq Of(seen[v], d)
      BY <1>0, RowsOfCycle DEF Items
    <2> QED
      BY <1>0, <1>2, <2>1 DEF Duplicates, Of
  <1>4. Duplicates(seen[v], c) = SameCycle(seen[v], c)
    BY <1>2, <1>3 DEF Duplicates
  <1>5. j = target[c]
    <2>1. j \notin Doomed(v, seen[v], target)
      BY <1>0, <1>1, UpsertedRows
    <2> QED
      BY <1>0, <1>1, <1>2, <1>3, <1>4, <2>1 DEF Doomed, CanCommit
  <1>6. j \in Targets(seen[v], c)
    BY <1>1, <1>2, <1>3, <1>5 DEF CanCommit, CanUpsert
  <1>7. CASE Exact(seen[v], c) # {}
    BY <1>2, <1>3, <1>6, <1>7 DEF Chosen, Targets, Exact, Duplicates
  <1>8. CASE Exact(seen[v], c) = {}
    <2>1. j \in Latest(seen[v], SameCycle(seen[v], c))
      BY <1>0, <1>6, <1>8 DEF Targets
    <2>2. seen[v][i].source # Identity(c)
      BY <1>0, <1>8 DEF Exact, Of
    <2> QED
      BY <1>0, <2>1, <2>2 DEF Chosen, Latest
  <1> QED
    BY <1>7, <1>8
LEMMA CleanupChooses ==
  ASSUME KeepInv, NEW v \in Tools, CommitCleanup(v), NEW c \in Cycles,
         NEW i \in Kin(seen[v], c), NEW j \in Kin(seen[v], c), i # j,
         i \in Stored(rows), rows'[i] = Gone, j \in Stored(rows')
  PROVE  Chosen(v, i, j, c)
  <1>0. /\ TableInv /\ exchange \in Exchanges /\ v \in Workers
        /\ seen[v] \in Table /\ Named(seen[v])
    BY DEF KeepInv, FreshInv, TableInv, TypeOK, ViewOK, Workers
  <1>1. /\ i \in Stored(seen[v]) /\ j \in Stored(seen[v])
        /\ Canonical(seen[v][i].source) = Canonical(seen[v][j].source)
    BY <1>0, KinMerge DEF Kin, Of
  <1>2. /\ i \in Ids /\ rows[i] # Gone /\ j \in Ids /\ rows'[j] # Gone
    BY DEF Stored
  <1>3. PICK keepers \in SUBSET Stored(seen[v]) :
          rows' = Cleaned(seen[v], keepers) /\ KeptByGroup(seen[v], keepers)
    BY DEF CommitCleanup
  <1>4. CleanedTo(v, keepers, j, rows'[j])
    BY <1>0, <1>2, <1>3, CleanedRow
  <1>5. j \in keepers
    BY <1>1, <1>2, <1>4 DEF CleanedTo
  <1>6. PICK k \in Latest(seen[v], Group(seen[v], i)) : Group(seen[v], i) \cap keepers = {k}
    BY <1>1, <1>3 DEF KeptByGroup
  <1>7. i \in Group(seen[v], i) /\ j \in Group(seen[v], i)
    BY <1>1 DEF Group
  <1>8. j = k
    BY <1>5, <1>6, <1>7
  <1> QED
    BY <1>0, <1>6, <1>7, <1>8 DEF Chosen, Latest, CommitCleanup

LEMMA RebuildChooses ==
  ASSUME KeepInv, NEW v \in Tools, CommitRebuild(v), NEW c \in Cycles,
         NEW i \in Kin(seen[v], c), NEW j \in Kin(seen[v], c), i # j,
         i \in Stored(rows), rows'[i] = Gone, j \in Stored(rows')
  PROVE  Chosen(v, i, j, c)
  <1>0. /\ TableInv /\ exchange = "OKX" /\ v \in Workers
        /\ seen[v] \in Table /\ Named(seen[v])
        /\ i \in SameCycle(seen[v], c) /\ j \in SameCycle(seen[v], c)
    <2>1. /\ TableInv /\ exchange \in Exchanges /\ v \in Workers
          /\ seen[v] \in Table /\ Named(seen[v])
      BY DEF KeepInv, FreshInv, TableInv, TypeOK, ViewOK, Workers
    <2>2. exchange = "OKX"
      BY DEF CommitRebuild
    <2> QED
      BY <2>1, <2>2, KinMerge
  <1>1. PICK keepers \in SUBSET UnderOldIdentity(seen[v]) :
          LET doomed == UnderOldIdentity(seen[v]) \ keepers
              later  == SessionView(v, doomed)
          IN /\ \A d \in Items(v) :
                  \/ SameCycle(seen[v], d) \cap keepers = {}
                  \/ \E k \in Latest(seen[v], SameCycle(seen[v], d)) :
                        SameCycle(seen[v], d) \cap keepers = {k}
             /\ \E target \in [Items(v) -> Ids] :
                  /\ CanUpsert(v, later, target)
                  /\ rows' = Upserted(v, later, target, doomed)
    BY DEF CommitRebuild
  <1>2. /\ i \in UnderOldIdentity(seen[v]) /\ j \in UnderOldIdentity(seen[v])
        /\ j \in Ids /\ rows'[j] # Gone
    BY <1>0 DEF UnderOldIdentity, Kin, Of, IsKin, Stored
  <1>3. c \in Items(v)
    <2>1. PICK d \in Items(v) : i \in SameCycle(seen[v], d)
      BY <1>2 DEF CommitRebuild
    <2>2. SameCycle(seen[v], d) \subseteq Of(seen[v], d)
      BY <1>0, RowsOfCycle DEF Items, Exchanges
    <2> QED
      BY <2>1, <2>2 DEF Kin, Of
  <1>4. j \in keepers
    BY <1>1, <1>2 DEF Upserted
  <1>5. j \in Latest(seen[v], SameCycle(seen[v], c))
    BY <1>0, <1>1, <1>3, <1>4
  <1> QED
    BY <1>0, <1>5 DEF Chosen, Latest

\* who deletes one row of a cycle and leaves another prefers the one it leaves,
\* and so does everyone who has loaded both
LEMMA KeptStep ==
  ASSUME KeepInv, OneTool, [Next]_vars, NEW c \in Cycles, NEW w \in Workers, Active(w),
         pc'[w] = pc[w], NEW i \in Kin(seen[w], c), NEW j \in Kin(seen[w], c), i # j,
         rows'[i] = Gone, j \in Stored(rows')
  PROVE  Preferred(w, i, j, c)
  <1>0. /\ TableInv /\ TypeOK /\ exchange \in Exchanges /\ RowsStep
        /\ i \in Stored(seen[w]) /\ j \in Stored(seen[w]) /\ i \in Ids /\ j \in Ids
        /\ seen[w][i].cycle = c /\ seen[w][j].cycle = c
        /\ rows[i] # Unused /\ rows[j] # Unused /\ rows[j] # Gone
    <2>1. /\ TableInv /\ TypeOK /\ exchange \in Exchanges /\ RowsStep
          /\ i \in Stored(seen[w]) /\ j \in Stored(seen[w]) /\ i \in Ids /\ j \in Ids
          /\ seen[w][i].cycle = c /\ seen[w][j].cycle = c
      BY RowsNext DEF KeepInv, FreshInv, TableInv, TypeOK, Kin, Of, Stored
    <2>2. ViewOK(w)
      BY <2>1 DEF TableInv
    <2> QED
      BY <2>1, <2>2 DEF ViewOK, Follows, RowsStep, Stored
  <1>1. j \in Stored(rows)
    BY <1>0 DEF Stored
  <1>2. CASE rows[i] = Gone
    BY <1>1, <1>2 DEF KeepInv, Kept
  <1>3. CASE rows[i] # Gone
    <2>1. i \in Of(rows, c) /\ j \in Of(rows, c)
      <3>1. Agrees(seen[w])
        BY <1>0, ViewAgrees
      <3> QED
        BY <1>0, <1>3, <3>1 DEF Agrees, Of, Stored
    <2>2. /\ Alike(seen[w][i], rows[i]) /\ Alike(seen[w][j], rows[j])
          /\ IsKin(rows[i]) /\ IsKin(rows[j])
      BY <2>1, Twins DEF Kin
    <2>3. exchange # "POLYMARKET" => rows[i].closeTime # rows[j].closeTime
      BY <2>1, <2>2 DEF KeepInv, Distinct, Kin
    <2>4. PICK v \in Workers :
            /\ Active(v) /\ pc'[v] = "idle"
            /\ i \in Kin(seen[v], c) /\ j \in Kin(seen[v], c) => Chosen(v, i, j, c)
      <3>1. ASSUME NEW v \in Workers, CommitSync(v)
            PROVE  /\ Active(v) /\ pc'[v] = "idle"
                   /\ i \in Kin(seen[v], c) /\ j \in Kin(seen[v], c) => Chosen(v, i, j, c)
        <4>1. Active(v) /\ pc'[v] = "idle"
          BY <1>0, <3>1 DEF CommitSync, Active, Reset, TypeOK
        <4> QED
          BY <1>3, <2>1, <3>1, <4>1, SyncChooses DEF Of
      <3>2. ASSUME NEW v \in Tools, CommitCleanup(v) \/ CommitRebuild(v)
            PROVE  /\ v \in Workers /\ Active(v) /\ pc'[v] = "idle"
                   /\ i \in Kin(seen[v], c) /\ j \in Kin(seen[v], c) => Chosen(v, i, j, c)
        <4>1. v \in Workers /\ Active(v) /\ pc'[v] = "idle"
          BY <1>0, <3>2 DEF Workers, CommitCleanup, CommitRebuild, Active, Reset, TypeOK
        <4> QED
          BY <1>3, <2>1, <3>2, <4>1, CleanupChooses, RebuildChooses DEF Of
      <3>3. rows' # rows
        BY <1>3
      <3> QED
        BY <3>1, <3>2, <3>3, Commits
    <2>5. /\ i \in Of(seen[v], c) /\ j \in Of(seen[v], c)
          /\ Alike(seen[v][i], rows[i]) /\ Alike(seen[v][j], rows[j])
          /\ (IsKin(seen[v][i]) <=> IsKin(rows[i])) /\ (IsKin(seen[v][j]) <=> IsKin(rows[j]))
      BY <2>1, <2>4, Twins
    <2>6. Chosen(v, i, j, c)
      BY <2>2, <2>4, <2>5 DEF Kin
    <2>7. exchange = "POLYMARKET" /\ pc[w] = "cleaning" => seen[w][i].source # Identity(c)
      <3>1. ASSUME pc[v] = "cleaning", pc[w] = "cleaning" PROVE FALSE
        <4>1. v \in Tools /\ w \in Tools
          BY <3>1 DEF KeepInv, Workers
        <4>2. v # w
          BY <2>4, <3>1
        <4> QED
          BY <4>1, <4>2 DEF OneTool
      <3> QED
        BY <2>2, <2>4, <2>5, <2>6, <3>1 DEF Chosen, Alike
    <2>8. /\ exchange # "POLYMARKET" =>
               /\ seen[v][i].closeTime = seen[w][i].closeTime
               /\ seen[v][j].closeTime = seen[w][j].closeTime
               /\ seen[w][i].closeTime # seen[w][j].closeTime
          /\ exchange = "BITGET" => seen[v][j].source = seen[w][j].source
      BY <2>2, <2>3, <2>5 DEF Alike, Kin
    <2>9. seen[w][i].closeTime \in Int /\ seen[w][j].closeTime \in Int
      <3>1. seen[w][i] \in Row /\ seen[w][j] \in Row
        BY <1>0 DEF TypeOK, Stored
      <3> QED
        BY <3>1 DEF Row, Time
    <2> QED
      BY <2>6, <2>7, <2>8, <2>9 DEF Chosen, Preferred
  <1> QED
    BY <1>2, <1>3
LEMMA KeepInit == Init => KeepInv
  <1> SUFFICES ASSUME Init PROVE KeepInv
    OBVIOUS
  <1>1. /\ FreshInv /\ TypeOK
        /\ \A w \in Workers : /\ pc[w] = "idle" /\ Items(w) = {} /\ seen[w] = NoRows
    BY FreshInit DEF FreshInv, TableInv, Init, Items, NoAnswer
  <1>2. \A w \in Workers : ~Active(w)
    BY <1>1 DEF Active
  <1>3. Distinct
    BY DEF Init, Legacy, Distinct, Kin, Of
  <1>4. Answered
    <2>1. ASSUME NEW c \in Cycles, NEW i \in Of(rows, c)
          PROVE  rows[i].closeTime <= closedAt[c]
      <3>1. rows[i] \in LegacyRows(closedAt) /\ rows[i].cycle = c
        BY DEF Init, Of, Stored
      <3> QED
        BY <3>1 DEF LegacyRows
    <2> QED
      BY <1>1, <2>1 DEF Answered
  <1> QED
    BY <1>1, <1>2, <1>3, <1>4 DEF KeepInv, TwinsAlike, Kept, Workers

\* what a session holds after a step, if it is active then
LEMMA ActiveNext ==
  ASSUME TableInv, [Next]_vars, NEW w \in Workers, Active(w)'
  PROVE  \/ Active(w) /\ seen'[w] = seen[w] /\ pc'[w] = pc[w]
         \/ seen'[w] = rows /\ rows' = rows
  BY SeenNext DEF Active

LEMMA TwinsNext ==
  ASSUME KeepInv, [Next]_vars, exchange' = exchange
  PROVE  TwinsAlike' /\ Distinct'
  <1>0. TableInv
    BY DEF KeepInv, FreshInv
  <1>1. ASSUME NEW c \in Cycles, NEW i \in Of(rows', c), NEW j \in Of(rows', c), i # j,
               NEW w \in Workers, Active(w)'
        PROVE  i \in Stored(seen'[w]) /\ Alike(seen'[w][i], rows'[i])
    <2>1. i \in Of(rows, c) /\ j \in Of(rows, c) /\ Alike(rows[i], rows'[i])
      BY <1>1, TwinsStay
    <2>2. CASE Active(w) /\ seen'[w] = seen[w]
      <3>1. i \in Of(seen[w], c) /\ Alike(seen[w][i], rows[i])
        BY <1>1, <2>1, <2>2, Twins
      <3> QED
        BY <2>1, <2>2, <3>1, AlikeTrans DEF Of
    <2>3. CASE seen'[w] = rows /\ rows' = rows
      BY <2>1, <2>3 DEF Of
    <2> QED
      BY <1>0, <1>1, <2>2, <2>3, ActiveNext
  <1>2. ASSUME exchange # "POLYMARKET", NEW c \in Cycles,
               NEW i \in Kin(rows', c), NEW j \in Kin(rows', c), i # j
        PROVE  rows'[i].closeTime # rows'[j].closeTime
    <2>1. i \in Of(rows', c) /\ j \in Of(rows', c)
      BY DEF Kin
    <2>2. /\ i \in Of(rows, c) /\ j \in Of(rows, c)
          /\ Alike(rows[i], rows'[i]) /\ Alike(rows[j], rows'[j])
      BY <1>2, <2>1, TwinsStay
    <2>3. IsKin(rows[i]) /\ IsKin(rows[j])
      BY <2>2 DEF Kin, Alike, IsKin
    <2> QED
      BY <1>2, <2>2, <2>3 DEF KeepInv, Distinct, Kin, Alike
  <1>3. \A c \in Cycles : Of(rows, c)' = Of(rows', c) /\ Kin(rows, c)' = Kin(rows', c)
    BY DEF Of, Kin, Stored, IsKin
  <1>4. \A a, b : Alike(a, b)' = Alike(a, b)
    BY DEF Alike, IsKin
  <1>5. TwinsAlike'
    BY <1>1, <1>3, <1>4 DEF TwinsAlike, Stored, Workers
  <1>6. Distinct'
    BY <1>2, <1>3 DEF Distinct
  <1> QED
    BY <1>5, <1>6

\* an answer that comes is one of the present, an old one stays with its view
LEMMA AnswerNext ==
  ASSUME TableInv, [Next]_vars
  PROVE  /\ \A c \in Cycles : closedAt[c] <= closedAt'[c]
         /\ \A w \in Workers :
               /\ \/ answer'[w] = answer[w]
                  \/ \A c \in Cycles : answer'[w][c] # 0 => answer'[w][c] = closedAt[c]
               /\ \/ seen'[w] = NoRows
                  \/ seen'[w] = rows /\ rows' = rows /\ answer'[w] = answer[w]
                  \/ seen'[w] = seen[w] /\ answer'[w] = answer[w]
  <1>0. TypeOK /\ now \in Nat /\ \A c \in Cycles : closedAt[c] \in Nat
    BY DEF TableInv, TypeOK, Time
  <1>1. \A c \in Cycles : closedAt[c] <= closedAt'[c]
    <2>1. CASE \E d \in Cycles : Reduce(d)
      BY <1>0, <2>1 DEF Reduce, TypeOK
    <2>2. CASE closedAt' = closedAt
      BY <1>0, <2>2
    <2> QED
      BY <2>1, <2>2 DEF Next, Sync, Tool, Tick, Fetch, LoadRows, GiveUp, StartCleanup,
         CommitSync, CommitCleanup, CommitRebuild, vars
  <1>2. ASSUME NEW w \in Workers, Fetch(w)
        PROVE  /\ \A c \in Cycles : answer'[w][c] # 0 => answer'[w][c] = closedAt[c]
               /\ seen'[w] = NoRows
    <2>1. PICK from \in 1 .. now :
            answer' = [answer EXCEPT ![w] =
              [c \in Cycles |-> IF closedAt[c] >= from THEN closedAt[c] ELSE 0]]
      BY <1>2 DEF Fetch
    <2>2. \A c \in Cycles : answer'[w][c] = IF closedAt[c] >= from THEN closedAt[c] ELSE 0
      BY <1>0, <2>1 DEF TypeOK
    <2>3. seen'[w] = NoRows
      BY <1>2 DEF Fetch, TableInv, ViewOK
    <2> QED
      BY <2>2, <2>3
  <1>3. ASSUME NEW w \in Workers, LoadRows(w) \/ StartCleanup(w)
        PROVE  seen'[w] = rows /\ rows' = rows /\ answer'[w] = answer[w]
    BY <1>0, <1>3 DEF LoadRows, StartCleanup, TypeOK, dbVars
  <1>4. ASSUME NEW w \in Workers, Reset(w)
        PROVE  seen'[w] = NoRows /\ \A c \in Cycles : answer'[w][c] = 0
    BY <1>0, <1>4 DEF Reset, TypeOK, NoAnswer
  <1>5. ASSUME NEW w \in Workers
        PROVE  \/ Fetch(w) \/ LoadRows(w) \/ StartCleanup(w) \/ Reset(w)
               \/ seen'[w] = seen[w] /\ answer'[w] = answer[w]
    BY <1>0, WorkersNext DEF workerVars, OthersStay, Ends
  <1> QED
    BY <1>1, <1>2, <1>3, <1>4, <1>5

LEMMA AnsweredNext ==
  ASSUME KeepInv, [Next]_vars, exchange' = exchange
  PROVE  Answered'
  <1> SUFFICES ASSUME exchange = "BITGET", NEW c \in Cycles
               PROVE  /\ \A i, j \in Of(rows', c) : i # j =>
                           /\ rows'[i].closeTime <= closedAt'[c]
                           /\ \A w \in Workers : answer'[w][c] # 0 =>
                                 rows'[i].closeTime <= answer'[w][c]
                      /\ \A w \in Workers : \A i, j \in Of(seen'[w], c) :
                           i # j /\ answer'[w][c] # 0 =>
                              seen'[w][i].closeTime <= answer'[w][c]
    BY DEF Answered, Of, Stored, Items, Workers
  <1>0. /\ TableInv /\ \A t \in Time : t \in Int
        /\ closedAt[c] \in Time /\ closedAt'[c] \in Time
        /\ \A i \in Stored(rows) : rows[i].closeTime \in Time
    <2>1. TableInv /\ TypeOK /\ closedAt' \in [Cycles -> Time]
      BY ClockNext DEF KeepInv, FreshInv, TableInv
    <2>2. \A i \in Stored(rows) : rows[i] \in Row
      BY <2>1 DEF TypeOK, Stored
    <2> QED
      BY <2>1, <2>2 DEF TypeOK, Row, Time
  <1>1. ASSUME NEW i \in Of(rows', c), NEW j \in Of(rows', c), i # j
        PROVE  /\ rows'[i].closeTime <= closedAt'[c]
               /\ \A w \in Workers : answer'[w][c] # 0 => rows'[i].closeTime <= answer'[w][c]
    <2>1. i \in Of(rows, c) /\ j \in Of(rows, c) /\ Alike(rows[i], rows'[i])
      BY <1>1, TwinsStay
    <2>2. rows'[i].closeTime = rows[i].closeTime
      BY <2>1 DEF Alike, IsKin
    <2>3. /\ rows[i].closeTime <= closedAt[c]
          /\ \A w \in Workers : answer[w][c] # 0 => rows[i].closeTime <= answer[w][c]
      BY <1>1, <2>1 DEF KeepInv, Answered, Items
    <2>4. rows'[i].closeTime <= closedAt'[c]
      BY <1>0, <2>1, <2>2, <2>3, AnswerNext DEF Of
    <2> QED
      BY <1>0, <2>2, <2>3, <2>4, AnswerNext
  <1>2. ASSUME NEW w \in Workers, NEW i \in Of(seen'[w], c), NEW j \in Of(seen'[w], c),
               i # j, answer'[w][c] # 0
        PROVE  seen'[w][i].closeTime <= answer'[w][c]
    <2>1. seen'[w] # NoRows
      BY DEF Of, Stored, NoRows
    <2>2. CASE seen'[w] = rows /\ rows' = rows /\ answer'[w] = answer[w]
      BY <1>1, <1>2, <2>2
    <2>3. CASE seen'[w] = seen[w] /\ answer'[w] = answer[w]
      BY <1>2, <2>3 DEF KeepInv, Answered, Items
    <2> QED
      BY <1>0, <2>1, <2>2, <2>3, AnswerNext
  <1> QED
    BY <1>1, <1>2

LEMMA KeptNext ==
  ASSUME KeepInv, OneTool, [Next]_vars, exchange' = exchange
  PROVE  Kept'
  <1>0. TableInv
    BY DEF KeepInv, FreshInv
  <1>1. ASSUME NEW c \in Cycles, NEW w \in Workers, Active(w)',
               NEW i \in Kin(seen'[w], c), NEW j \in Kin(seen'[w], c), i # j,
               rows'[i] = Gone, j \in Stored(rows')
        PROVE  seen'[w] = seen[w] /\ pc'[w] = pc[w] /\ Preferred(w, i, j, c)
    <2>1. seen'[w] # rows \/ rows' # rows
      BY <1>1 DEF Kin, Of, Stored
    <2>2. Active(w) /\ seen'[w] = seen[w] /\ pc'[w] = pc[w]
      BY <1>0, <1>1, <2>1, ActiveNext
    <2> QED
      BY <1>1, <2>2, KeptStep
  <1>2. \A c \in Cycles : Identity(c)' = Identity(c)
    BY NamesStay
  <1>3. \A c \in Cycles : \A w \in Workers : Kin(seen[w], c)' = Kin(seen'[w], c)
    BY DEF Kin, Of, Stored, IsKin
  <1>4. ASSUME NEW c \in Cycles, NEW w \in Workers, NEW i, NEW j,
               seen'[w] = seen[w], pc'[w] = pc[w], Preferred(w, i, j, c)
        PROVE  Preferred(w, i, j, c)'
    <2>1. Identity(c)' = Identity(c)
      BY <1>2
    <2> QED
      BY <1>4, <2>1 DEF Preferred
  <1> QED
    BY <1>1, <1>3, <1>4 DEF Kept, Workers, Stored

LEMMA KeepNext == OneTool /\ KeepInv /\ [Next]_vars => KeepInv'
  <1> SUFFICES ASSUME OneTool, KeepInv, [Next]_vars PROVE KeepInv'
    OBVIOUS
  <1>1. FreshInv' /\ TableInv /\ exchange' = exchange
    BY FreshNext, ClockNext DEF KeepInv, FreshInv, TableInv
  <1>2. TwinsAlike' /\ Distinct' /\ Answered' /\ Kept'
    BY <1>1, TwinsNext, AnsweredNext, KeptNext
  <1>3. ASSUME NEW w \in Syncs PROVE pc'[w] # "cleaning"
    <2>0. TypeOK /\ w \in Workers /\ w \notin Tools
      BY <1>1 DEF TableInv, Workers
    <2>1. ASSUME NEW v \in Syncs, Sync(v) PROVE pc'[w] # "cleaning"
      <3>1. Fetch(v) \/ LoadRows(v) \/ CommitSync(v) \/ GiveUp(v)
        BY <2>1 DEF Sync
      <3> QED
        BY <2>0, <3>1 DEF Fetch, LoadRows, CommitSync, GiveUp, Reset, TypeOK, KeepInv, Workers
    <2>2. ASSUME NEW v \in Tools, Tool(v) PROVE pc'[w] = pc[w]
      <3>1. v # w /\ v \in Workers
        BY <2>0 DEF Workers
      <3>2. OthersStay(v)
        BY <2>0, <2>2, <3>1, WorkerActs DEF Tool
      <3> QED
        BY <2>0, <3>1, <3>2 DEF OthersStay
    <2>3. (\E v \in Syncs : Sync(v)) \/ (\E v \in Tools : Tool(v)) \/ pc' = pc
      BY DEF Next, Tick, Reduce, vars, workerVars
    <2> QED
      BY <2>1, <2>2, <2>3 DEF KeepInv
  <1> QED
    BY <1>1, <1>2, <1>3 DEF KeepInv
(***************************************************************************)
(* A commit that deletes the last row of a cycle would have kept a row     *)
(* that is gone already and that it did not write.                         *)
(***************************************************************************)
\* the row an upsert keeps for a cycle it deletes from
LEMMA UpsertStores ==
  ASSUME TableInv, NEW w \in Workers, NEW view, NEW target, NEW more,
         CanCommit(w, view, target, more), rows' = Upserted(w, view, target, more),
         NEW c \in Items(w), Of(rows', c) = {}
  PROVE  /\ target[c] \in Of(view, c) /\ target[c] \in Targets(view, c)
         /\ rows[target[c]] = Gone /\ view[target[c]] = Item(w, c)
  <1>1. /\ c \in Cycles /\ Item(w, c) \in Row /\ Item(w, c).cycle = c
        /\ Item(w, c).source \in Names(c)
    BY ItemTyped
  <1>2. target[c] \in Ids /\ target[c] \in Targets(view, c)
    BY DEF CanCommit, CanUpsert
  <1>3. \/ target[c] \in Of(view, c) /\ rows[target[c]] # Unused
        \/ rows[target[c]] = Unused
    BY <1>1, <1>2, TargetsAre DEF CanCommit
  <1>4. rows'[target[c]] = IF rows[target[c]] = Unused THEN Item(w, c)
                           ELSE Written(target[c], view[target[c]], Item(w, c))
    BY UpsertedRows
  <1>5. rows[target[c]] # Unused
    BY <1>1, <1>2, <1>4, ClosedMarks DEF Of, Stored
  <1>6. rows[target[c]] = Gone
    <2>1. ASSUME target[c] \in Stored(rows) PROVE FALSE
      <3>1. rows[target[c]].cycle = c
        BY <1>3, <1>5, <2>1 DEF CanCommit, Agrees, Of
      <3>2. rows'[target[c]] \in Row /\ rows'[target[c]].cycle = c
        BY <1>1, <1>2, <1>4, <1>5, <2>1, <3>1, WrittenRow
      <3> QED
        BY <1>2, <3>2, ClosedMarks DEF Of, Stored
    <2> QED
      BY <1>2, <1>5, <2>1 DEF Stored
  <1>7. view[target[c]] = Item(w, c)
    BY <1>5, <1>6 DEF CanCommit, CanUpsert, Writable
  <1> QED
    BY <1>2, <1>3, <1>5, <1>6, <1>7

LEMMA SyncLosesNone ==
  ASSUME KeepInv, NEW w \in Workers, CommitSync(w), NEW c \in Cycles,
         NEW i \in Of(rows, c), Of(rows', c) = {}, RowsStep
  PROVE  FALSE
  <1>0. /\ TableInv /\ exchange \in Exchanges /\ w \in Workers /\ Active(w)
        /\ seen[w] \in Table /\ Named(seen[w]) /\ UniqueSources(seen[w])
        /\ i \in Ids /\ rows[i] # Gone /\ rows[i] # Unused /\ rows[i].cycle = c
        /\ i \in Stored(rows)
    BY DEF KeepInv, FreshInv, TableInv, TypeOK, ViewOK, Workers, CommitSync, Active,
       Of, Stored
  <1>1. PICK target : /\ CanCommit(w, seen[w], target, {})
                      /\ rows' = Upserted(w, seen[w], target, {})
    BY <1>0, SyncUpserts
  <1>2. rows'[i] = Gone
    BY <1>0 DEF RowsStep, Follows, Of, Stored
  <1>3. PICK d \in Items(w) : i \in Duplicates(seen[w], d) \ {target[d]}
    <2>1. i \in Doomed(w, seen[w], target)
      BY <1>0, <1>1, <1>2, UpsertedGone
    <2> QED
      BY <1>1, <2>1 DEF Doomed, CanCommit
  <1>4. d = c /\ i \in Of(seen[w], c)
    <2>1. d \in Cycles /\ SameCycle(seen[w], d) \subseteq Of(seen[w], d)
      BY <1>0, RowsOfCycle DEF Items
    <2>2. i \in Of(seen[w], d)
      BY <1>3, <2>1 DEF Duplicates
    <2>3. Agrees(seen[w])
      BY <1>0, ViewAgrees
    <2> QED
      BY <1>0, <2>2, <2>3 DEF Agrees, Of
  <1> DEFINE k == target[c]
  <1>5. /\ k \in Of(seen[w], c) /\ rows[k] = Gone /\ k # i
        /\ seen[w][k] = Item(w, c) /\ c \in Items(w)
    BY <1>0, <1>1, <1>3, <1>4, UpsertStores
  <1>6. seen[w][k].source = Identity(c) /\ seen[w][k].closeTime = answer[w][c]
    <2>1. seen[w][k] = Item(w, c)
      BY <1>5
    <2> QED
      BY <2>1 DEF Item
  <1>7. exchange = "BITGET"
    BY <1>3, <1>4, <1>5, <1>6 DEF Duplicates, Exact, Of
  <1>8. Preferred(w, k, i, c)
    <2>1. k \in Kin(seen[w], c) /\ i \in Kin(seen[w], c)
      BY <1>4, <1>5, <1>7 DEF Kin, IsKin
    <2> QED
      BY <1>0, <1>5, <2>1 DEF KeepInv, Kept
  <1>9. seen[w][i].source # Identity(c)
    BY <1>0, <1>4, <1>5, <1>6 DEF UniqueSources, Of
  <1>10. seen[w][i].closeTime > seen[w][k].closeTime
    BY <1>7, <1>8, <1>9 DEF Preferred
  <1>11. seen[w][i].closeTime <= answer[w][c]
    BY <1>0, <1>4, <1>5, <1>7 DEF KeepInv, Answered
  <1>12. seen[w][i].closeTime \in Int /\ answer[w][c] \in Int
    <2>1. seen[w][i] \in Row /\ answer[w][c] \in Time
      BY <1>0, <1>4 DEF TableInv, TypeOK, Of, Stored
    <2> QED
      BY <2>1 DEF Row, Time
  <1> QED
    BY <1>6, <1>10, <1>11, <1>12

LEMMA RebuildLosesNone ==
  ASSUME KeepInv, NEW w \in Tools, CommitRebuild(w), NEW c \in Cycles,
         NEW i \in Of(rows, c), Of(rows', c) = {}, RowsStep
  PROVE  FALSE
  <1>0. /\ TableInv /\ exchange \in Exchanges /\ w \in Workers
        /\ seen[w] \in Table /\ Named(seen[w])
        /\ i \in Ids /\ rows[i] # Gone /\ rows[i] # Unused /\ rows[i].cycle = c
        /\ i \in Stored(rows)
    BY DEF KeepInv, FreshInv, TableInv, TypeOK, ViewOK, Workers, Of, Stored
  <1>1. PICK keepers \in SUBSET UnderOldIdentity(seen[w]) :
          LET doomed == UnderOldIdentity(seen[w]) \ keepers
              later  == SessionView(w, doomed)
          IN \E target \in [Items(w) -> Ids] :
                /\ CanCommit(w, later, target, doomed)
                /\ rows' = Upserted(w, later, target, doomed)
    BY <1>0, RebuildUpserts
  <1> DEFINE doomed == UnderOldIdentity(seen[w]) \ keepers
             later  == SessionView(w, doomed)
  <1>2. PICK target \in [Items(w) -> Ids] :
          CanCommit(w, later, target, doomed) /\ rows' = Upserted(w, later, target, doomed)
    BY <1>1
  <1>3. \A k \in Ids : rows[k] = Gone => later[k] = Gone
    BY DEF SessionView
  <1>4. doomed \subseteq UnderOldIdentity(seen[w])
    OBVIOUS
  <1> HIDE DEF later, doomed
  <1>5. c \notin Items(w)
    BY <1>0, <1>2, <1>3, UpsertStores DEF Of, Stored
  <1>6. rows'[i] = Gone
    BY <1>0 DEF RowsStep, Follows, Of, Stored
  <1>7. i \in doomed \cup Doomed(w, later, target)
    BY <1>0, <1>2, <1>6, UpsertedGone
  <1>8. CASE i \in doomed
    <2>1. PICK d \in Items(w) : i \in SameCycle(seen[w], d)
      BY <1>4, <1>8 DEF CommitRebuild
    <2>2. d \in Cycles /\ i \in Of(seen[w], d)
      BY <1>0, <2>1, RowsOfCycle DEF Items
    <2>3. Agrees(seen[w])
      BY <1>0, ViewAgrees
    <2> QED
      BY <1>0, <1>5, <2>2, <2>3 DEF Agrees, Of
  <1>9. CASE i \in Doomed(w, later, target)
    <2>1. PICK d \in Items(w) : i \in Duplicates(later, d)
      BY <1>2, <1>9 DEF Doomed, CanCommit
    <2>2. later \in Table /\ Named(later) /\ Agrees(later)
      BY <1>2 DEF CanCommit
    <2>3. d \in Cycles /\ i \in Of(later, d)
      BY <1>0, <2>1, <2>2, RowsOfCycle DEF Items, Duplicates
    <2> QED
      BY <1>0, <1>5, <2>2, <2>3 DEF Agrees, Of
  <1> QED
    BY <1>7, <1>8, <1>9

LEMMA CleanupLosesNone ==
  ASSUME KeepInv, NEW w \in Tools, CommitCleanup(w), NEW c \in Cycles,
         NEW i \in Of(rows, c), Of(rows', c) = {}, RowsStep
  PROVE  MergesCycles(w, c)
  <1>0. /\ TableInv /\ TypeOK /\ exchange \in Exchanges /\ w \in Workers /\ Active(w)
        /\ seen[w] \in Table /\ Named(seen[w]) /\ UniqueSources(seen[w])
        /\ i \in Ids /\ rows[i] # Gone /\ rows[i] # Unused /\ rows[i].cycle = c
        /\ i \in Stored(rows)
    BY DEF KeepInv, FreshInv, TableInv, TypeOK, ViewOK, Workers, CommitCleanup, Active,
       Of, Stored
  <1>1. PICK keepers \in SUBSET Stored(seen[w]) :
          /\ rows' = Cleaned(seen[w], keepers) /\ KeptByGroup(seen[w], keepers)
          /\ \A k \in keepers :
               Writable(k, seen[w][k], [seen[w][k] EXCEPT !.source = Canonical(@)])
    BY DEF CommitCleanup
  <1>2. rows'[i] = Gone
    BY <1>0 DEF RowsStep, Follows, Of, Stored
  <1>3. CleanedTo(w, keepers, i, rows'[i])
    BY <1>0, <1>1, CleanedRow
  <1>4. i \in Of(seen[w], c) /\ i \notin keepers
    <2>1. i \in Stored(seen[w]) /\ i \notin keepers
      BY <1>0, <1>2, <1>3, ClosedMarks DEF CleanedTo
    <2>2. Agrees(seen[w])
      BY <1>0, ViewAgrees
    <2> QED
      BY <1>0, <2>1, <2>2 DEF Agrees, Of
  <1>5. PICK k \in Latest(seen[w], Group(seen[w], i)) : Group(seen[w], i) \cap keepers = {k}
    BY <1>1, <1>4 DEF KeptByGroup, Of
  <1>6. /\ k \in keepers /\ k \in Group(seen[w], i) /\ k \in Stored(seen[w]) /\ k # i
        /\ k \in Ids /\ i \in Group(seen[w], i)
    BY <1>4, <1>5 DEF Group, Of, Stored
  <1>7. CASE seen[w][k].cycle # c
    <2>1. pc[w] = "cleaning" /\ pc'[w] = "idle"
      BY <1>0 DEF CommitCleanup, Reset, TypeOK
    <2> QED
      BY <1>4, <1>6, <1>7, <2>1 DEF MergesCycles
  <1>8. CASE seen[w][k].cycle = c
    <2>1. rows[k] = Gone
      <3>1. CleanedTo(w, keepers, k, rows'[k])
        BY <1>0, <1>1, <1>6, CleanedRow
      <3>2. ASSUME /\ k \in Stored(rows) /\ rows'[k] \in Row
                   /\ rows'[k].cycle = rows[k].cycle
            PROVE  FALSE
        <4>1. rows[k].cycle = c
          BY <1>0, <1>6, <1>8, <3>2, ViewAgrees DEF Agrees
        <4> QED
          BY <1>6, <3>2, <4>1, ClosedMarks DEF Of, Stored
      <3> QED
        BY <1>6, <3>1, <3>2 DEF CleanedTo
    <2>2. Canonical(seen[w][k].source) = seen[w][k].source
      <3>1. seen[w][k] = [seen[w][k] EXCEPT !.source = Canonical(@)]
        BY <1>1, <1>6, <2>1 DEF Writable
      <3>2. seen[w][k] \in Row
        BY <1>0, <1>6 DEF Table, Stored
      <3> QED
        BY <3>1, <3>2 DEF Row
    <2>3. Canonical(seen[w][i].source) = seen[w][k].source
      BY <1>6, <2>2 DEF Group
    <2>4. seen[w][i].source # seen[w][k].source
      BY <1>0, <1>4, <1>6 DEF UniqueSources, Of
    <2>5. /\ seen[w][i].source.form = "stage"
          /\ seen[w][k].source = Plain(seen[w][i].source.base)
      BY <2>3, <2>4 DEF Canonical
    <2>6. k \in Of(seen[w], c) /\ i \in Kin(seen[w], c) /\ k \in Kin(seen[w], c)
      BY <1>4, <1>6, <1>8, <2>5 DEF Of, Kin, IsKin, Plain
    <2>7. Preferred(w, k, i, c)
      BY <1>0, <1>6, <2>1, <2>6 DEF KeepInv, Kept
    <2>8. exchange # "POLYMARKET" => seen[w][i].closeTime <= seen[w][k].closeTime
      BY <1>5, <1>6 DEF Latest
    <2>9. exchange # "OKX" => seen[w][k].source = Identity(c) /\ seen[w][i].source # Identity(c)
      <3>1. Canonical(seen[w][k].source) = Plain(Base(c))
        BY <1>0, <2>6, KinMerge
      <3> QED
        BY <2>2, <2>4, <3>1 DEF Identity
    <2>10. seen[w][i].closeTime \in Int /\ seen[w][k].closeTime \in Int
      <3>1. seen[w][i] \in Row /\ seen[w][k] \in Row
        BY <1>0, <1>4, <1>6 DEF Table, Stored, Of
      <3> QED
        BY <3>1 DEF Row, Time
    <2> QED
      BY <1>0, <2>7, <2>8, <2>9, <2>10 DEF Preferred, Exchanges, CommitCleanup
  <1> QED
    BY <1>7, <1>8

\* However many synchronisations run beside one script, no cycle that is stored is
\* lost, except to the OKX cleanup that takes cycles of one posId for one
\* (_upsert_closed_positions, cleanup_*_closed_positions,
\* rebuild_okx_closed_position_cycles).
THEOREM SpecNoCycleLost == OneTool => (Spec => NoCycleLost)
  <1> SUFFICES ASSUME OneTool PROVE Spec => NoCycleLost
    OBVIOUS
  <1>1. KeepInv /\ [Next]_vars => KeepInv'
    BY KeepNext
  <1>2. KeepInv /\ [Next]_vars =>
          [\A c \in Cycles : Of(rows, c) # {} /\ Of(rows', c) = {}
             => \E w \in Tools : MergesCycles(w, c)]_vars
    <2> SUFFICES ASSUME KeepInv, [Next]_vars, NEW c \in Cycles, NEW i \in Of(rows, c),
                        Of(rows', c) = {}
                 PROVE  \E w \in Tools : MergesCycles(w, c)
      OBVIOUS
    <2>1. RowsStep
      BY RowsNext DEF KeepInv, FreshInv
    <2> QED
      BY <2>1, Commits, SyncLosesNone, RebuildLosesNone, CleanupLosesNone
  <1> QED
    BY <1>1, <1>2, KeepInit, PTL DEF Spec, NoCycleLost
=============================================================================
