-------------------------- MODULE ClosedPositions --------------------------
(***************************************************************************)
(* The rows of closed_positions of one account and their identities: the   *)
(* upsert of a synchronisation (_upsert_closed_positions of                *)
(* services/accounts.py) beside the tools of services/maintenance.py that  *)
(* merge rows stored under identities of earlier versions.                 *)
(*                                                                         *)
(* A trading cycle is one position from its opening to its end. The        *)
(* exchange answers with the cumulative state of its latest reduction, and *)
(* earlier versions made that reduction's time part of the identity.       *)
(***************************************************************************)
EXTENDS Integers

CONSTANTS
    Cycles,      \* trading cycles, numbered in the order they were opened
    PosIdOf,     \* the posId OKX gives a cycle; it is reused once flat
    Ids,         \* primary keys
    Syncs,       \* the server's sessions that call sync_account
    Tools,       \* sessions of the scripts
    StartTime,   \* the clock when the model begins
    MaxTime,     \* bound on the clock
    DayLength,   \* ticks in a Shanghai day
    Lookback,    \* ticks of POLYMARKET_CLOSED_LOOKBACK
    Unused, Gone \* a primary key not given out yet; a deleted row

Exchanges == {"OKX", "BITGET", "POLYMARKET"}
Workers   == Syncs \cup Tools
Time      == 0 .. MaxTime
DayOf(t)  == t \div DayLength
Days      == {DayOf(t) : t \in Time}

ASSUME ClosedConstants ==
    /\ MaxTime \in Nat \ {0} /\ StartTime \in 1 .. MaxTime
    /\ DayLength \in Nat \ {0} /\ Lookback \in Nat
    /\ Cycles \subseteq Nat /\ PosIdOf \in [Cycles -> Cycles]
    /\ Syncs \cap Tools = {}

VARIABLES
    exchange,   \* the account's exchange
    now,        \* the clock
    closedAt,   \* exchange: the time of a cycle's latest reduction, 0: none
    rows,       \* database: closed_positions
    dailyDays,  \* database: the days that have a daily_pnl_snapshots row
    daily,      \* database: the rows each day's realized_pnl adds up
    overtaken,  \* history variable: the days whose total is of a sync that
                \* committed after one which had started later
    pc,         \* where a worker stands
    started,    \* end_time of its request
    answer,     \* close_time of the cycles the adapter returned, 0: none
    seen,       \* the rows as the session loaded them
    passed      \* history variable: the sessions that began before a sync that
                \* has committed since

dbVars     == <<rows, dailyDays, daily, overtaken>>
workerVars == <<pc, started, answer, seen, passed>>
vars       == <<exchange, now, closedAt, dbVars, workerVars>>

(***************************************************************************)
(* Identities. A source_record_id is a base, the exchange's number of the  *)
(* position or the outcome token, and a suffix: none, the time of the      *)
(* reduction ("stage"), or the opening time of the cycle.                  *)
(***************************************************************************)
Base(c) == IF exchange = "OKX" THEN PosIdOf[c] ELSE c

Plain(p)     == [base |-> p, form |-> "plain", number |-> 0]
Staged(p, t) == [base |-> p, form |-> "stage", number |-> t]
Sources == [base : Cycles, form : {"plain", "stage", "cycle"},
            number : Time \cup Cycles]

\* mutant: the time of the latest reduction is part of the identity
IdentityByStage(c) == Staged(Base(c), closedAt[c])

\* what the adapter gives a cycle: posId and cTime on OKX
Identity(c) ==
    IF exchange = "OKX"
    THEN [base |-> Base(c), form |-> "cycle", number |-> c]
    ELSE Plain(Base(c))

\* canonical_okx_, _bitget_ and _polymarket_closed_source_id
Canonical(source) ==
    IF source.form = "stage" THEN Plain(source.base) ELSE source

Row == [cycle : Cycles, source : Sources, closeTime : Time]

ASSUME ClosedMarks == Unused # Gone /\ Unused \notin Row /\ Gone \notin Row

Stored(table)   == {i \in Ids : table[i] \notin {Unused, Gone}}
Of(table, c)    == {i \in Stored(table) : table[i].cycle = c}
OnDay(table, d) == {i \in Stored(table) : DayOf(table[i].closeTime) = d}

\* the unique key on source_record_id
UniqueSources(table) ==
    \A i, j \in Stored(table) : table[i].source = table[j].source => i = j

\* the row an earlier version stored for the stage of c at time t
LegacyRows(times) ==
    {r \in Row : /\ r.closeTime \in 1 .. times[r.cycle]
                 /\ r.source \in {Identity(r.cycle), Plain(Base(r.cycle)),
                                  Staged(Base(r.cycle), r.closeTime)}}

\* rows of earlier versions: one per stage, merged or not by earlier runs
Legacy(table) ==
    /\ UniqueSources(table)
    /\ \A i, j \in Stored(table) :
          table[i].cycle = table[j].cycle
          /\ table[i].closeTime = table[j].closeTime => i = j

\* OKX numbers: a posId is used again only after the position is flat
InOrder(times) ==
    \A c, d \in Cycles :
        c < d /\ Base(c) = Base(d) /\ times[d] # 0
        => times[c] # 0 /\ times[c] < times[d]

NoAnswer == [c \in Cycles |-> 0]
NoRows   == [i \in Ids |-> Unused]

Init ==
    /\ exchange \in Exchanges
    /\ now = StartTime
    /\ closedAt \in [Cycles -> 0 .. StartTime] /\ InOrder(closedAt)
    /\ rows \in [Ids -> LegacyRows(closedAt) \cup {Unused}] /\ Legacy(rows)
    /\ \E i \in Ids : rows[i] = Unused
    /\ dailyDays = 0 .. DayOf(StartTime) - 1
    /\ daily = [d \in Days |-> IF d \in dailyDays THEN OnDay(rows, d) ELSE {}]
    /\ overtaken = {}
    /\ pc = [w \in Workers |-> "idle"]
    /\ started = [w \in Workers |-> 0]
    /\ answer = [w \in Workers |-> NoAnswer]
    /\ seen = [w \in Workers |-> NoRows]
    /\ passed = {}

(***************************************************************************)
(* The exchange: external.                                                 *)
(***************************************************************************)
Tick ==
    /\ now < MaxTime
    /\ now' = now + 1
    /\ UNCHANGED <<exchange, closedAt, dbVars, workerVars>>

\* a first or a further reduction; Polymarket: a settlement or its correction
Reduce(c) ==
    /\ closedAt[c] < now
    /\ closedAt' = [closedAt EXCEPT ![c] = now]
    /\ InOrder(closedAt')
    /\ UNCHANGED <<exchange, now, dbVars, workerVars>>

(***************************************************************************)
(* Steps of every session.                                                 *)
(***************************************************************************)
Reset(w) ==
    /\ pc' = [pc EXCEPT ![w] = "idle"]
    /\ started' = [started EXCEPT ![w] = 0]
    /\ answer' = [answer EXCEPT ![w] = NoAnswer]
    /\ seen' = [seen EXCEPT ![w] = NoRows]

\* get_closed_positions: the latest state of the cycles its window covers. Of
\* the scripts rebuild_okx_closed_position_cycles calls it, and
\* backfill_polymarket_translations, which synchronises the account
Fetch(w) ==
    /\ pc[w] = "idle"
    /\ w \in Tools => exchange # "BITGET"
    /\ \E from \in 1 .. now :
         /\ exchange = "POLYMARKET" => from = IF now > Lookback THEN now - Lookback ELSE 1
         /\ answer' = [answer EXCEPT ![w] =
           [c \in Cycles |-> IF closedAt[c] >= from THEN closedAt[c] ELSE 0]]
    /\ pc' = [pc EXCEPT ![w] = "fetched"]
    /\ started' = [started EXCEPT ![w] = now]
    /\ UNCHANGED <<exchange, now, closedAt, dbVars, seen, passed>>

\* the query for the existing rows
LoadRows(w) ==
    /\ pc[w] = "fetched"
    /\ pc' = [pc EXCEPT ![w] = "loaded"]
    /\ seen' = [seen EXCEPT ![w] = rows]
    /\ UNCHANGED <<exchange, now, closedAt, dbVars, started, answer, passed>>

Items(w) == {c \in Cycles : answer[w][c] # 0}

\* an exception, a preview without --apply, or a crash: nothing is written
GiveUp(w) ==
    /\ pc[w] # "idle"
    /\ Reset(w)
    /\ passed' = passed \ {w}
    /\ UNCHANGED <<exchange, now, closedAt, dbVars>>

(***************************************************************************)
(* The unit of work. A session writes the columns that differ from what it *)
(* loaded; deleting a row that is gone is a warning, updating one an error *)
(* that rolls back, and so is a source_record_id that another row has.     *)
(***************************************************************************)
Flushed(loaded, new, stored) == IF new = loaded THEN stored ELSE new

\* i ends as `new' in the session that loaded it as `loaded'
Written(i, loaded, new) ==
    IF rows[i] = Gone THEN Gone
    ELSE [cycle |-> new.cycle,
          source |-> Flushed(loaded.source, new.source, rows[i].source),
          closeTime |-> Flushed(loaded.closeTime, new.closeTime,
                                rows[i].closeTime)]

Writable(i, loaded, new) == loaded = new \/ rows[i] # Gone

(***************************************************************************)
(* _upsert_closed_positions.                                               *)
(***************************************************************************)
Exact(view, c) == {i \in Stored(view) : view[i].source = Identity(c)}

\* mutant: OKX rows of any cycle of the position
SameCycleByBase(view, c) ==
    CASE exchange = "BITGET" ->
           {i \in Stored(view) : Canonical(view[i].source) = Identity(c)}
      [] exchange = "OKX" ->
           {i \in Stored(view) : /\ view[i].source.form # "cycle"
                                 /\ view[i].source.base = Base(c)}
      [] OTHER -> Of(view, c)

\* rows under another identity of the cycle: by canonical identity on Bitget,
\* by base, symbol, side and open_time on OKX, by symbol and side on Polymarket
SameCycle(view, c) ==
    CASE exchange = "BITGET" ->
           {i \in Stored(view) : Canonical(view[i].source) = Identity(c)}
      [] exchange = "OKX" ->
           {i \in Of(view, c) : /\ view[i].source.form # "cycle"
                                /\ view[i].source.base = Base(c)}
      [] OTHER -> Of(view, c)

\* max by close_time, on Polymarket by updated_at, which may be any row
Latest(view, candidates) ==
    {i \in candidates :
        exchange = "POLYMARKET"
        \/ \A j \in candidates : view[j].closeTime <= view[i].closeTime}

\* the rows that may take the item of c: new ones only if there is none
Targets(view, c) ==
    IF Exact(view, c) # {} THEN Exact(view, c)
    ELSE IF SameCycle(view, c) # {} THEN Latest(view, SameCycle(view, c))
    ELSE {i \in Ids : rows[i] = Unused}

\* the duplicates deleted with it: beside an exact row only on Bitget
Duplicates(view, c) ==
    IF Exact(view, c) # {} /\ exchange # "BITGET" THEN {}
    ELSE SameCycle(view, c)

\* mutant: the milliseconds of the answer are rounded up
ItemRoundedUp(w, c) ==
    [cycle |-> c, source |-> Identity(c), closeTime |-> answer[w][c] + 1]

Item(w, c) ==
    [cycle |-> c, source |-> Identity(c), closeTime |-> answer[w][c]]

\* the table after the items in `target' and the deletion of `more'
Upserted(w, view, target, more) ==
    LET items  == DOMAIN target
        doomed == more \cup UNION {Duplicates(view, c) \ {target[c]} : c \in items}
    IN [i \in Ids |->
          IF i \in doomed THEN Gone
          ELSE IF \E c \in items : target[c] = i
               THEN LET c == CHOOSE d \in items : target[d] = i IN
                    IF rows[i] = Unused THEN Item(w, c)
                    ELSE Written(i, view[i], Item(w, c))
               ELSE rows[i]]

CanUpsert(w, view, target) ==
    /\ \A c, d \in DOMAIN target : target[c] = target[d] => c = d
    /\ \A c \in DOMAIN target :
          /\ target[c] \in Targets(view, c)
          /\ rows[target[c]] # Unused => Writable(target[c], view[target[c]], Item(w, c))

\* daily totals: the days in `repaired' are added up again
Totals(table, repaired) ==
    [d \in Days |-> IF d \in repaired \cap dailyDays
                    THEN OnDay(table, d) ELSE daily[d]]

DaysOf(w) == {DayOf(answer[w][c]) : c \in Items(w)}

\* mutant: the day of the sync is repaired instead of the day of the close
RepairToday(w) == {DayOf(started[w])}

\* _refresh_polymarket_closed_daily_pnl
RepairedBySync(w) == IF exchange = "POLYMARKET" THEN DaysOf(w) ELSE {}

\* the sessions that have asked the exchange before w did
StartedBefore(w) == {v \in Workers : pc[v] \in {"fetched", "loaded"} /\ started[v] < started[w]}

\* the write phase of sync_account; a balance sync writes today's total too,
\* of what was closed until its own start
CommitSync(w) ==
    /\ pc[w] = "loaded"
    /\ \E target \in [Items(w) -> Ids] :
         /\ CanUpsert(w, seen[w], target)
         /\ rows' = Upserted(w, seen[w], target, {})
         /\ UniqueSources(rows')
    /\ \E balance \in BOOLEAN :
         LET today    == DayOf(started[w])
             repaired == Totals(rows', RepairedBySync(w))
             others   == overtaken \ RepairedBySync(w)
         IN IF balance
            THEN /\ dailyDays' = dailyDays \cup {today}
                 /\ daily' = [repaired EXCEPT ![today] =
                      {i \in OnDay(rows', today) : rows'[i].closeTime <= started[w]}]
                 /\ overtaken' = IF w \in passed THEN others \cup {today}
                                 ELSE others \ {today}
            ELSE daily' = repaired /\ overtaken' = others /\ UNCHANGED dailyDays
    /\ passed' = (passed \cup StartedBefore(w)) \ {w}
    /\ Reset(w)
    /\ UNCHANGED <<exchange, now, closedAt>>

(***************************************************************************)
(* cleanup_okx_, _bitget_ and _polymarket_closed_positions: one row for    *)
(* each canonical identity.                                                *)
(***************************************************************************)
StartCleanup(w) ==
    /\ pc[w] = "idle"
    /\ pc' = [pc EXCEPT ![w] = "cleaning"]
    /\ seen' = [seen EXCEPT ![w] = rows]
    /\ UNCHANGED <<exchange, now, closedAt, dbVars, started, answer, passed>>

Group(view, i) ==
    {j \in Stored(view) : Canonical(view[j].source) = Canonical(view[i].source)}

\* one keeper in every group
KeptByGroup(view, keepers) ==
    \A i \in Stored(view) :
        \E k \in Latest(view, Group(view, i)) : Group(view, i) \cap keepers = {k}

Cleaned(view, keepers) ==
    [i \in Ids |->
        IF i \in keepers
        THEN Written(i, view[i], [view[i] EXCEPT !.source = Canonical(@)])
        ELSE IF i \in Stored(view) THEN Gone ELSE rows[i]]

\* the days of merged rows; on Polymarket every day once there was one
RepairedByCleanup(view) ==
    LET merged == {i \in Stored(view) : Group(view, i) # {i}} IN
    IF exchange # "POLYMARKET" THEN {DayOf(view[i].closeTime) : i \in merged}
    ELSE IF merged = {} THEN {} ELSE Days

CommitCleanup(w) ==
    /\ pc[w] = "cleaning"
    /\ \E keepers \in SUBSET Stored(seen[w]) :
         /\ KeptByGroup(seen[w], keepers)
         /\ \A i \in keepers :
              Writable(i, seen[w][i], [seen[w][i] EXCEPT !.source = Canonical(@)])
         /\ rows' = Cleaned(seen[w], keepers)
         /\ UniqueSources(rows')
    /\ daily' = Totals(rows', RepairedByCleanup(seen[w]))
    /\ overtaken' = overtaken \ RepairedByCleanup(seen[w])
    /\ passed' = passed \ {w}
    /\ Reset(w)
    /\ UNCHANGED <<exchange, now, closedAt, dailyDays>>

(***************************************************************************)
(* rebuild_okx_closed_position_cycles: every legacy row must belong to a   *)
(* cycle of the answer; its cycle keeps the exact row or the latest one.   *)
(***************************************************************************)
UnderOldIdentity(view) == {i \in Stored(view) : view[i].source.form # "cycle"}

\* what the upsert inside the script finds: the rows there are now, those of
\* the first query with the values loaded then
SessionView(w, doomed) ==
    [i \in Ids |-> IF i \in doomed THEN Gone
                   ELSE IF rows[i] # Gone /\ i \in Stored(seen[w])
                   THEN seen[w][i] ELSE rows[i]]

CommitRebuild(w) ==
    /\ pc[w] = "loaded" /\ exchange = "OKX"
    /\ UnderOldIdentity(seen[w]) \subseteq UNION {SameCycle(seen[w], c) : c \in Items(w)}
    /\ \E keepers \in SUBSET UnderOldIdentity(seen[w]) :
         LET view   == seen[w]
             doomed == UnderOldIdentity(view) \ keepers
             later  == SessionView(w, doomed)
         IN /\ \A c \in Items(w) :
                 LET legacy == SameCycle(view, c) IN
                 IF Exact(view, c) # {} \/ legacy = {} THEN legacy \cap keepers = {}
                 ELSE \E k \in Latest(view, legacy) : legacy \cap keepers = {k}
            /\ \E target \in [Items(w) -> Ids] :
                 /\ CanUpsert(w, later, target)
                 /\ rows' = Upserted(w, later, target, doomed)
            /\ UniqueSources(rows')
    /\ daily' = Totals(rows', DaysOf(w))
    /\ overtaken' = overtaken \ DaysOf(w)
    /\ passed' = passed \ {w}
    /\ Reset(w)
    /\ UNCHANGED <<exchange, now, closedAt, dailyDays>>

(***************************************************************************)
(* Specification.                                                          *)
(***************************************************************************)
Sync(w) == Fetch(w) \/ LoadRows(w) \/ CommitSync(w) \/ GiveUp(w)

Tool(w) ==
    \/ StartCleanup(w) \/ CommitCleanup(w)
    \/ Fetch(w) \/ LoadRows(w) \/ CommitRebuild(w)
    \/ exchange = "POLYMARKET" /\ CommitSync(w)
    \/ GiveUp(w)

Next ==
    \/ Tick
    \/ \E c \in Cycles : Reduce(c)
    \/ \E w \in Syncs : Sync(w)
    \/ \E w \in Tools : Tool(w)

Spec == Init /\ [][Next]_vars

(***************************************************************************)
(* Properties.                                                             *)
(***************************************************************************)
TypeOK ==
    /\ exchange \in Exchanges /\ now \in Time
    /\ closedAt \in [Cycles -> Time]
    /\ rows \in [Ids -> Row \cup {Unused, Gone}]
    /\ dailyDays \in SUBSET Days /\ daily \in [Days -> SUBSET Ids]
    /\ passed \in SUBSET Workers /\ overtaken \in SUBSET dailyDays
    /\ pc \in [Workers -> {"idle", "fetched", "loaded", "cleaning"}]
    /\ started \in [Workers -> Time]
    /\ answer \in [Workers -> [Cycles -> Time]]
    /\ seen \in [Workers -> [Ids -> Row \cup {Unused, Gone}]]

AtMostOne(set) == \A i, j \in set : i = j

\* "A partial close updates the same cycle": whatever the order of arrival,
\* the identities stored before and the tool that runs beside the sync, a
\* cycle that has one row at most never gets a second one.
NoNewDuplicate ==
    [][\A c \in Cycles : AtMostOne(Of(rows, c)) => AtMostOne(Of(rows', c))]_vars

\* cleanup_okx_closed_positions takes rows of cycles with one posId for one
MergesCycles(w, c) ==
    /\ pc[w] = "cleaning" /\ pc'[w] = "idle"
    /\ \E i \in Of(seen[w], c) : \E j \in Group(seen[w], i) : seen[w][j].cycle # c

\* No duplicate is deleted by one session because of a row another session
\* deletes: a cycle that is stored stays stored, save when the OKX cleanup
\* merges it with a later cycle of a reused posId.
NoCycleLost ==
    [][\A c \in Cycles : Of(rows, c) # {} /\ Of(rows', c) = {}
         => \E w \in Tools : MergesCycles(w, c)]_vars

\* "Repair affected historical day totals when settlements arrive late": a
\* Polymarket row is part of its day's total if that day has one, however the
\* synchronisations of the server and of a script, whose lock is another
\* process's, overlap. Only a balance sync that commits after one which started
\* later leaves out what closed in between, until the day is written again.
LateSettlementsReachTheirDay ==
    exchange = "POLYMARKET" =>
        \A i \in Stored(rows) :
            LET day == DayOf(rows[i].closeTime) IN
            day \in dailyDays \ overtaken => i \in daily[day]
=============================================================================
