---------------------------- MODULE AccountSync ----------------------------
(***************************************************************************)
(* The synchronisation of one exchange account (services/accounts.py,      *)
(* sync_account) against an exchange that moves on while it is read, a     *)
(* PostgreSQL row that other sessions write, and processes that crash.     *)
(*                                                                         *)
(* The clock `now' starts at 1, the moment create_account committed the    *)
(* account (tracking_started_at); 0 stands for None wherever the code      *)
(* keeps an optional timestamp.                                            *)
(***************************************************************************)
EXTENDS Integers, FiniteSets

CONSTANTS
    Sessions,        \* database sessions that call sync_account
    Backfills,       \* sessions of scripts/backfill_accounting_history.py
    Processes,       \* operating-system processes
    ProcessOf,       \* the process a session or a backfill runs in
    Keys,            \* (normalized_symbol, side) of a position
    ClosedFacts,     \* closing records of the exchange, by source_record_id
    HistoryFacts,    \* REALIZED_PNL rows of the account history
    KeyOf,           \* the position a closing record reduces
    MaxSize,         \* bound on a position's size
    MaxTime,         \* bound on the clock
    Interval,        \* settings.sync_*_seconds, per stream
    Overlap,         \* the five minutes a cursor is moved back
    Recent,          \* the 300 seconds of the POSITION_DISAPPEARED check
    DayLength,       \* ticks in a Shanghai day
    Polymarket,      \* TRUE for a POLYMARKET account
    Lookback,        \* POLYMARKET_CLOSED_LOOKBACK
    ReportsOpenTime  \* TRUE when open positions carry an open_time

Streams == {"balance", "positions", "closed_positions", "history"}
Facts   == ClosedFacts \cup HistoryFacts
Workers == Sessions \cup Backfills
Time    == 0 .. MaxTime
DayOf(t) == t \div DayLength
Days    == {DayOf(t) : t \in Time}
\* bool(adapter.history_streams); only Polymarket has none
HasHistory == HistoryFacts # {}
StreamOf(f) == IF f \in ClosedFacts THEN "closed_positions" ELSE "history"

ASSUME SyncConstants ==
    /\ MaxTime \in Nat \ {0} /\ MaxSize \in Nat
    /\ Interval \in [Streams -> Nat \ {0}]
    /\ Overlap \in Nat /\ Recent \in Nat /\ Lookback \in Nat
    /\ DayLength \in Nat \ {0}
    /\ Polymarket \in BOOLEAN /\ ReportsOpenTime \in BOOLEAN
    /\ KeyOf \in [ClosedFacts -> Keys]
    /\ ProcessOf \in [Workers -> Processes]
    /\ ClosedFacts \cap HistoryFacts = {}
    /\ Sessions \cap Backfills = {}

VARIABLES
    now,        \* the clock
    held,       \* exchange: open positions
    event,      \* exchange: when a fact happened
    published,  \* exchange: when its history endpoints began to return it
    account,    \* database: the exchange_accounts row
    ledger,     \* database: every other row of the account
    pc,         \* where a worker stands
    row,        \* the account row as its session loaded it
    started,    \* started = datetime.now(UTC)
    due,        \* the streams this sync fetches
    prior,      \* previous_positions
    answer      \* what the adapter calls returned so far

exchangeVars == <<held, event, published>>
dbVars       == <<account, ledger>>
workerVars   == <<pc, row, started, due, prior, answer>>
vars         == <<now, exchangeVars, dbVars, workerVars>>

Position == [size : 0 .. MaxSize, opened : Time]
Flat     == [size |-> 0, opened |-> 0]

\* data_completeness_details (one JSON column), connection_status, deleted_at
Details == [cursor : [Streams -> Time],
            history : {"UNKNOWN", "PARTIAL", "COMPLETE", "UNSUPPORTED"},
            issues : SUBSET Keys]
Account == [details : Details,
            status : {"CONNECTED", "ERROR", "DELETED"},
            deletedAt : Time]

\* current_positions, closed_positions, the history tables, the days with an
\* account balance snapshot and with position snapshots, and the facts that
\* the day's realized_pnl of daily_pnl_snapshots adds up
Ledger == [positions : [Keys -> Position],
           asOf : Time,
           closed : SUBSET ClosedFacts,
           history : SUBSET HistoryFacts,
           balanceDays : SUBSET Days,
           positionDays : SUBSET Days,
           dailyDays : SUBSET Days,
           daily : [Days -> SUBSET Facts]]

Answer == [pending : SUBSET Streams,
           historyFailed : BOOLEAN,
           positions : [Keys -> Position],
           readAt : Time,
           closed : SUBSET ClosedFacts,
           history : SUBSET HistoryFacts,
           whole : BOOLEAN]

NoAnswer == [pending |-> {}, historyFailed |-> FALSE,
             positions |-> [k \in Keys |-> Flat], readAt |-> 0,
             closed |-> {}, history |-> {}, whole |-> FALSE]

(***************************************************************************)
(* The state create_account commits.                                       *)
(***************************************************************************)
FreshAccount ==
    [details |-> [cursor |-> [s \in Streams |-> 0],
                  history |-> IF HasHistory THEN "UNKNOWN" ELSE "UNSUPPORTED",
                  issues |-> {}],
     status |-> "CONNECTED",
     deletedAt |-> 0]

Init ==
    /\ now = 1
    /\ held \in [Keys -> {Flat} \cup [size : 1 .. MaxSize, opened : {1}]]
    /\ event = [f \in Facts |-> 0]
    /\ published = [f \in Facts |-> 0]
    /\ account = FreshAccount
    /\ ledger = [positions |-> held, asOf |-> 1,
                 closed |-> {}, history |-> {},
                 balanceDays |-> {DayOf(1)}, positionDays |-> {DayOf(1)},
                 dailyDays |-> {}, daily |-> [d \in Days |-> {}]]
    /\ pc = [w \in Workers |-> "idle"]
    /\ row = [w \in Workers |-> FreshAccount]
    /\ started = [w \in Workers |-> 0]
    /\ due = [w \in Workers |-> {}]
    /\ prior = [w \in Workers |-> [k \in Keys |-> Flat]]
    /\ answer = [w \in Workers |-> NoAnswer]

(***************************************************************************)
(* The exchange: external.                                                 *)
(***************************************************************************)
Tick ==
    /\ now < MaxTime
    /\ now' = now + 1
    /\ UNCHANGED <<exchangeVars, dbVars, workerVars>>

OpenPosition(k) ==
    /\ held[k].size < MaxSize
    /\ held' = [held EXCEPT ![k] =
                  [size |-> @.size + 1,
                   opened |-> IF @ = Flat THEN now ELSE @.opened]]
    /\ UNCHANGED <<now, event, published, dbVars, workerVars>>

ClosePosition(f) ==
    LET k == KeyOf[f] IN
    /\ event[f] = 0
    /\ held[k].size > 0
    /\ event' = [event EXCEPT ![f] = now]
    /\ held' = [held EXCEPT ![k] = IF @.size = 1 THEN Flat
                  ELSE [size |-> @.size - 1, opened |-> @.opened]]
    /\ UNCHANGED <<now, published, dbVars, workerVars>>

BookIncome(f) ==
    /\ event[f] = 0
    /\ event' = [event EXCEPT ![f] = now]
    /\ UNCHANGED <<now, held, published, dbVars, workerVars>>

Publish(f) ==
    /\ event[f] # 0
    /\ published[f] = 0
    /\ published' = [published EXCEPT ![f] = now]
    /\ UNCHANGED <<now, held, event, dbVars, workerVars>>

\* what a history endpoint answers now for a window of times
Returned(facts, window) == {f \in facts : published[f] # 0 /\ event[f] \in window}

(***************************************************************************)
(* The start of sync_account.                                              *)
(***************************************************************************)
\* mutant: a lock created per call instead of per account
NeverLocked(p) == FALSE

\* the in-process asyncio.Lock of this account is held
Locked(p) == \E s \in Sessions : ProcessOf[s] = p /\ pc[s] = "syncing"

\* mutant: any tracking period of the account, active or not
AnyPeriod == TRUE

\* the account has an active tracking period
TrackingActive == account.deletedAt = 0

Reset(w) ==
    /\ pc' = [pc EXCEPT ![w] = "idle"]
    /\ row' = [row EXCEPT ![w] = FreshAccount]
    /\ started' = [started EXCEPT ![w] = 0]
    /\ due' = [due EXCEPT ![w] = {}]
    /\ prior' = [prior EXCEPT ![w] = [k \in Keys |-> Flat]]
    /\ answer' = [answer EXCEPT ![w] = NoAnswer]

\* the account object is loaded before sync_account looks at the lock
Load(s) ==
    /\ pc[s] = "idle"
    /\ account.deletedAt = 0
    /\ pc' = [pc EXCEPT ![s] = "loaded"]
    /\ row' = [row EXCEPT ![s] = account]
    /\ UNCHANGED <<now, exchangeVars, dbVars, started, due, prior, answer>>

StreamDue(s, stream) ==
    LET cursor == row[s].details.cursor[stream] IN
    /\ stream = "history" => HasHistory
    /\ cursor = 0 \/ now - cursor >= Interval[stream]

DueStreams(s) == {stream \in Streams : StreamDue(s, stream)}

SkipLocked(s) ==
    /\ pc[s] = "loaded"
    /\ Locked(ProcessOf[s])
    /\ Reset(s)
    /\ UNCHANGED <<now, exchangeVars, dbVars>>

NothingDue(s) ==
    /\ pc[s] = "loaded"
    /\ ~Locked(ProcessOf[s])
    /\ TrackingActive
    /\ DueStreams(s) = {}
    /\ Reset(s)
    /\ UNCHANGED <<now, exchangeVars, dbVars>>

\* no active tracking period: the failure path, which re-reads the account
NoPeriod(s) ==
    /\ pc[s] = "loaded"
    /\ ~Locked(ProcessOf[s])
    /\ ~TrackingActive
    /\ account' = [account EXCEPT !.status = "ERROR"]
    /\ Reset(s)
    /\ UNCHANGED <<now, exchangeVars, ledger>>

Begin(s) ==
    /\ pc[s] = "loaded"
    /\ ~Locked(ProcessOf[s])
    /\ TrackingActive
    /\ DueStreams(s) # {}
    /\ pc' = [pc EXCEPT ![s] = "syncing"]
    /\ started' = [started EXCEPT ![s] = now]
    /\ due' = [due EXCEPT ![s] = DueStreams(s)]
    /\ prior' = [prior EXCEPT ![s] = ledger.positions]
    /\ answer' = [answer EXCEPT ![s].pending = DueStreams(s) \ {"balance"}]
    /\ UNCHANGED <<now, exchangeVars, dbVars, row>>

(***************************************************************************)
(* The adapter calls of asyncio.gather: each answers at a moment of its    *)
(* own while the exchange moves on. A call other than the history one that *)
(* raises fails the sync (Fail); what the others answered is then thrown   *)
(* away. The balance answer is not compared with anything, so its moment   *)
(* is not modelled.                                                        *)
(***************************************************************************)
\* mutant: a query that ignores when the held positions were opened
ClosedWindowFromCursor(s) ==
    {t \in 1 .. started[s] :
        t >= row[s].details.cursor["closed_positions"] - Overlap}

\* _closed_sync_start .. started, as the set of times it covers
ClosedWindow(s) ==
    LET cursor == row[s].details.cursor["closed_positions"] IN
    {t \in 1 .. started[s] :
        IF Polymarket
        THEN t >= started[s] - Lookback
        ELSE \/ cursor = 0
             \/ t >= cursor - Overlap
             \/ \E k \in Keys : /\ ReportsOpenTime
                                /\ prior[s][k] # Flat
                                /\ t >= prior[s][k].opened}

\* mutant: a query that continues exactly where the cursor stands
HistoryWindowNoOverlap(s) ==
    {t \in 1 .. started[s] : t >= row[s].details.cursor["history"]}

HistoryWindow(s) ==
    LET cursor == row[s].details.cursor["history"] IN
    {t \in 1 .. started[s] : cursor = 0 \/ t >= cursor - Overlap}

ReceivePositions(s) ==
    /\ pc[s] = "syncing"
    /\ "positions" \in answer[s].pending
    /\ answer' = [answer EXCEPT ![s].pending = @ \ {"positions"},
                                ![s].positions = held,
                                ![s].readAt = now]
    /\ UNCHANGED <<now, exchangeVars, dbVars, pc, row, started, due, prior>>

ReceiveClosed(s) ==
    /\ pc[s] = "syncing"
    /\ "closed_positions" \in answer[s].pending
    /\ answer' = [answer EXCEPT
         ![s].pending = @ \ {"closed_positions"},
         ![s].closed = Returned(ClosedFacts, ClosedWindow(s))]
    /\ UNCHANGED <<now, exchangeVars, dbVars, pc, row, started, due, prior>>

\* `whole' is the bundle's "complete" on an adapter that has all the streams
ReceiveHistory(s) ==
    /\ pc[s] = "syncing"
    /\ "history" \in answer[s].pending
    /\ \E whole \in BOOLEAN :
         answer' = [answer EXCEPT
           ![s].pending = @ \ {"history"},
           ![s].history = Returned(HistoryFacts, HistoryWindow(s)),
           ![s].whole = whole]
    /\ UNCHANGED <<now, exchangeVars, dbVars, pc, row, started, due, prior>>

\* a failed history call is tolerated
HistoryFails(s) ==
    /\ pc[s] = "syncing"
    /\ "history" \in answer[s].pending
    /\ answer' = [answer EXCEPT ![s].pending = @ \ {"history"},
                                ![s].historyFailed = TRUE]
    /\ UNCHANGED <<now, exchangeVars, dbVars, pc, row, started, due, prior>>

Answered(s) == pc[s] = "syncing" /\ answer[s].pending = {}

\* mutant: a position missing from the answer is not compared
ReducedInSize(before, after) ==
    \E k \in Keys : /\ before[k].size > 0 /\ after[k].size > 0
                    /\ after[k].size < before[k].size

\* _position_was_reduced
Reduced(before, after) ==
    \E k \in Keys : before[k].size > 0 /\ after[k].size < before[k].size

ReductionUnread(s) ==
    /\ "positions" \in due[s]
    /\ "closed_positions" \notin due[s]
    /\ Reduced(prior[s], answer[s].positions)

\* a reduction makes the same sync read the closed positions too
FetchReduced(s) ==
    /\ Answered(s)
    /\ ReductionUnread(s)
    /\ due' = [due EXCEPT ![s] = @ \cup {"closed_positions"}]
    /\ answer' = [answer EXCEPT ![s].pending = {"closed_positions"}]
    /\ UNCHANGED <<now, exchangeVars, dbVars, pc, row, started, prior>>

(***************************************************************************)
(* The write phase: one transaction, committed or rolled back as a whole.  *)
(***************************************************************************)
\* POSITION_DISAPPEARED of _run_data_quality_checks
Disappeared(s) ==
    {k \in Keys :
        /\ prior[s][k] # Flat
        /\ answer[s].positions[k] = Flat
        /\ \A f \in answer[s].closed :
              KeyOf[f] = k => started[s] - event[f] >= Recent}

\* mutant: the status of the sync job written for the stream
HistoryStatusOfJob(s) ==
    IF answer[s].historyFailed THEN "PARTIAL_FAILED"
    ELSE row[s].details.history

\* mutant: every update is authoritative
HistoryStatusAuthoritative(s) ==
    CASE "history" \notin due[s]   -> row[s].details.history
      [] answer[s].historyFailed -> "PARTIAL"
      [] OTHER -> IF answer[s].whole THEN "COMPLETE" ELSE "PARTIAL"

\* update_completeness of the history streams, not authoritative
HistoryStatus(s) ==
    CASE "history" \notin due[s]        -> row[s].details.history
      [] answer[s].historyFailed      -> "PARTIAL"
      [] OTHER -> IF answer[s].whole /\ row[s].details.history # "PARTIAL"
                  THEN "COMPLETE" ELSE "PARTIAL"

\* mutant: the cursor of a failed history call moves too
DetailsAfterFailureToo(s) ==
    [cursor  |-> [stream \in Streams |->
                    IF stream \in due[s] THEN started[s]
                    ELSE row[s].details.cursor[stream]],
     history |-> HistoryStatus(s),
     issues  |-> IF {"positions", "closed_positions"} \subseteq due[s]
                 THEN Disappeared(s) ELSE row[s].details.issues]

\* mutant: the cursors get the time of the commit
DetailsAfterAtCommit(s) ==
    [cursor  |-> [stream \in Streams |->
                    IF /\ stream \in due[s]
                       /\ stream = "history" => ~answer[s].historyFailed
                    THEN now ELSE row[s].details.cursor[stream]],
     history |-> HistoryStatus(s),
     issues  |-> IF {"positions", "closed_positions"} \subseteq due[s]
                 THEN Disappeared(s) ELSE row[s].details.issues]

DetailsAfter(s) ==
    [cursor  |-> [stream \in Streams |->
                    IF /\ stream \in due[s]
                       /\ stream = "history" => ~answer[s].historyFailed
                    THEN started[s] ELSE row[s].details.cursor[stream]],
     history |-> HistoryStatus(s),
     issues  |-> IF {"positions", "closed_positions"} \subseteq due[s]
                 THEN Disappeared(s) ELSE row[s].details.issues]

\* the unit of work updates the columns that differ from what was loaded
Flushed(loaded, new, stored) == IF new = loaded THEN stored ELSE new

OnDay(facts, day) == {f \in facts : DayOf(event[f]) = day}

\* _refresh_polymarket_closed_daily_pnl
RepairedDaily(closed, incoming) ==
    [day \in Days |->
        IF Polymarket /\ day \in ledger.dailyDays /\ OnDay(incoming, day) # {}
        THEN OnDay(closed, day) ELSE ledger.daily[day]]

\* the realized_pnl of _write_daily_snapshot: income rows when there are any
RealizedToday(closed, history, at) ==
    LET upTo(facts) == {f \in OnDay(facts, DayOf(at)) : event[f] <= at} IN
    IF upTo(history) # {} THEN upTo(history) ELSE upTo(closed)

\* mutant: the rows of the window replace those of the account
BookedWindow(records) == records

\* _upsert_amount_records: rows are added or updated, never removed
Booked(records) == ledger.history \cup records

\* _replace_positions: rows that are not in the answer are deleted, the others
\* take every field of the answer; asset and position snapshots of a day are
\* written with the first balance of the day
Installed(s) == answer[s].positions

FirstOfDay(s) ==
    "balance" \in due[s] /\ DayOf(started[s]) \notin ledger.balanceDays

LedgerAfter(s) ==
    LET today    == DayOf(started[s])
        closed   == ledger.closed \cup answer[s].closed
        history  == Booked(answer[s].history)
        balance  == "balance" \in due[s]
        replaced == "positions" \in due[s]
        repaired == RepairedDaily(closed, answer[s].closed)
    IN [positions    |-> IF replaced THEN Installed(s) ELSE ledger.positions,
        asOf         |-> IF replaced THEN answer[s].readAt ELSE ledger.asOf,
        closed       |-> closed,
        history      |-> history,
        balanceDays  |-> ledger.balanceDays \cup
                         (IF balance THEN {today} ELSE {}),
        positionDays |-> ledger.positionDays \cup
                         (IF FirstOfDay(s) /\ replaced THEN {today} ELSE {}),
        dailyDays    |-> ledger.dailyDays \cup
                         (IF balance THEN {today} ELSE {}),
        daily        |-> IF balance
                         THEN [repaired EXCEPT ![today] =
                                 RealizedToday(closed, history, started[s])]
                         ELSE repaired]

Commit(s) ==
    /\ Answered(s)
    /\ ~ReductionUnread(s)
    /\ ledger' = LedgerAfter(s)
    /\ account' = [account EXCEPT
         !.details = Flushed(row[s].details, DetailsAfter(s), @),
         !.status = Flushed(row[s].status, "CONNECTED", @)]
    /\ Reset(s)
    /\ UNCHANGED <<now, exchangeVars>>

\* an adapter call or a database statement raised: roll back, record ERROR
Fail(s) ==
    /\ pc[s] = "syncing"
    /\ account' = [account EXCEPT !.status = "ERROR"]
    /\ Reset(s)
    /\ UNCHANGED <<now, exchangeVars, ledger>>

(***************************************************************************)
(* The other writers of the account row, and crashes.                      *)
(***************************************************************************)
DeleteAccount ==
    /\ account.deletedAt = 0
    /\ account' = [account EXCEPT !.status = "DELETED", !.deletedAt = now]
    /\ UNCHANGED <<now, exchangeVars, ledger, workerVars>>

\* backfill_accounting_history.py takes no lock
BackfillStart(b) ==
    /\ pc[b] = "idle"
    /\ HasHistory
    /\ account.deletedAt = 0
    /\ pc' = [pc EXCEPT ![b] = "syncing"]
    /\ row' = [row EXCEPT ![b] = account]
    /\ started' = [started EXCEPT ![b] = now]
    /\ UNCHANGED <<now, exchangeVars, dbVars, due, prior, answer>>

\* a run without --apply, or one whose adapter call raised
BackfillEnd(b) ==
    /\ pc[b] = "syncing"
    /\ Reset(b)
    /\ UNCHANGED <<now, exchangeVars, dbVars>>

\* the bundle, answered at some moment since the start
Bundle(b, moment) ==
    {f \in Returned(HistoryFacts, 1 .. started[b]) : published[f] <= moment}

\* update_completeness, authoritative
BackfilledDetails(b, whole) ==
    [row[b].details EXCEPT !.history = IF whole THEN "COMPLETE" ELSE "PARTIAL"]

BackfillCommit(b) ==
    /\ pc[b] = "syncing"
    /\ \E moment \in started[b] .. now :
         ledger' = [ledger EXCEPT !.history = Booked(Bundle(b, moment))]
    /\ \E whole \in BOOLEAN :
         account' = [account EXCEPT !.details =
             Flushed(row[b].details, BackfilledDetails(b, whole), @)]
    /\ Reset(b)
    /\ UNCHANGED <<now, exchangeVars>>

\* a process dies: its locks and open transactions go with it
Crash(p) ==
    LET mine(w) == ProcessOf[w] = p IN
    /\ \E w \in Workers : mine(w) /\ pc[w] # "idle"
    /\ pc' = [w \in Workers |-> IF mine(w) THEN "idle" ELSE pc[w]]
    /\ row' = [w \in Workers |-> IF mine(w) THEN FreshAccount ELSE row[w]]
    /\ started' = [w \in Workers |-> IF mine(w) THEN 0 ELSE started[w]]
    /\ due' = [w \in Workers |-> IF mine(w) THEN {} ELSE due[w]]
    /\ prior' = [w \in Workers |->
                   IF mine(w) THEN [k \in Keys |-> Flat] ELSE prior[w]]
    /\ answer' = [w \in Workers |-> IF mine(w) THEN NoAnswer ELSE answer[w]]
    /\ UNCHANGED <<now, exchangeVars, dbVars>>

(***************************************************************************)
(* Specification.                                                          *)
(***************************************************************************)
Exchange ==
    \/ Tick
    \/ \E k \in Keys : OpenPosition(k)
    \/ \E f \in ClosedFacts : ClosePosition(f)
    \/ \E f \in HistoryFacts : BookIncome(f)
    \/ \E f \in Facts : Publish(f)

Sync(s) ==
    \/ Load(s)
    \/ SkipLocked(s) \/ NothingDue(s) \/ NoPeriod(s) \/ Begin(s)
    \/ ReceivePositions(s) \/ ReceiveClosed(s) \/ ReceiveHistory(s)
    \/ HistoryFails(s)
    \/ FetchReduced(s)
    \/ Commit(s) \/ Fail(s)

Backfill(b) == BackfillStart(b) \/ BackfillEnd(b) \/ BackfillCommit(b)

Next ==
    \/ Exchange
    \/ \E s \in Sessions : Sync(s)
    \/ \E b \in Backfills : Backfill(b)
    \/ DeleteAccount
    \/ \E p \in Processes : Crash(p)

Spec == Init /\ [][Next]_vars

(***************************************************************************)
(* Properties.                                                             *)
(***************************************************************************)
TypeOK ==
    /\ now \in Time
    /\ held \in [Keys -> Position]
    /\ event \in [Facts -> Time] /\ published \in [Facts -> Time]
    /\ account \in Account /\ ledger \in Ledger
    /\ pc \in [Workers -> {"idle", "loaded", "syncing"}]
    /\ row \in [Workers -> Account]
    /\ started \in [Workers -> Time]
    /\ due \in [Workers -> SUBSET Streams]
    /\ prior \in [Workers -> [Keys -> Position]]
    /\ answer \in [Workers -> Answer]

\* the exchange returned f no later than the overlap after it happened
Prompt(f) == published[f] # 0 /\ published[f] - event[f] <= Overlap

Stored == ledger.closed \cup ledger.history

\* every prompt fact published before the cursors' moments is in `stored'
Covers(cursor, stored) ==
    \A f \in Facts :
        Prompt(f) /\ published[f] < cursor[StreamOf(f)] => f \in stored

\* A stream's cursor never passes a fact that is not stored: "only after the
\* whole request chain succeeded does the cursor advance", and five minutes of
\* overlap make up for the exchange's own delay. With every interleaving of
\* sessions that loaded the row earlier, crashes, failing calls and backfills.
CursorCoversFacts == Covers(account.details.cursor, Stored)

\* Two syncs of one process never install positions out of order: a commit
\* does not replace the positions by ones read before those it replaces.
PositionsNeverGoBack == [][ledger'.asOf >= ledger.asOf]_vars

\* A position that leaves current_positions leaves a trace in the same commit:
\* a closing record, or the POSITION_DISAPPEARED issue on the account.
NoSilentDisappearance ==
    [][\A k \in Keys :
          ledger.positions[k] # Flat /\ ledger'.positions[k] = Flat
          => \/ k \in account'.details.issues
             \/ \E f \in ledger'.closed : KeyOf[f] = k]_vars

\* While a position is shown as held, every one of its reductions published
\* before the closed cursor is stored, however late the exchange published it:
\* the query starts at the open time of the position.
HeldReductionsStored ==
    \A f \in ClosedFacts :
        LET p == ledger.positions[KeyOf[f]] IN
        /\ ReportsOpenTime /\ p # Flat /\ event[f] >= p.opened
        /\ published[f] # 0
        /\ published[f] < account.details.cursor["closed_positions"]
        => f \in ledger.closed

\* After delete_account only a sync that began before it still writes rows.
DeletedIsFrozen ==
    [][account.deletedAt # 0 /\ ledger' # ledger
       => \E w \in Workers : /\ pc[w] = "syncing" /\ pc'[w] = "idle"
                             /\ started[w] <= account.deletedAt]_vars

\* A window that was incomplete leaves the history PARTIAL: no later complete
\* window, retry or restart declares it complete again. Only the authoritative
\* backfill does, or a session that loaded the row before it became PARTIAL.
PartialNeedsBackfill ==
    [][account.details.history = "PARTIAL" /\ account'.details.history # "PARTIAL"
       => \E w \in Workers :
             /\ pc[w] = "syncing" /\ pc'[w] = "idle"
             /\ w \in Backfills \/ row[w].details.history # "PARTIAL"]_vars

\* "Every account can have only one sync lock": no two syncs of the account
\* are under way at a time, whatever process they run in.
OneSyncPerAccount ==
    \A s, t \in Sessions : pc[s] = "syncing" /\ pc[t] = "syncing" => s = t

(***************************************************************************)
(* Liveness: the scheduler keeps running a sync and the faults stop.       *)
(***************************************************************************)
Progress(s) ==
    \/ Load(s) \/ NothingDue(s) \/ NoPeriod(s) \/ Begin(s)
    \/ ReceivePositions(s) \/ ReceiveClosed(s) \/ ReceiveHistory(s)
    \/ FetchReduced(s) \/ Commit(s)

\* a step without a fault; a crash that interrupts nothing looks like one
Calm ==
    \/ Exchange \/ DeleteAccount
    \/ \E s \in Sessions : Progress(s) \/ SkipLocked(s)
    \/ \E b \in Backfills : Backfill(b)

Fairness ==
    /\ WF_vars(Tick)
    /\ \A s \in Sessions : WF_vars(Progress(s))
    /\ <>[][Calm]_vars

LiveSpec == Spec /\ Fairness

\* Every fact the exchange publishes promptly, and early enough for its stream
\* to fall due once more, ends up stored, unless the account is deleted.
EventuallyStored ==
    \A f \in Facts :
        Prompt(f) /\ published[f] + Interval[StreamOf(f)] <= MaxTime
        ~> f \in Stored \/ account.deletedAt # 0

(***************************************************************************)
(* Refinement.                                                             *)
(***************************************************************************)
\* the prompt facts that a cursor of the account has passed
Passed == {f \in Facts : Prompt(f) /\ published[f] < account.details.cursor[StreamOf(f)]}

Mirror == INSTANCE MirrorLedger WITH
    Writers  <- Workers,
    happened <- {f \in Facts : event[f] # 0},
    listed   <- {f \in Facts : published[f] # 0},
    stored   <- Stored,
    passed   <- Passed,
    writing  <- {w \in Workers : pc[w] = "syncing"},
    deleted  <- account.deletedAt # 0

\* sync_account, its sessions, the backfill script, deletions and crashes do
\* nothing but what the mirror promises: transactions that began while the
\* account existed add listed records, whole or not at all, and pass none.
ImplementsMirror == Mirror!Spec
=============================================================================
