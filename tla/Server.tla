------------------------------- MODULE Server -------------------------------
(***************************************************************************)
(* The server process: what it does at startup (main.py, lifespan), the    *)
(* jobs and requests it then serves, and its restarts. It covers the       *)
(* configured accounts (configured_accounts.py), the equity curve and its  *)
(* cache (equity_curve.py), the one-time move of daily rows to the         *)
(* reporting calendar (reporting_calendar.py) and the deletion of old      *)
(* snapshots (maintenance.py, apply_data_retention). Time is counted in    *)
(* the five-minute buckets of the curve. One exchange; a synchronisation   *)
(* is one step here, AccountSync models what it consists of.               *)
(***************************************************************************)
EXTENDS Integers, Sequences

CONSTANTS
    Names,        \* names of accounts
    Enabled,      \* those the configuration file enables
    Requests,     \* clients that ask for the curve
    DayLength,    \* buckets in a day
    Ahead,        \* what the reporting day is ahead of the UTC day
    Lookback,     \* how old a snapshot may be that backfills a bucket
    Keep,         \* age of the snapshots retention deletes
    History,      \* when the present version is started for the first time
    Recorded,     \* when the earlier one may have recorded: sets of moments
    MaxTime,      \* bound on time
    MaxAccounts   \* bound on the accounts

ASSUME ServerConstants ==
    /\ Enabled \subseteq Names
    /\ DayLength \in Nat \ {0} /\ History \in Nat \ {0}
    /\ Recorded \subseteq SUBSET (0 .. History - 1)
    /\ {Ahead, Lookback, Keep, MaxTime, MaxAccounts} \subseteq Nat
    /\ History <= MaxTime

VARIABLES
    now,       \* the current bucket
    accounts,  \* database: exchange_accounts, in the order of creation
    snaps,     \* database: account_balance_snapshots
    daily,     \* database: daily_pnl_snapshots
    moved,     \* database: the marker of the calendar move is set
    points,    \* database: portfolio_equity_points, the accounts each one sums
    pc,        \* where the process stands
    todo,      \* configured names that startup has not reached
    draft,     \* daily rows of the move, not committed
    capture,   \* the sample being taken
    cache,     \* curve_cache: the buckets of each cached curve
    request,   \* the clients
    traces,    \* history variable: accounts and days that were ever recorded
    legacy,    \* history variable: the daily rows of the earlier version
    settled,   \* history variable: buckets sampled before the current one began
    excused    \* history variable: names that failed or were deleted since startup

database == <<accounts, snaps, daily, moved, points>>
memory   == <<pc, todo, draft, capture, cache, request>>
vars     == <<now, database, memory, traces, legacy, settled, excused>>

Ids          == 1 .. Len(accounts)
Active       == {a \in Ids : accounts[a].active}
UtcDay(t)    == (t - Ahead) \div DayLength
ReportDay(t) == t \div DayLength
NoDraft      == [rows |-> {}, made |-> FALSE]
NoCapture    == [pc |-> "none", at |-> 0, late |-> {}, of |-> {}]
NoRequest    == [pc |-> "idle", key |-> 0, must |-> {}, curve |-> {}]

\* daily rows of the earlier version: one per UTC day, written by its last sync
LegacyRows(times) ==
    {[account |-> 1, day |-> UtcDay(t), of |-> t, updated |-> t] :
        t \in {u \in times : \A v \in times : UtcDay(v) = UtcDay(u) => v <= u}}

\* an account that an earlier version has synchronised since time 0, and may
\* have deleted
Init ==
    /\ now = History
    /\ \E name \in Enabled, active \in BOOLEAN :
        accounts = <<[name |-> name, active |-> active, since |-> 0]>>
    /\ \E times \in Recorded :
        /\ snaps = {[account |-> 1, at |-> t] : t \in times}
        /\ daily = LegacyRows(times)
    /\ moved = FALSE
    /\ points = << >>
    /\ pc = "down" /\ todo = {} /\ draft = NoDraft /\ capture = NoCapture
    /\ cache = << >>
    /\ request = [r \in Requests |-> NoRequest]
    /\ traces = {[account |-> s.account, day |-> ReportDay(s.at)] : s \in snaps}
    /\ legacy = daily
    /\ settled = {}
    /\ excused = {}

Tick ==
    /\ now < MaxTime
    /\ now' = now + 1
    /\ settled' = DOMAIN points
    /\ UNCHANGED <<database, memory, traces, legacy, excused>>

(***************************************************************************)
(* The latest balance of an account is written, recorded at the start of   *)
(* its writer. For a capture that has taken its time and has not read the  *)
(* balances that is late, unless the writer began before.                  *)
(***************************************************************************)
Balance(a) ==
    \/ /\ capture.pc # "asked"
       /\ UNCHANGED capture
    \/ /\ capture.pc = "asked"
       /\ capture' = [capture EXCEPT !.late = @ \cup {a}]
    \/ /\ capture.pc = "asked" /\ capture.at = now
       /\ capture' = [capture EXCEPT !.late = @ \ {a}]

(***************************************************************************)
(* Accounts. create_account writes the account, its latest balance, which  *)
(* every account has from then on, and a snapshot, but no daily row;       *)
(* delete_account only deactivates it.                                     *)
(***************************************************************************)
Create(name) ==
    LET a == Len(accounts) + 1 IN
    /\ Balance(a)
    /\ a <= MaxAccounts
    /\ \A b \in Active : accounts[b].name # name
    /\ accounts' = Append(accounts, [name |-> name, active |-> TRUE, since |-> now])
    /\ snaps' = snaps \cup {[account |-> a, at |-> now]}
    /\ traces' = traces \cup {[account |-> a, day |-> ReportDay(now)]}
    /\ UNCHANGED <<daily, moved, points>>

\* api.py: POST and DELETE /exchange-accounts
Add(name) ==
    /\ pc = "serving"
    /\ Create(name)
    /\ UNCHANGED <<now, pc, todo, draft, cache, request, legacy, settled, excused>>

Delete(a) ==
    /\ pc = "serving"
    /\ a \in Active
    /\ accounts' = [accounts EXCEPT ![a].active = FALSE]
    /\ excused' = excused \cup ({accounts[a].name} \cap Enabled)
    /\ UNCHANGED <<now, snaps, daily, moved, points, memory, traces, legacy, settled>>

\* sync_account, of the server or of a script beside it: _write_summary keeps the
\* first snapshot of a day, _write_daily_snapshot rewrites the day's row
Sync(a) ==
    LET today == ReportDay(now)
        taken == \E s \in snaps :
                    s.account = a /\ s.at >= History /\ ReportDay(s.at) = today
    IN /\ pc = "serving" \/ moved
       /\ a \in Active
       /\ Balance(a)
       /\ snaps' = IF taken THEN snaps ELSE snaps \cup {[account |-> a, at |-> now]}
       /\ daily' = {d \in daily : d.account # a \/ d.day # today} \cup
                   {[account |-> a, day |-> today, of |-> now, updated |-> now]}
       /\ traces' = traces \cup {[account |-> a, day |-> today]}
       /\ UNCHANGED <<now, accounts, moved, points, pc, todo, draft, cache, request,
                      legacy, settled, excused>>

(***************************************************************************)
(* Startup, in the order of lifespan.                                      *)
(***************************************************************************)
Start ==
    /\ pc = "down"
    /\ pc' = "provision"
    /\ todo' = Enabled
    /\ excused' = {}
    /\ UNCHANGED <<now, database, draft, capture, cache, request, traces, legacy, settled>>

\* mutant: a deleted account counts as existing
KnownName(name) == \E a \in Ids : accounts[a].name = name

Existing(name) == \E a \in Active : accounts[a].name = name

\* provision_configured_accounts: one item; its failure is its own
Provision(name) ==
    /\ pc = "provision"
    /\ name \in todo
    /\ todo' = todo \ {name}
    /\ \/ /\ Existing(name)
          /\ UNCHANGED <<database, capture, traces, excused>>
       \/ /\ ~Existing(name)
          /\ Create(name)
          /\ UNCHANGED excused
       \/ /\ ~Existing(name)
          /\ excused' = excused \cup {name}
          /\ UNCHANGED <<database, capture, traces>>
    /\ UNCHANGED <<now, pc, draft, cache, request, legacy, settled>>

\* mutant: every row is moved
MovedRowsAll ==
    {[account |-> d.account, day |-> ReportDay(d.updated), of |-> d.of, updated |-> now] :
        d \in daily}

\* of the rows that fall on one reporting day the one updated last is kept;
\* the new rows are stamped with the present time
MovedRows ==
    {[account |-> d.account, day |-> ReportDay(d.updated), of |-> d.of, updated |-> now] :
        d \in {e \in daily : \A f \in daily :
                  f.account = e.account /\ ReportDay(f.updated) = ReportDay(e.updated)
                      => f.updated <= e.updated}}

\* mutant: the marker is not read
MoveCalendarAgain ==
    /\ pc = "provision" /\ todo = {}
    /\ pc' = "backfill"
    /\ draft' = [rows |-> MovedRows, made |-> TRUE]
    /\ UNCHANGED <<now, database, todo, capture, cache, request, traces, legacy, settled, excused>>

\* rebuild_daily_pnl_reporting_calendar: flushed, not committed
MoveCalendar ==
    /\ pc = "provision" /\ todo = {}
    /\ pc' = "backfill"
    /\ draft' = IF moved THEN NoDraft ELSE [rows |-> MovedRows, made |-> TRUE]
    /\ UNCHANGED <<now, database, todo, capture, cache, request, traces, legacy, settled, excused>>

\* the active accounts that a bucket should sum, and those it can
Eligible(b) == {a \in Active : accounts[a].since <= b}

Covered(b) ==
    {a \in Eligible(b) : \E s \in snaps : s.account = a /\ s.at \in b - Lookback .. b}

\* mutant: the number of accounts is not compared with the expected one
AnyBuckets == {b \in 0 .. now : \E s \in snaps : s.account \in Active /\ s.at = b}

\* the buckets in which an active account has a snapshot and none is missing
WholeBuckets ==
    {b \in 0 .. now : /\ \E s \in snaps : s.account \in Active /\ s.at = b
                      /\ Covered(b) = Eligible(b)}

\* backfill_portfolio_equity_points: it overwrites what was captured
Backfilled ==
    [b \in DOMAIN points \cup WholeBuckets |->
        IF b \in WholeBuckets THEN Covered(b) ELSE points[b]]

\* its commit is also that of the calendar move
Backfill ==
    /\ pc = "backfill"
    /\ pc' = "capture"
    /\ points' = Backfilled
    /\ daily' = IF draft.made THEN draft.rows ELSE daily
    /\ moved' = (moved \/ draft.made)
    /\ draft' = NoDraft
    /\ cache' = << >>
    /\ UNCHANGED <<now, accounts, snaps, todo, capture, request, traces, legacy,
                   settled, excused>>

(***************************************************************************)
(* capture_portfolio_equity_point, the last step of startup that concerns  *)
(* us and then a job of the running server.                                *)
(***************************************************************************)
\* startup is over once its capture is
Afterwards == IF pc = "capture" THEN "serving" ELSE pc

\* captured_at, and then the query whether there are latest balances
StartCapture ==
    /\ pc \in {"capture", "serving"}
    /\ capture = NoCapture
    /\ capture' = [pc |-> "asked", at |-> now, late |-> {}, of |-> {}]
    /\ UNCHANGED <<now, database, pc, todo, draft, cache, request, traces, legacy, settled, excused>>

\* the active accounts whose balance is not later than captured_at; none, no point
ReadCapture ==
    LET of == Active \ capture.late IN
    /\ capture.pc = "asked"
    /\ \/ /\ of # {}
          /\ capture' = [capture EXCEPT !.pc = "read", !.of = of, !.late = @ \cap Active]
          /\ UNCHANGED pc
       \/ /\ of = {}
          /\ capture' = NoCapture
          /\ pc' = Afterwards
    /\ UNCHANGED <<now, database, todo, draft, cache, request, traces, legacy, settled, excused>>

Sampled(b, of) ==
    [c \in DOMAIN points \cup {b} |-> IF c = b THEN of ELSE points[c]]

\* the upsert, the commit, and after it the cache is cleared
CommitCapture ==
    /\ capture.pc = "read"
    /\ points' = Sampled(capture.at, capture.of)
    /\ capture' = NoCapture
    /\ cache' = << >>
    /\ pc' = Afterwards
    /\ UNCHANGED <<now, accounts, snaps, daily, moved, todo, draft, request,
                   traces, legacy, settled, excused>>

\* scheduled_equity_capture: a failure is logged
FailCapture ==
    /\ pc = "serving"
    /\ capture # NoCapture
    /\ capture' = NoCapture
    /\ UNCHANGED <<now, database, pc, todo, draft, cache, request, traces, legacy, settled, excused>>

(***************************************************************************)
(* Jobs and requests of the running server.                                *)
(***************************************************************************)
\* backfill_portfolio_equity.py: another process, which clears no cache here
ScriptBackfill ==
    /\ moved
    /\ points' = Backfilled
    /\ UNCHANGED <<now, accounts, snaps, daily, moved, memory, traces, legacy,
                   settled, excused>>

\* mutant: age alone decides
Old == {s \in snaps : s.at < now - Keep}

\* snapshots that are old and whose day has a daily row
Expired ==
    {s \in snaps : /\ s.at < now - Keep
                   /\ \E d \in daily : d.account = s.account /\ d.day = ReportDay(s.at)}

\* scheduled_retention
Retention ==
    /\ pc = "serving"
    /\ snaps' = snaps \ Expired
    /\ UNCHANGED <<now, accounts, daily, moved, points, memory, traces, legacy,
                   settled, excused>>

\* mutant: one curve for all times
OneKey(t) == 0

\* the cache is kept by range and five-minute bucket
CacheKey(t) == t

\* get_equity_curve: the cache is asked without an await
Ask(r) ==
    LET key == CacheKey(now)
        hit == key \in DOMAIN cache IN
    /\ pc = "serving"
    /\ request[r].pc \in {"idle", "served"}
    /\ request' = [request EXCEPT ![r] =
           [pc |-> IF hit THEN "served" ELSE "asked", key |-> key, must |-> settled,
            curve |-> IF hit THEN cache[key] ELSE {}]]
    /\ UNCHANGED <<now, database, pc, todo, draft, capture, cache, traces, legacy, settled, excused>>

Query(r) ==
    /\ request[r].pc = "asked"
    /\ request' = [request EXCEPT ![r].pc = "read", ![r].curve = DOMAIN points]
    /\ UNCHANGED <<now, database, pc, todo, draft, capture, cache, traces, legacy, settled, excused>>

\* the answer enters the cache even if the cache was cleared meanwhile
Serve(r) ==
    /\ request[r].pc = "read"
    /\ cache' = [k \in DOMAIN cache \cup {request[r].key} |->
                    IF k = request[r].key THEN request[r].curve ELSE cache[k]]
    /\ request' = [request EXCEPT ![r].pc = "served"]
    /\ UNCHANGED <<now, database, pc, todo, draft, capture, traces, legacy, settled, excused>>

\* an entry lives for equity_curve_cache_seconds
ExpireEntry(k) ==
    /\ k \in DOMAIN cache
    /\ cache' = [j \in DOMAIN cache \ {k} |-> cache[j]]
    /\ UNCHANGED <<now, database, pc, todo, draft, capture, request, traces, legacy, settled, excused>>

\* the process ends; what was not committed is lost
Crash ==
    /\ pc # "down"
    /\ pc' = "down" /\ todo' = {} /\ draft' = NoDraft /\ capture' = NoCapture
    /\ cache' = << >>
    /\ request' = [r \in Requests |-> NoRequest]
    /\ UNCHANGED <<now, database, traces, legacy, settled, excused>>

Next ==
    \/ Tick
    \/ Start
    \/ \E name \in Names : Provision(name) \/ Add(name)
    \/ MoveCalendar
    \/ Backfill
    \/ \E a \in Ids : Sync(a) \/ Delete(a)
    \/ StartCapture
    \/ ReadCapture
    \/ CommitCapture
    \/ FailCapture
    \/ ScriptBackfill
    \/ Retention
    \/ \E r \in Requests : Ask(r) \/ Query(r) \/ Serve(r)
    \/ \E k \in DOMAIN cache : ExpireEntry(k)
    \/ Crash

Spec == Init /\ [][Next]_vars

-----------------------------------------------------------------------------
(***************************************************************************)
(* Properties.                                                             *)
(***************************************************************************)
\* Types; one active account per name (uq_active_connection), one daily row per
\* account and day (uq_daily_pnl).
TypeOK ==
    /\ now \in History .. MaxTime
    /\ accounts \in Seq([name : Names, active : BOOLEAN, since : 0 .. MaxTime])
    /\ snaps \subseteq [account : Ids, at : 0 .. now]
    /\ \A d \in daily : d.account \in Ids /\ d.of <= d.updated /\ d.updated <= now
    /\ moved \in BOOLEAN
    /\ \A b \in DOMAIN points : b \in 0 .. now /\ points[b] \subseteq Ids
    /\ pc \in {"down", "provision", "backfill", "capture", "serving"}
    /\ \A a, b \in Active : accounts[a].name = accounts[b].name => a = b
    /\ \A d, e \in daily : d.account = e.account /\ d.day = e.day => d = e

\* Whatever day an account was recorded on keeps a trace, a snapshot or the
\* day's row, through the calendar move, retention, deletion and restarts
\* (apply_data_retention, rebuild_daily_pnl_reporting_calendar).
TracesStay ==
    \A t \in traces :
        \/ \E s \in snaps : s.account = t.account /\ ReportDay(s.at) = t.day
        \/ \E d \in daily : d.account = t.account /\ d.day = t.day

\* Once the calendar is moved, each daily row of the earlier version lives on
\* under its reporting day, or a later one of that day does; a restart does not
\* move the rows again (rebuild_daily_pnl_reporting_calendar, its marker and the
\* commit both share).
DaysMovedOnce ==
    moved => \A l \in legacy : \E d \in daily :
        d.account = l.account /\ d.day = ReportDay(l.updated) /\ d.of >= l.of

\* A point that is written again, by a backfill at startup or from a script or
\* by a capture, does not lose an account that is still active and was when the
\* bucket began; except that a capture loses an account synchronised after it had
\* taken its time and before it read the balances
\* (backfill_portfolio_equity_points, capture_portfolio_equity_point).
Overtaken(a, b) ==
    capture.pc = "read" /\ capture' = NoCapture /\ capture.at = b /\ a \in capture.late
PointsKeepAccounts ==
    [][\A b \in DOMAIN points :
           /\ b \in DOMAIN points'
           /\ \A a \in points[b] \cap Active :
                  accounts[a].since < b => a \in points'[b] \/ Overtaken(a, b)]_vars

\* A curve that is served has every bucket that was sampled before the bucket of
\* its request began, although a slow request may fill the cache after the
\* capture cleared it (get_equity_curve, curve_cache).
CurveHasEarlierBuckets ==
    \A r \in Requests : request[r].pc = "served" => request[r].must \subseteq request[r].curve

\* A running server has an active account under every enabled name, except those
\* that failed at its startup or were deleted since: a name whose account was
\* deleted before is created again (provision_configured_accounts).
Provisioned ==
    pc = "serving" => \A name \in Enabled : 
        name \in excused \/ \E a \in Active : accounts[a].name = name
=============================================================================
