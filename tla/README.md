# A formal model of AggregatedAccounts

AggregatedAccounts mirrors the balances, positions, closed positions and
account histories of exchange accounts (Binance, OKX, Bitget, Bybit, Hyperliquid,
Polymarket) into PostgreSQL and serves dashboards from that mirror. This
directory holds TLA+ modules that model its backend, the TLC configurations that
check them on small instances, and TLAPS proofs of what matters most for
instances of every size. Paths below are relative to `src/`; `accounts.py` is
`backend/app/services/accounts.py`, and other services are named likewise.

## 1. The system

| Component | State it keeps | Operations | Hard behaviour | What makes it correct |
|---|---|---|---|---|
| Account synchronisation (`accounts.py`, `main.py`) | the `exchange_accounts` row with its JSON column of cursors and completeness; current positions, closed positions, histories, daily snapshots; one in-memory lock per account | `sync_account`, `scheduled_sync`, `delete_account`, `backfill_accounting_history.py` | sessions that loaded the row before they took the lock, adapter calls that answer at different moments, failing calls, crashes, other processes, late records | no record is lost behind a cursor; positions never go back; a disappearance leaves a trace; a deleted account stays as it is |
| Read models (`pnl_read_model.py`, `operational_read_models.py`, `accounting.py`) | payloads with `calculated_at`, daily totals | incremental and full rebuild, readers with an age limit | transactions open while another refresh reads, concurrent refreshes, rows that move to another day | totals agree with the facts, refreshes do not undo each other, nothing out of date is served |
| Account life cycle and provisioning (`accounts.py`, `configured_accounts.py`) | account, tracking period, credentials | create, delete, provision at startup | restarts, deleted accounts that are configured | one active account per configured name |
| Exchange adapters (`backend/app/adapters/`) | none | signed requests, windows, pages | page limits, pages read while the list moves, equal milliseconds, delayed records | a window is read completely or reported incomplete |
| Trade-cycle reconstruction (in the adapters) | none | fills to closed positions, fees and funding to cycles | flips, partial closes, fills of one millisecond | sizes and results add up |
| Closed-position identity and maintenance (`accounts.py` 598-763, `maintenance.py`, `scripts/`) | source identifiers of `closed_positions` | upsert, canonicalisation, cleanup | several identifiers of one cycle, cleanup beside a sync | one row per cycle, in any order of arrival |
| Equity curve (`equity_curve.py`) | five-minute samples, an in-memory cache | capture, backfill, read | a capture during a read that fills the cache, a backfill over captured samples | a served curve has the samples of earlier buckets; a sample never loses an account |
| Polymarket translation (`polymarket_translation.py`) | translation rows with attempts | capture of sources, worker | a source changed while its old text is translated | a ready translation is that of its source |
| Reporting calendar and retention (`reporting_calendar.py`, `maintenance.py`) | daily rows, a migration marker | one-time move to Shanghai days, deletion of old rows | a restart around the move | nothing is deleted that is not aggregated; rows are moved once |
| Analytics (`analytics.py`, `behavior_analytics.py`, `pnl.py`, `position_math.py`, ...) | none | statistics | zero sizes and prices | reference definitions |
| API and security (`api.py`, `security/`) | a session cookie | read handlers, refresh, delete | one session for several accounts | |
| Frontend (`frontend/`) | page state | rendering, auto-refresh | overlapping refreshes | |
| Operations scripts, gateway, migrations, demo | files | backup, deployment | | |

The components meet in the database. `scheduled_sync` opens a session per
account, calls `sync_account`, and then refreshes the read models in a session of
its own; the calibration, retention, translation and equity jobs run beside it in
the same event loop, request handlers call the same functions, and scripts do so
from other processes. All of them run at READ COMMITTED, so what orders them is
row locks, unique keys and the per-account lock only.

`PROJECT.json` lists each component with its status and each hazard at its line.

## 2. Modules

| Module | Models | Checked by |
|---|---|---|
| `AccountSync` | the synchronisation of one account | `stale_sessions`, `long_held`, `scripts`, `catch_up`; `AccountSync_proofs` |
| `MirrorLedger` | what the mirror of one account promises; implemented by `AccountSync` | `scripts`; `MirrorLedger_proofs`, `AccountSync_proofs` |
| `ReadModels` | the rebuildable read models beside committing writers | `read_models_rounds`, `read_models_moved`; `ReadModels_proofs` |
| `Translation` | capture and translation of Polymarket titles | `translation_worker`, `translation_race`; `Translation_proofs` |
| `ClosedPositions` | identities of closed positions: upsert, cleanup, rebuild | `closed_positions`; `ClosedPositions_proofs` |
| `FillCycles` | closed positions rebuilt from fills; repair scripts of Binance rows | `fill_cycles`; `FillCycles_proofs` |
| `HistoryPages` | paging of nine history endpoints, completeness of the bundles | `history_pages`; `HistoryPages_proofs` |
| `Server` | startup, restarts, provisioning, calendar move, retention, equity curve | `server_restarts`; `Server_proofs` |

Each `...MC` module gives a module's constants their values for TLC. How they fit
together: `AccountSync` takes an adapter's answer as the records of a window that
the exchange has published; `HistoryPages` checks how far paging delivers that
answer, and `FillCycles` how rows come about where the exchange reports fills only.
`AccountSync` stores a closed position under one identity; `ClosedPositions` opens
up that step, the upsert and the tools that run beside it. `Server` and `ReadModels`
take a synchronisation as one transaction, which `MirrorLedger` states and
`AccountSync` is shown to implement. Modules share no variables; a product of two of
them would only interleave what has been shown apart.

No module declares a RECURSIVE operator; the reconstructions are recursive functions
over the moments of the book.

## 3. AccountSync

**State.** `held`, `event`, `published` are the exchange: open positions, when a
record happened, and when the history endpoints began to return it.
`account` is the `exchange_accounts` row as far as synchronisation writes it:
`details` is the JSON column `data_completeness_details` (cursors, the status of
the history, the keys with a POSITION_DISAPPEARED issue), `status` and
`deletedAt`. `ledger` is every other row of the account. A worker is a database
session; `row` is the account object as that session loaded it, and `started`,
`due`, `prior`, `answer` are local variables of `sync_account`.

**Actions.** `Load` is the query that hands the account to `sync_account`;
`SkipLocked`, `NothingDue`, `NoPeriod` and `Begin` are its branches;
`ReceivePositions`, `ReceiveClosed`, `ReceiveHistory`, `HistoryFails` are the
answers `asyncio.gather` awaits, each at its own moment; `FetchReduced` is the
second request after a reduction; `Commit` is the whole write phase in one
transaction and `Fail` the exception path. `BackfillStart/Commit/End` are the
history backfill script, `DeleteAccount` is `delete_account`, `Crash` kills a
process with its locks and open transactions. The exchange moves in
`OpenPosition`, `ClosePosition`, `BookIncome` and `Publish`, at any time.

**How SQLAlchemy writes.** The unit of work updates only the columns whose value
differs from the one loaded, and a JSON column as a whole: `Flushed(loaded, new,
stored)`. This is why a session that loaded the row early can overwrite cursors
another one has advanced, and the properties hold in spite of it.

**Left out.** Amounts (balances, leverage, fees), equity and asset rows, the
coverage baseline, `SyncJob`/`SyncError` rows, `last_synced_at` and the single
`data_completeness` flag; the demo branch. `asOf` and `readAt` record when
positions were read and are compared, never used by an action. `ReceiveHistory`
reads with one window for all history streams, as the code does. The moment of
the balance answer is not modelled because nothing is compared with it.

**Properties.** `CursorCoversFacts`: no cursor passes a prompt record that is not
stored. `PositionsNeverGoBack`, `NoSilentDisappearance`, `HeldReductionsStored`,
`DeletedIsFrozen`, `PartialNeedsBackfill`, the refinement `ImplementsMirror`, and
the liveness property `EventuallyStored`. "Prompt" means returned by the exchange
within the five minutes a cursor is moved back; the code can promise nothing
about later ones unless the position is still held (`HeldReductionsStored`).

| Run | Instance | Shows |
|---|---|---|
| `stale_sessions` | two sessions of the server, one position, one closing record, 3 ticks, symmetric sessions | cursors, order, disappearances and deletion under every interleaving |
| `long_held` | one session, sizes up to 2, no overlap | a reduction published arbitrarily late is stored while the position is held |
| `scripts` | server session and backfill script, one income row | types; overwritten JSON never loses an income row; a sync alone never turns PARTIAL back to COMPLETE; every behaviour is one of `MirrorLedger` |
| `catch_up` | one income row, failing history calls, crashes; fair | it is stored in the end |

**Bounds.** `MaxTime` of 3 or 4 ticks: an overlap is 1 tick and an interval 1 or 2,
so a stream falls due, is read, falls due again, and a record can happen before
and be published after a cursor. One record and one position per run: records
are independent of each other, and what the properties compare is one record with
one cursor. Two sessions are what one stale row needs.
`CHECK_DEADLOCK` is off because a deleted account at the last tick with idle
sessions really has nothing left to do. No run sets `Polymarket`: its 72-hour
look-back is in the model and in the proof of `SpecTypeOK`, and what it is for, late
settlements, is the subject of `ClosedPositions`.

**Fairness.** Weak fairness of the clock and of each session's progress: the
interval job of APScheduler runs for as long as the process lives and asyncio
resumes every coroutine whose answer has arrived; requests have timeouts. Faults
stop at some point (`<>[][Calm]_vars`: every step is one without a fault), because with an exchange that fails
for ever nothing can be stored. `EventuallyStored` asks only for records published
early enough before the last tick for the stream to fall due once more.

**The refinement.** `MirrorLedger` knows records that happen, are listed by the exchange and
are stored by writers, and the set of those the mirror has passed, that is, will
not look for again. Its `Store` adds listed records, loses none, and passes only
what is stored; a writer begins while the account exists and takes effect once or
not at all. `AccountSync!Mirror` maps `stored` to the rows of `ledger`, `passed` to the
prompt records before a cursor (`Passed`) and `writing` to the sessions between `Begin` and
their end. Clock, lock, due streams and answers map to stutters. A session with a
stale row may move a cursor back, so `passed` may shrink.

**Proved.** `SpecTypeOK`; `SpecCursorCoversFacts`: on every exchange but Polymarket
`CursorCoversFacts` is an invariant for any number of sessions, scripts, processes
and records. `CursorCoversFacts` alone is not inductive, because a commit writes
cursors computed from a row loaded long ago and answers received some time ago.
`CoverInv` adds that nothing is published before it happened or in the future,
that the cursors of every loaded row are covered too (a record, once stored,
stays stored), and that an answer that was received contains every record
the cursor it will write is going to pass. `SpecDeletedIsFrozen` (from
`DeletionInv`), `SpecOneSyncPerAccount` and `SpecPositionsNeverGoBack` (from
`OrderInv`); the last two assume that all sessions share one process: the lock is a
dictionary in memory, and a script that calls `sync_account` has its own.
`SpecImplementsMirror`: on every exchange but Polymarket each initial state of
`AccountSync` maps to one of `MirrorLedger` and each step to a step or a stutter, by
`MirrorInv`, which is `CoverInv` with `AnswersListed` (an answer holds listed records only).
`SpecFaithful`, of `MirrorLedger` alone: what is passed is stored, what is stored was
listed.

`SpecPartialNeedsBackfill` needs no more than the types: a commit writes another
status over PARTIAL only if its session had loaded the row before it became
PARTIAL, or is the backfill's. `SpecNoSilentDisappearance`
compares two commits. It rests on `PriorInv`: within one process the lock
orders a session's query for the positions after the commit of the session before it, so
`prior`, which decides what has disappeared, is what is still stored when the
session commits. `SpecHeldReductionsStored`: on the exchanges other than
Polymarket and in one process, a reduction of a position that is shown as held is
stored however late the exchange lists it. `HeldInv` has two arguments in one: a
window that begins at the open time contains every reduction of that position
(`HeldBefore`), and a position the mirror does not show yet was opened after the shown
ones were read (`Continues`), so its reductions lie behind a cursor only if that
cursor runs further ahead of the positions than the overlap. That it does not is
`PositionsOften`: positions fall due after 15 seconds, the overlap is 300
(`config.py`). Without it the property is false: TLC finds a violation of `long_held`
with an interval of two and no overlap.

Only model-checked: `EventuallyStored`, which as liveness under fairness is beyond
TLAPS.

## 4. ReadModels

**State.** `facts` are the committed rows of the four fact tables, `write` what a
transaction has flushed but not committed, `model` the operational payloads with
their `calculatedAt` (five scopes, always stored together), `summaries` the daily
totals, each as the set of row versions it adds up. A version is a row with its
`updated_at`, which `TimestampMixin` takes from the process's clock at the flush.
The job variables are the local variables of a refresh.

**Actions.** `Flush`, `CommitWrite` and `Rollback` are the transactions of
`sync_account` and of scripts; a row can be new, updated, moved to another day or
deleted. `Begin` loads the PnL row; `Lock` flushes the PnL payload, whose row
lock every other refresh then waits for, and takes `calculated_at`;
`ReadPayload`,
`ReadAffected`, `Rebuild` are the queries, each with a snapshot of its own as READ
COMMITTED gives it; `CommitRefresh` installs everything. A sync job refreshes only
after its own writers have finished, as `scheduled_sync` awaits `gather`; the
startup refresh precedes the scheduler. `overtaken` is a history variable.

**Left out.** The PnL payload itself and the behaviour scopes (the same rules, except
that their `calculated_at` is taken after the queries), the amounts, the
refresh inside `rebuild_binance_closed_positions.py`, which shares a transaction
with its own writes.

| Run | Instance | Shows |
|---|---|---|
| `read_models_rounds` | startup, round and calibration; a writer of the round and one of a script; one row, two days, 3 ticks; fair | `OnTimeRowsCounted`, `AnswersAreRecent`, `ModelsNeverGoBack` under every interleaving, failures and crashes; `TotalsConverge`: the calibration repairs everything once the writers pause |
| `read_models_moved` | violation | a row in the totals of two days |

**Bounds.** With three ticks a row can be stamped before a refresh takes its time,
be committed after it, and be looked for by the next one. One row and two days let the row appear, move, be deleted
and be written by either writer; rows do not interact except through the test
for an empty table, and the theorems hold for any number.

**Fairness.** Weak fairness of each job's work: jobs are rescheduled, and queries
end. Strong fairness of `Lock`: PostgreSQL grants a row lock in the order of the
queue, so a refresh that is in the queue again and again gets it. Faults stop.

**Proved.** `SpecTypeOK`, `SpecModelsNeverGoBack`, `SpecOnTimeRowsCounted` and
`SpecAnswersAreRecent`. `LockInv` says that one refresh at a time is past `Lock`, that
`since` is still the committed `calculated_at` and that its own is not smaller.
`CountInv` strengthens `OnTimeRowsCounted` with what a refresh in the middle has
secured: after `ReadAffected` each row it answers for is in an affected day or
already counted; after `Rebuild` it is in the totals to be committed; and with no
committed model there are no totals, which makes the incremental branch without a
starting time harmless. `PayloadInv` is the same for payloads. Only
model-checked: `TotalsConverge`.

## 5. Translation

**State.** `rows` are the committed rows of `polymarket_translations`, `lock` the
transaction that has locked a row or inserted its key; `sync` and `worker` are the
local variables of `capture_polymarket_translation_sources` inside `sync_account`
and of `process_pending_polymarket_translations`. A translation is named by the
text it translates. `overtaken` is a history variable: the last capture of a row
wrote over a row that had changed since it read it.

**Actions.** `ReadRows` is the capture's query, which takes no lock, together with an
answer of any text that the account may be shown and the loop that keeps what is new
or changed; `WriteRow` is the flush, which waits for a locked row; `CommitSync`,
`FailSync` and `DuplicateKey` (two accounts insert one asset) end the synchronisation.
`Take` is `SELECT ... ORDER BY created_at LIMIT n FOR UPDATE SKIP LOCKED`, `Translate`
one answer of the service, `CommitBatch` the one commit of the batch, `FailBatch` its
loss. `CreatedAt` is a constant because a row gets its `created_at` once and is never
deleted; rows of the same moment may come in either order.

**Left out.** The language and provider columns, the error text, the HTTP request.

| Run | Instance | Shows |
|---|---|---|
| `translation_worker` | two outcomes of different age, a worker whose batch holds one row, two syncs (one account is shown both outcomes, the younger with two texts; the other the older one under another title), two attempts, 2 ticks; fair | `PendingHasAllAttempts`, `ShownIsOfItsSource`, `NotTranslatedAgain`; every captured text is tried (`NewSourceIsTried`) |
| `translation_race` | violation: one outcome, two syncs that are shown both texts, without the exemption of an overtaken capture | READY with the translation of the old text, for good |

**Bounds.** With two rows and a batch of one every run of the job chooses: an older row
whose translations fail and are retried, or whose text is edited, competes with a
younger one. Two attempts allow a failure, a retry and the limit. The clock ticks are
the pauses between retries.

**Fairness.** Weak fairness of each capture (a coroutine is resumed) and of the worker.
For each row, the job finds it free again and again (`RunFinds`), and runs then: a
capture may lock a row again and again but not at every minute the job runs. Nothing is
assumed of the rows such a run chooses. Faults stop.

**Starvation.** `NewSourceIsTried` holds for a row unless the texts of rows as old or
older are edited for ever; the premise is needed, because an edit resets the attempts
and puts the older row first again (TLC finds that loop when it is dropped). Failures
do not starve anybody: their attempts are limited. Younger rows do not either, however
often they change.

**Proved.** `SpecTypeOK`, `SpecPendingHasAllAttempts`, `SpecShownIsOfItsSource`.
The invariant `IInv` adds what a session knows of rows it loaded earlier: they still
exist, were consistent then and differ from its answer (`SyncInv`); a batch is consistent and its remaining
rows have an attempt left (`WorkerInv`). A partial UPDATE keeps "pending exactly
when no attempt is used" because loaded and stored row both have it, so the
capture writes both columns or neither. `SpecNotTranslatedAgain` rests on `LockInv`: a
capture keeps locked what it has written, a worker what it translates, and nothing that is being
translated is READY; only the `SKIP LOCKED` of `Take` and the row lock of the flush
keep it so. Only model-checked: `NewSourceIsTried`.

## 6. ClosedPositions

**State.** `rows` is `closed_positions` of one account by primary key, each row as its
cycle, its `source_record_id` and its `close_time`. A cycle is one position from opening
to end; the exchange answers with the cumulative state of its latest reduction
(`closedAt`); on Polymarket a window reaches back by `Lookback`. A `source_record_id` is a base (posId, positionId, outcome token) and a
form: plain, with the time of a reduction (`stage`, written by earlier versions), or with
the opening time (`cycle`). `daily` is what each day's `realized_pnl` adds up.
`answer` and `seen` are what a session's adapter call returned and its query loaded.
`passed` and `overtaken` are history variables: the sessions that began before a sync
which has committed since, and the days whose total such a session has written.

**Actions.** `Fetch`, `LoadRows`, `CommitSync` are `get_closed_positions`, the query and the
rest of `_upsert_closed_positions`, with the repair of daily totals on Polymarket. A
`Tool` may take them too on Polymarket: `backfill_polymarket_translations.py` calls
`sync_account` in a process of its own, where the server's lock does not reach.
`StartCleanup`/`CommitCleanup` are the three `cleanup_..._closed_positions`, `CommitRebuild` is
`rebuild_okx_closed_position_cycles`, whose upsert sees the rows its first query loaded
(`SessionView`). A unique key violated, or a row to update that is gone, rolls the
transaction back: such a commit is not enabled and `GiveUp` ends the session.

**Run.** `closed_positions`: two cycles that share a posId on OKX, three primary keys,
rows of earlier versions in every combination, one synchronisation of the server and one
session of a script, two days of two ticks, a look-back of one. The server has one because
of its lock, the scripts one because they are started by hand, one at a time;
`Init` assumes that no two earlier rows of one cycle have the same `close_time`, and that a
primary key is left, since a sequence does not run out.
It shows that a cycle never gets a second row (`NoNewDuplicate`), that a stored one
never disappears between two sessions that each delete the duplicate the other
keeps (`NoCycleLost`), and `LateSettlementsReachTheirDay`. Two exemptions say what the code
does not keep. `MergesCycles`: the OKX cleanup groups by posId alone and merges cycles of a
reused posId. `overtaken`: a balance sync adds up today's total until its own start, so one
that commits after a sync which started later leaves out what closed in between; the total
is whole again with the next commit that writes the day.
Primary keys are symmetric: no action prefers one.

**Proved.** `SpecTypeOK` and `SpecNoNewDuplicate` for any number of sessions, tools,
cycles and keys. `TableInv` says that stored identifiers are unique and name their own
cycle, and that the table has only moved forward since a session loaded it: no key is
reused and no row changes its cycle. `FreshInv` adds what makes a second row impossible:
rows inserted since a session loaded stand under the identity the session
itself would insert (`FreshOwn`), so the unique key refuses it.
`SpecLateSettlements`, for any number of synchronisations and tools, rests on `LateInv`: a
session under way that nobody has passed started no earlier than anything stored closed, so a total
it writes with the balance counts every row of the day, and every other commit repairs the days it touches.
`SpecNoCycleLost` assumes `OneTool`. `KeepInv` is about pairs of rows: as long as a cycle has two rows, no
commit has touched what decides which one is kept (`TwinsAlike`), so every session that
saw both chose alike (`Kept`). The assumption stands for the way the maintenance scripts are used,
as commands run by hand, and cannot be dropped: TLC finds that two
Polymarket cleanups that see different rows can each delete the one the other keeps.

## 7. FillCycles

**State.** `book` is the exchange's fills of one symbol, each with its order, its trade and the
position before it; an order may be filled in several pieces and a session may read between
them. `_aggregate_order_fills` groups by order and fee asset: such a group is what the model
calls a trade, and an order whose fills pay in two assets has two. `stored` are the rows, named by a fill; `cursor` and all moments are counted in fills.

**Actions.** `Read` is one adapter call: for Binance `_aggregate_order_fills` (`OrderRows`) and the
one-way or hedge reconstruction run over it (`Replay`), for Hyperliquid `_closed_cycles_from_fills`
run over the fills of the window. A window is not extended to the opening of a held
position (accounts.py:460-463), because neither adapter reports an `open_time` of positions.
`CommitSync` is the upsert, `CommitRebuild` and
`CommitCleanup` are `rebuild_binance_closed_positions.py` and
`cleanup_binance_fill_fragments`; all match rows by identity.

**Run.** `fill_cycles`: up to four fills, long positions up to 2, short ones up to 1, an overlap of two
fills, orders of any fee assets, and, in hedge mode and on Hyperliquid, an initial position of
at most 1 before the first fill. Four fills let a position
open, grow, reverse and close, with an order around a read. It shows against a
reference definition that reads the book fill by fill (`CycleOf`, `Closed`, `Peak`):
`RowsAreCycles`, `ClosesAreStored`, `OneRowPerOrder`, `CleanupMerges` and `CompleteRowsStay`. Two
assumptions are written into them because the code has no input that would tell
otherwise: on Binance the history begins flat and trades are not filled around
each other (`Reconstructible`; an order that pays in BNB, in USDT and in BNB again is filled
around itself), and a Hyperliquid row of a window that begins after the
cycle's opening fill may replace a complete one (the code calls it PARTIAL). A reversal
paid in two assets names the row by the last fill of the trade that closes, and
`OneRowPerOrder` allows an order a row for each fee asset besides those of a read in its middle.
Hyperliquid is modelled with fees in USDC; another token makes a row PARTIAL. Prices, and which fees and funding belong to a cycle, are left out.

**Proved.** All six properties, for any number of fills, positions of any size and any
overlap. What a reconstruction computes for every book is proved by induction over moments:
TLAPS cannot instantiate the library's induction theorems, which take a predicate, so
`Induction` states it for a set and follows from strict inclusion being well founded
on the subsets of an interval. From it come the sums (`SumToIs`) and that `Replay` is a run
of its steps (`ReplayIsRun`).

- *The book* (`BookInv`): fills of a key follow each other, those of an order go one way and
  those of a trade are of one order.
- *Rows* (`RowsInv`): a row is named by a fill that closes its side, and a later fill of the
  same trade came after a session had read the row's fill. With `BookInv` this is `IInv`, which
  gives `SpecTypeOK`, `SpecOneRowPerOrder` and `SpecCleanupMerges`.
- *What really happened* is a history of a key (`IsHistory`): its position and what
  had been taken from it, moment by moment. `EndsIs`, `PeakIs` and `ClosedIs` show that
  the reference definitions, which read the book, say the same. A step of any of the
  reconstructions `Moved` the cycle as the history moved, so that the cycle under way and the rows stay
  exact (`MovedExact`).
- *Hyperliquid* joins a cycle in its middle: the invariant of the run is the cycle `Joined`
  with the position a fill reports, and `complete` says whether the fill that opened it is in the window.
- *Binance* takes a trade as one fill at its last one, so between two fills of a trade the
  run is behind the history. `Replayed` relates it to the state it would have reached had it
  seen the filled part (`Open`); `Between` shows that one step over both parts does what two
  would, `BinanceExact` is the induction. `Reconstructible` is used where a trade would be
  filled around another.
- *The database* (`TrueInv`): answers and complete Hyperliquid rows are true, the window of a
  synchronisation under way begins at or before the cursor, and nothing that closed before the
  cursor is missing. A row's side follows from the fill that names it (`CloseSide`), so a row
  may be replaced by one of the same fill, or removed by the cleanup in favour of one of the
  same order. This gives `SpecRowsAreCycles`, `SpecClosesAreStored` and `SpecCompleteRowsStay`.

## 8. HistoryPages

**State.** One adapter call on one endpoint: the records the exchange returns (`visible`) with time
and content (an amount of a known or unknown type, a fee, the asset, and whether the
contract is a USDC one), the window `from`..`to`, the part of it (`slice`) that Bybit and Binance's
trades are asked for, the cursor of the next page, the rows collected. `Publish` and
`Change` move the exchange between two pages: a late record appears, a cumulative
one (OKX position, Polymarket position) gets a later time.

**Actions.** One per loop: `BinanceIncome` (page numbers), `BinanceTrades` (time, then trade number,
cut at the end of the part), `OkxBills`, `BitgetBills`, `BybitLog` (a cursor that is a
number), `OkxPositions` (a cursor that is a time), `HyperliquidFills` (the next
millisecond), `HyperliquidBundle` (one request), `PolymarketClosed` (offsets into a
list that moves). `OfProduct` is the `productType` of Bitget's bills: USDT-FUTURES, and nobody
asks for USDC-FUTURES, which the adapter reads elsewhere. `Fail` drops what was read, as an exception in `_get` does. The
operators after `Spec` are `get_history_bundle`: what is booked of a record, and whether
the bundle is still complete.

**Run.** `history_pages`: all nine, five records, pages of two, two pages a part, parts of two
ticks, four ticks, at most two late records. Five records are more than the pages
of a call hold, and a full page may end within a tick. `NoHoles`: what was there
when the call began and stayed in its window is returned, or lies behind the last
page of a part whose pages ran out, never in between. `CompleteMeansBooked`: a bundle
that calls itself complete and whose pages did not run out has booked every amount and fee.
What the code gives up, while `complete` stays TRUE, is written into them as exemptions:

- the page limits, and with them the 30-day slices that
  `docs/exchange-integration-lessons.md:224-228` asks for at Bitget and the loop does not make;
- the rest of a millisecond at a page boundary where the cursor is a time, and Bybit's last
  millisecond, which is left to the next call's overlap;
- an unknown amount beside a fee at OKX and Bitget;
- the two legs of a conversion between stablecoins at OKX (bill subtypes 318 and 319), which
  are recognised and of which only a fee is booked;
- the bills of Bitget's USDC contracts;
- entries of Hyperliquid's ledger without a known name for their amount.

**Proved.** `SpecTypeOK`, `SpecNoHoles` and `SpecCompleteMeansBooked`, for any number of
records, page length, page limit and part length, on all nine endpoints. `NoHoles` speaks of a call
that has ended; `PagesInv` says what is true between two pages: a record of the window not
returned yet is ahead of the cursor (`Ahead`, one line per kind of cursor) and behind
all that was read of its part, or its part's pages ran out, or it shares its
millisecond with a row that was read. `WindowInv` adds that parts follow each other
without a gap and that Binance's trade cursor stands inside its part. Each endpoint has one lemma,
that its page is a `GoodPage`: a record ahead of the old cursor is on the page or ahead of the new one and
the loop goes on. Where a cursor is a page number or an offset, the position of a record in
a list that only grows can only move one way, which is a fact of cardinalities (`FirstGrows`)
derived from the well-foundedness of strict inclusion. `CompleteMeansBooked` follows from `NoHoles`
and from what is booked of a record of the product asked for.

## 9. Server

**State.** Accounts in the order of creation, their balance snapshots, daily rows, the marker of
the calendar move, the points of the equity curve (each as the accounts it sums), and of
the process where it stands, a capture under way, the cached curves and the
requests. Time is counted in five-minute buckets. `Init` is a database an earlier
version has left, with daily rows under UTC days.

**Actions.** In the order of `lifespan`: `Start`, `Provision` (each configured name by itself),
`MoveCalendar` (flushed), `Backfill` (whose commit is also that of the move),
and the capture, which is then also a job; then `Sync`, `Add`, `Delete`, `Retention`,
`ScriptBackfill` from another process, `Ask`/`Query`/`Serve` of a reader, `ExpireEntry` of
the cache, and `Crash` anywhere. A capture takes its time and asks whether there are balances (`StartCapture`), later reads
the balances that were recorded by then (`ReadCapture`), and commits (`CommitCapture`); an
account that synchronises in between, in the server or from a script (`Sync` needs no running
server), is `late` and drops out of the point (`Balance`). A synchronisation is one step: what it
consists of is the subject of `AccountSync`. `ExpireEntry` may happen at any time, which
covers every lifetime of an entry.

**Run.** `server_restarts`: one configured name and one that is added by request, an account of an
earlier version, days of two buckets, restarts at any moment of two buckets, one
reader. Two buckets have a day boundary between them, a snapshot that
becomes old, and a point that a later backfill writes again; the earlier version's
recordings (in buckets 0 and 1, or 1 and 2) let two UTC days fall on one reporting day. Deadlock
is checked. `PointsKeepAccounts` exempts the `Overtaken` account: a point that is written
again loses an account that synchronised between `captured_at` and the query, and TLC finds
it when the exemption is dropped.

**Proved.** `SpecTypeOK` (with one active account per name and one daily row per account and day),
`SpecTracesStay`, `SpecPointsKeepAccounts`, `SpecCurveHasEarlierBuckets`, `SpecProvisioned`, for any
accounts, days and moments of recording. `TraceInv` adds that until the
calendar is moved every trace has its snapshot, since retention and new daily rows come
only after the commit the move shares; `CaptureInv` that a capture under way sums every
active account older than its bucket that is not late; `CurveInv` that a cached or half-read curve
of the present bucket holds all that was settled before it, while no request asks for
an earlier bucket's again; `ProvisionInv` that a name startup has passed is provided,
and stays so. `SpecDaysMovedOnce`: every row of the earlier version lives on in one of its reporting day that is no
older. `MoveInv` carries it through the flushed, uncommitted move (`draft`) and its loss in a
crash; that a day with rows has a latest one is a descent argument over finite sets
(`Least`).

## 10. What the code disagrees about with its documents

Each violation run checks one sentence of the repository's documents and fails;
`PROJECT.json` quotes the sentence under "findings". `read_models_moved`: the changed
days of a round do not include the day a record has moved away from.
`translation_race`: the translation cached under an outcome token may be that of
the text it had before.

## 11. Only model-checked

Liveness (`EventuallyStored`, `TotalsConverge`, `NewSourceIsTried`), because TLAPS does
not reason about fairness, and the two violations. Every safety and action property of a
passing run is the property of a theorem, some under an assumption that the sections
above name: one process in `AccountSync`, one tool for `SpecNoCycleLost`, an exchange other
than Polymarket.

## 12. Not modelled

Analytics (statistics, risk levels, position arithmetic: formulas without state),
signing, rate limits and field parsing of the adapters, balances and amounts,
encryption and the session cookie, the frontend, the demo data, migrations, shell scripts and the gateway.
`POST /sync/refresh` serves every account from one session; `AccountSync` has one
account, so what a failed sync does to the objects of the others is not covered.
Two maintenance scripts at a time are not covered either.

## 13. Running

    tlc -config AccountSync_stale_sessions.cfg AccountSyncMC
    tlc -config AccountSync_long_held.cfg AccountSyncMC
    tlc -config AccountSync_scripts.cfg AccountSyncMC
    tlc -config AccountSync_catch_up.cfg AccountSyncMC
    tlc -config ReadModels_rounds.cfg ReadModelsMC
    tlc -config ReadModels_moved.cfg ReadModelsMC            (violation)
    tlc -config Translation_worker.cfg TranslationMC
    tlc -config Translation_race.cfg TranslationMC           (violation)
    tlc -config ClosedPositions_merge.cfg ClosedPositionsMC
    tlc -config FillCycles_rebuild.cfg FillCyclesMC
    tlc -config HistoryPages_calls.cfg HistoryPagesMC
    tlc -config Server_restarts.cfg ServerMC
    tlapm <module>_proofs.tla

Every configuration finishes within about four minutes on two cores. The
definitions marked "mutant" in the modules are the plausible bugs that
`PROJECT.json` pairs with each property; nothing else uses them.
