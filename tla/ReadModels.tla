----------------------------- MODULE ReadModels -----------------------------
(***************************************************************************)
(* The rebuildable read models (services/pnl_read_model.py and             *)
(* services/operational_read_models.py): payloads and daily summaries that *)
(* several jobs rebuild from the fact tables while transactions that write *)
(* facts commit around them, in PostgreSQL at READ COMMITTED.              *)
(*                                                                         *)
(* A fact row is known by its version: the row and its updated_at, which   *)
(* the writing process takes from its own clock when it flushes the row,   *)
(* before the transaction commits. A total is the set of versions it adds  *)
(* up. 0 stands for None; the clock starts at 1.                           *)
(***************************************************************************)
EXTENDS Integers, FiniteSets

CONSTANTS
    Rows,        \* rows of closed_positions and of the three record tables
    Days,        \* (account, Shanghai day) pairs
    NoDay,       \* the day of a row that does not exist
    Writers,     \* transactions that write a row
    Jobs,        \* sessions that refresh the read models
    Kind,        \* what a job is
    JobOf,       \* the job whose syncs a writer belongs to
    Script,      \* JobOf of a writer in a process of its own
    MaxTime,     \* bound on the clock
    MaxAge       \* max(settings.sync_health_seconds * 2, 120)

Time     == 0 .. MaxTime
Versions == Rows \X Time
\* lifespan; scheduled_sync and POST /sync/refresh; scheduled_pnl_calibration
\* and scheduled_retention
Kinds == {"startup", "sync", "calibration"}

ASSUME ReadModelsConstants ==
    /\ MaxTime \in Nat \ {0}
    /\ MaxAge \in Nat
    /\ NoDay \notin Days
    /\ Script \notin Jobs
    /\ Kind \in [Jobs -> Kinds]
    /\ JobOf \in [Writers -> Jobs \cup {Script}]

VARIABLES
    now,        \* the clock
    serving,    \* the lifespan of the server has begun to yield
    facts,      \* committed fact rows
    overtaken,  \* history variable, see CommitWrite
    write,      \* what a writer has flushed and not committed
    model,      \* the rows of operational_read_models
    summaries,  \* accounting_daily_summaries
    pc,         \* where a refresh stands
    calc,       \* calculated_at of the refresh
    since,      \* previous_calculated_at
    payload,    \* the payloads of the refresh
    affected,   \* the days it deletes and sums up again
    totals      \* accounting_daily_summaries as its transaction sees them

dbVars  == <<facts, overtaken, model, summaries>>
jobVars == <<pc, calc, since, payload, affected, totals>>
vars    == <<now, serving, write, dbVars, jobVars>>

NoWrite == [row |-> NoDay, day |-> NoDay, updatedAt |-> 0]
Empty   == [d \in Days |-> {}]

Init ==
    /\ now = 1
    /\ serving = FALSE
    /\ facts = [r \in Rows |-> [day |-> NoDay, updatedAt |-> 0, committedAt |-> 0]]
    /\ overtaken = {}
    /\ write = [w \in Writers |-> NoWrite]
    /\ model = [calculatedAt |-> 0, payload |-> {}]
    /\ summaries = Empty
    /\ pc = [j \in Jobs |-> "idle"]
    /\ calc = [j \in Jobs |-> 0]
    /\ since = [j \in Jobs |-> 0]
    /\ payload = [j \in Jobs |-> {}]
    /\ affected = [j \in Jobs |-> {}]
    /\ totals = [j \in Jobs |-> Empty]

Stored     == {r \in Rows : facts[r].day # NoDay}
Version(r) == <<r, facts[r].updatedAt>>
\* what the GROUP BY queries return for a day
Sum(day) == {Version(r) : r \in {q \in Stored : facts[q].day = day}}

Tick ==
    /\ now < MaxTime
    /\ now' = now + 1
    /\ UNCHANGED <<serving, write, dbVars, jobVars>>

(***************************************************************************)
(* Transactions that write facts: sync_account and the scripts.            *)
(***************************************************************************)
Writing(w) == write[w] # NoWrite
Syncing(j) == \E w \in Writers : JobOf[w] = j /\ Writing(w)

\* a flush takes the row's lock; `day' = NoDay deletes the row, another day is
\* a new row or a record whose time the exchange has moved
Flush(w, r, day) ==
    /\ ~Writing(w)
    /\ JobOf[w] # Script => serving /\ pc[JobOf[w]] = "idle"
    /\ \A v \in Writers : Writing(v) => write[v].row # r
    /\ facts[r].updatedAt < now
    /\ facts[r].day # NoDay \/ day # NoDay
    /\ write' = [write EXCEPT ![w] = [row |-> r, day |-> day, updatedAt |-> now]]
    /\ UNCHANGED <<now, serving, dbVars, jobVars>>

\* a refresh that was calculated after a row's updated_at has already read which
\* days changed, or has committed, when the row is committed
Overtakes(updatedAt) ==
    \/ model.calculatedAt > updatedAt
    \/ \E j \in Jobs : pc[j] \in {"affected", "rebuilt"} /\ calc[j] > updatedAt

CommitWrite(w) ==
    LET r == write[w].row IN
    /\ Writing(w)
    /\ facts' = [facts EXCEPT ![r] =
                   [day |-> write[w].day, updatedAt |-> write[w].updatedAt,
                    committedAt |-> now]]
    /\ overtaken' = IF Overtakes(write[w].updatedAt) THEN overtaken \cup {r}
                    ELSE overtaken \ {r}
    /\ write' = [write EXCEPT ![w] = NoWrite]
    /\ UNCHANGED <<now, serving, model, summaries, jobVars>>

Rollback(w) ==
    /\ Writing(w)
    /\ write' = [write EXCEPT ![w] = NoWrite]
    /\ UNCHANGED <<now, serving, dbVars, jobVars>>

(***************************************************************************)
(* A refresh: refresh_pnl_read_model and refresh_operational_read_models   *)
(* in one transaction.                                                     *)
(***************************************************************************)
\* mutant: the calibration forgets full_accounting
NeverFull(j) == FALSE

Full(j) == Kind[j] = "calibration"

\* a startup refresh runs before the scheduler starts; a sync refreshes after
\* its accounts; the row of pnl_analytics_summaries is loaded, which the first
\* startup inserts before any other refresh can begin
Begin(j) ==
    /\ pc[j] = "idle"
    /\ serving = (Kind[j] # "startup")
    /\ ~Syncing(j)
    /\ pc' = [pc EXCEPT ![j] = "pnl"]
    /\ UNCHANGED <<now, serving, write, dbVars, calc, since, payload, affected, totals>>

\* mutant: the PnL row is written after the operational refresh
NotYetHolding == {}

\* its UPDATE or INSERT holds the row's lock until the end of the transaction
Holding == {j \in Jobs : pc[j] \in {"locked", "read", "affected", "rebuilt"}}

Reset(j) ==
    /\ pc' = [pc EXCEPT ![j] = "idle"]
    /\ calc' = [calc EXCEPT ![j] = 0]
    /\ since' = [since EXCEPT ![j] = 0]
    /\ payload' = [payload EXCEPT ![j] = {}]
    /\ affected' = [affected EXCEPT ![j] = {}]
    /\ totals' = [totals EXCEPT ![j] = Empty]

\* the PnL payload is flushed, then the operational refresh takes the time and
\* the calculated_at of the previous one
Lock(j) ==
    /\ pc[j] = "pnl"
    /\ Holding = {}
    /\ pc' = [pc EXCEPT ![j] = "locked"]
    /\ calc' = [calc EXCEPT ![j] = now]
    /\ since' = [since EXCEPT ![j] = model.calculatedAt]
    /\ UNCHANGED <<now, serving, write, dbVars, payload, affected, totals>>

ReadPayload(j) ==
    /\ pc[j] = "locked"
    /\ pc' = [pc EXCEPT ![j] = "read"]
    /\ payload' = [payload EXCEPT ![j] = {Version(r) : r \in Stored}]
    /\ UNCHANGED <<now, serving, write, dbVars, calc, since, affected, totals>>

\* mutant: rows written at the very moment of the last refresh are left out
ChangedAfter(from) == {facts[r].day : r \in {q \in Stored : facts[q].updatedAt > from}}

\* mutant: the days of deleted rows too, of which there is no record
ChangedOrDeleted(from) == {facts[r].day : r \in {q \in Rows : facts[q].updatedAt >= from}}

ChangedDays(from) == {facts[r].day : r \in {q \in Stored : facts[q].updatedAt >= from}}

\* an empty table is rebuilt in full
ReadAffected(j) ==
    /\ pc[j] = "read"
    /\ pc' = [pc EXCEPT ![j] = "affected"]
    /\ affected' = [affected EXCEPT ![j] =
         IF Full(j) \/ summaries = Empty THEN Days
         ELSE IF since[j] = 0 THEN {} ELSE ChangedDays(since[j])]
    /\ UNCHANGED <<now, serving, write, dbVars, calc, since, payload, totals>>

Rebuild(j) ==
    /\ pc[j] = "affected"
    /\ pc' = [pc EXCEPT ![j] = "rebuilt"]
    /\ totals' = [totals EXCEPT ![j] = [d \in Days |->
         IF d \in affected[j] THEN Sum(d) ELSE summaries[d]]]
    /\ UNCHANGED <<now, serving, write, dbVars, calc, since, payload, affected>>

\* mutant: calculated_at is set by the column's default at the last flush
CommitStampedNow(j) ==
    /\ pc[j] = "rebuilt"
    /\ model' = [calculatedAt |-> now, payload |-> payload[j]]
    /\ summaries' = totals[j]
    /\ serving' = (serving \/ Kind[j] = "startup")
    /\ Reset(j)
    /\ UNCHANGED <<now, write, facts, overtaken>>

\* the lifespan yields after the startup refresh
CommitRefresh(j) ==
    /\ pc[j] = "rebuilt"
    /\ model' = [calculatedAt |-> calc[j], payload |-> payload[j]]
    /\ summaries' = totals[j]
    /\ serving' = (serving \/ Kind[j] = "startup")
    /\ Reset(j)
    /\ UNCHANGED <<now, write, facts, overtaken>>

\* a statement raised
FailRefresh(j) ==
    /\ pc[j] # "idle"
    /\ Reset(j)
    /\ UNCHANGED <<now, serving, write, dbVars>>

\* the server dies with its transactions; scripts go on
Crash ==
    /\ serving \/ \E j \in Jobs : pc[j] # "idle"
    /\ serving' = FALSE
    /\ write' = [w \in Writers |-> IF JobOf[w] = Script THEN write[w] ELSE NoWrite]
    /\ pc' = [j \in Jobs |-> "idle"]
    /\ calc' = [j \in Jobs |-> 0]
    /\ since' = [j \in Jobs |-> 0]
    /\ payload' = [j \in Jobs |-> {}]
    /\ affected' = [j \in Jobs |-> {}]
    /\ totals' = [j \in Jobs |-> Empty]
    /\ UNCHANGED <<now, dbVars>>

(***************************************************************************)
(* Specification.                                                          *)
(***************************************************************************)
Work(j) ==
    \/ Begin(j)
    \/ ReadPayload(j) \/ ReadAffected(j) \/ Rebuild(j) \/ CommitRefresh(j)

Next ==
    \/ Tick
    \/ \E w \in Writers :
          \/ \E r \in Rows, day \in Days \cup {NoDay} : Flush(w, r, day)
          \/ CommitWrite(w)
          \/ Rollback(w)
    \/ \E j \in Jobs : Work(j) \/ Lock(j) \/ FailRefresh(j)
    \/ Crash

Spec == Init /\ [][Next]_vars

(***************************************************************************)
(* Properties.                                                             *)
(***************************************************************************)
TypeOK ==
    /\ now \in Time /\ serving \in BOOLEAN
    /\ facts \in [Rows -> [day : Days \cup {NoDay}, updatedAt : Time, committedAt : Time]]
    /\ overtaken \subseteq Rows
    /\ write \in [Writers -> {NoWrite} \cup
                   [row : Rows, day : Days \cup {NoDay}, updatedAt : Time]]
    /\ model \in [calculatedAt : Time, payload : SUBSET Versions]
    /\ summaries \in [Days -> SUBSET Versions]
    /\ pc \in [Jobs -> {"idle", "pnl", "locked", "read", "affected", "rebuilt"}]
    /\ calc \in [Jobs -> Time] /\ since \in [Jobs -> Time]
    /\ payload \in [Jobs -> SUBSET Versions]
    /\ affected \in [Jobs -> SUBSET Days]
    /\ totals \in [Jobs -> [Days -> SUBSET Versions]]

Counted(r) == Version(r) \in summaries[facts[r].day]

\* Incremental refreshes leave no gap between them: a row written before the
\* latest refresh was calculated is in its day's total with its latest values,
\* unless its transaction was still open while such a refresh read the tables.
OnTimeRowsCounted ==
    \A r \in Stored \ overtaken :
        facts[r].updatedAt < model.calculatedAt => Counted(r)

\* Concurrent refreshes do not undo each other: the row of
\* pnl_analytics_summaries is locked before calculated_at is taken.
ModelsNeverGoBack == [][model'.calculatedAt >= model.calculatedAt]_vars

\* get_operational_read_model: what it serves lacks no row that was committed
\* more than MaxAge ago.
AnswersAreRecent ==
    model.calculatedAt # 0 /\ now - model.calculatedAt <= MaxAge
    => \A r \in Stored : now - facts[r].committedAt > MaxAge
                         => Version(r) \in model.payload

\* "After every round of synchronisation only the days it changed are
\* recomputed", among them the day a record has left: no row is in the totals
\* of two days.
CountedOnce ==
    \A r \in Rows : Cardinality({d \in Days : \E t \in Time : <<r, t>> \in summaries[d]}) <= 1

(***************************************************************************)
(* Liveness: jobs are rescheduled, the queue for a row lock is first come  *)
(* first served, transactions end, and the faults stop.                    *)
(***************************************************************************)
\* a step without a fault; one that fails and changes nothing looks like one
Calm ==
    \/ Tick
    \/ \E w \in Writers :
          \/ \E r \in Rows, day \in Days \cup {NoDay} : Flush(w, r, day)
          \/ CommitWrite(w) \/ Rollback(w)
    \/ \E j \in Jobs : Work(j) \/ Lock(j)

Fairness ==
    /\ \A j \in Jobs : WF_vars(Work(j)) /\ SF_vars(Lock(j))
    /\ \A w \in Writers : WF_vars(CommitWrite(w) \/ Rollback(w))
    /\ <>[][Calm]_vars

LiveSpec == Spec /\ Fairness

\* Whatever was moved, deleted or overtaken, the daily calibration brings the
\* totals back to the fact tables once the writers pause.
TotalsConverge == <>[](\A d \in Days : summaries[d] = Sum(d))
=============================================================================
