------------------------- MODULE AccountSync_proofs -------------------------
(***************************************************************************)
(* Proofs about AccountSync, for every value of its constants.             *)
(***************************************************************************)
EXTENDS AccountSync, TLAPS

USE SyncConstants

LEMMA DaysType == \A t \in Time : DayOf(t) \in Days
  BY DEF Days

LEMMA FreshType == FreshAccount \in Account /\ NoAnswer \in Answer
  <1>1. 0 \in Time
    BY DEF Time
  <1>2. Flat \in Position
    BY <1>1 DEF Flat, Position
  <1>3. [k \in Keys |-> Flat] \in [Keys -> Position]
    BY <1>2
  <1>4. [s \in Streams |-> 0] \in [Streams -> Time]
    BY <1>1
  <1> QED
    BY <1>1, <1>3, <1>4 DEF FreshAccount, NoAnswer, Account, Details, Answer

\* The types of the variables a step of one worker may write.
WorkerOK ==
    /\ pc \in [Workers -> {"idle", "loaded", "syncing"}]
    /\ row \in [Workers -> Account]
    /\ started \in [Workers -> Time]
    /\ due \in [Workers -> SUBSET Streams]
    /\ prior \in [Workers -> [Keys -> Position]]
    /\ answer \in [Workers -> Answer]

LEMMA ResetType ==
  ASSUME WorkerOK, NEW w \in Workers, Reset(w)
  PROVE  WorkerOK'
  <1>1. 0 \in Time /\ Flat \in Position
    BY DEF Time, Flat, Position
  <1> QED
    BY <1>1, FreshType DEF WorkerOK, Reset

LEMMA InitType == Init => TypeOK
  <1> SUFFICES ASSUME Init PROVE TypeOK
    OBVIOUS
  <1>1. 0 \in Time /\ 1 \in Time
    BY DEF Time
  <1>2. Flat \in Position
    BY <1>1 DEF Flat, Position
  <1>3. held \in [Keys -> Position]
    BY <1>1, <1>2 DEF Init, Position
  <1>4. ledger \in Ledger
    BY <1>1, <1>3, DaysType DEF Init, Ledger
  <1> QED
    BY <1>1, <1>2, <1>3, <1>4, FreshType DEF Init, TypeOK

LEMMA ExchangeType ==
  ASSUME TypeOK, Exchange
  PROVE  TypeOK'
  <1> USE DEF TypeOK, vars, exchangeVars, dbVars, workerVars
  <1>1. CASE Tick
    BY <1>1 DEF Tick, Time
  <1>2. ASSUME NEW k \in Keys, OpenPosition(k) PROVE TypeOK'
    <2>1. held[k] \in Position /\ now \in Time
      OBVIOUS
    <2>2. [size |-> held[k].size + 1,
           opened |-> IF held[k] = Flat THEN now ELSE held[k].opened] \in Position
      BY <1>2, <2>1 DEF OpenPosition, Position
    <2>3. held' \in [Keys -> Position]
      BY <1>2, <2>2 DEF OpenPosition
    <2> QED
      BY <1>2, <2>3 DEF OpenPosition
  <1>3. ASSUME NEW f \in ClosedFacts, ClosePosition(f) PROVE TypeOK'
    <2>1. KeyOf[f] \in Keys /\ f \in Facts
      BY DEF Facts
    <2>2. Flat \in Position
      BY DEF Flat, Position, Time
    <2>3. held[KeyOf[f]].size # 1 =>
            [size |-> held[KeyOf[f]].size - 1,
             opened |-> held[KeyOf[f]].opened] \in Position
      BY <1>3, <2>1 DEF ClosePosition, Position
    <2>4. held' \in [Keys -> Position]
      BY <1>3, <2>1, <2>2, <2>3 DEF ClosePosition
    <2> QED
      BY <1>3, <2>1, <2>4 DEF ClosePosition
  <1>4. ASSUME NEW f \in HistoryFacts, BookIncome(f) PROVE TypeOK'
    BY <1>4 DEF BookIncome, Facts
  <1>5. ASSUME NEW f \in Facts, Publish(f) PROVE TypeOK'
    BY <1>5 DEF Publish
  <1> QED
    BY <1>1, <1>2, <1>3, <1>4, <1>5 DEF Exchange

\* The account row a commit writes has the type of an account row.
LEMMA DetailsType ==
  ASSUME TypeOK, NEW s \in Sessions, pc[s] = "syncing"
  PROVE  DetailsAfter(s) \in Details
  <1>0. s \in Workers /\ row[s] \in Account /\ started[s] \in Time
    BY DEF TypeOK, Workers
  <1>1. row[s].details \in Details
    BY <1>0 DEF Account
  <1>2. DetailsAfter(s).cursor \in [Streams -> Time]
    BY <1>0, <1>1 DEF DetailsAfter, Details
  <1>3. HistoryStatus(s) \in {"UNKNOWN", "PARTIAL", "COMPLETE", "UNSUPPORTED"}
    BY <1>1 DEF HistoryStatus, Details
  <1>4. DetailsAfter(s).issues \in SUBSET Keys
    BY <1>1 DEF DetailsAfter, Disappeared, Details
  <1> QED
    BY <1>2, <1>3, <1>4 DEF DetailsAfter, Details

\* The rows a commit writes have the types of the ledger.
LEMMA LedgerType ==
  ASSUME TypeOK, NEW s \in Sessions, pc[s] = "syncing"
  PROVE  LedgerAfter(s) \in Ledger
  <1> DEFINE today  == DayOf(started[s])
             closed  == ledger.closed \cup answer[s].closed
             history == ledger.history \cup answer[s].history
             repaired == RepairedDaily(closed, answer[s].closed)
  <1>1. s \in Workers /\ started[s] \in Time /\ answer[s] \in Answer
    BY DEF TypeOK, Workers
  <1>2. ledger \in Ledger
    BY DEF TypeOK
  <1>3. today \in Days
    BY <1>1, DaysType
  <1>4. /\ closed \in SUBSET ClosedFacts
        /\ history \in SUBSET HistoryFacts
    BY <1>1, <1>2 DEF Ledger, Answer
  <1>5. repaired \in [Days -> SUBSET Facts]
    <2>1. \A day \in Days : OnDay(closed, day) \in SUBSET Facts
      BY <1>4 DEF OnDay, Facts
    <2>2. \A day \in Days : ledger.daily[day] \in SUBSET Facts
      BY <1>2 DEF Ledger
    <2> HIDE DEF closed
    <2> QED
      BY <2>1, <2>2 DEF RepairedDaily
  <1>6. RealizedToday(closed, history, started[s]) \in SUBSET Facts
    BY <1>4 DEF RealizedToday, OnDay, Facts
  <1>7. [repaired EXCEPT ![today] = RealizedToday(closed, history, started[s])]
          \in [Days -> SUBSET Facts]
    BY <1>3, <1>5, <1>6
  <1>8. /\ LedgerAfter(s).positions \in [Keys -> Position]
        /\ LedgerAfter(s).asOf \in Time
    BY <1>1, <1>2 DEF LedgerAfter, Installed, Ledger, Answer
  <1>9. /\ LedgerAfter(s).balanceDays \in SUBSET Days
        /\ LedgerAfter(s).positionDays \in SUBSET Days
        /\ LedgerAfter(s).dailyDays \in SUBSET Days
    BY <1>2, <1>3 DEF LedgerAfter, Ledger
  <1>10. LedgerAfter(s).daily \in [Days -> SUBSET Facts]
    <2> HIDE DEF repaired, today
    <2> QED
      BY <1>5, <1>7 DEF LedgerAfter, Booked, repaired, today, closed, history
  <1>11. LedgerAfter(s).closed = closed /\ LedgerAfter(s).history = history
    BY DEF LedgerAfter, Booked
  <1> HIDE DEF closed, history
  <1> QED
    BY <1>4, <1>8, <1>9, <1>10, <1>11 DEF LedgerAfter, Ledger

\* A worker's window of times selects facts of the history it asks for.
LEMMA ReturnedType ==
  ASSUME NEW facts, NEW window
  PROVE  Returned(facts, window) \in SUBSET facts
  BY DEF Returned

\* An account row with one of its columns overwritten is an account row.
LEMMA AccountType ==
  ASSUME account \in Account
  PROVE  /\ [account EXCEPT !.status = "ERROR"] \in Account
         /\ \A d \in Details, st \in {"CONNECTED", "ERROR", "DELETED"} :
              [account EXCEPT !.details = d, !.status = st] \in Account
         /\ \A d \in Details : [account EXCEPT !.details = d] \in Account
         /\ \A t \in Time : [account EXCEPT !.status = "DELETED",
                                            !.deletedAt = t] \in Account
  BY DEF Account

LEMMA SyncType ==
  ASSUME TypeOK, NEW s \in Sessions, Sync(s)
  PROVE  TypeOK'
  <1> USE DEF vars, exchangeVars, dbVars, workerVars
  <1>0. s \in Workers /\ WorkerOK
    BY DEF TypeOK, WorkerOK, Workers
  <1>1. CASE Load(s)
    BY <1>0, <1>1 DEF Load, TypeOK
  <1>2. ASSUME Reset(s), UNCHANGED <<now, exchangeVars, ledger>>, account' \in Account
        PROVE  TypeOK'
    <2>1. WorkerOK'
      BY <1>0, <1>2, ResetType
    <2> QED
      BY <1>2, <2>1 DEF TypeOK, WorkerOK
  <1>3. CASE SkipLocked(s) \/ NothingDue(s)
    BY <1>2, <1>3 DEF SkipLocked, NothingDue, TypeOK
  <1>4. CASE NoPeriod(s) \/ Fail(s)
    <2>1. account \in Account
      BY DEF TypeOK
    <2>2. account' \in Account
      BY <1>4, <2>1, AccountType DEF NoPeriod, Fail
    <2> QED
      BY <1>2, <1>4, <2>2 DEF NoPeriod, Fail
  <1>7. answer \in [Workers -> Answer] /\ answer[s] \in Answer
    BY <1>0 DEF TypeOK
  <1>5. CASE Begin(s)
    <2>1. ledger.positions \in [Keys -> Position]
      BY DEF TypeOK, Ledger
    <2>2. DueStreams(s) \in SUBSET Streams
      BY DEF DueStreams
    <2>3. prior' \in [Workers -> [Keys -> Position]]
      BY <1>0, <1>5, <2>1 DEF Begin, TypeOK
    <2>4. answer' \in [Workers -> Answer]
      <3>1. [answer[s] EXCEPT !.pending = DueStreams(s) \ {"balance"}] \in Answer
        BY <1>7, <2>2 DEF Answer
      <3> QED
        BY <1>0, <1>5, <1>7, <3>1 DEF Begin
    <2>5. due' \in [Workers -> SUBSET Streams]
      BY <1>0, <1>5, <2>2 DEF Begin, TypeOK
    <2> QED
      BY <1>0, <1>5, <2>3, <2>4, <2>5 DEF Begin, TypeOK
  <1>6. ASSUME answer' \in [Workers -> Answer],
               UNCHANGED <<now, exchangeVars, dbVars, pc, row, started, due, prior>>
        PROVE  TypeOK'
    BY <1>6 DEF TypeOK
  <1>8. CASE ReceivePositions(s)
    <2>1. held \in [Keys -> Position] /\ now \in Time
      BY DEF TypeOK
    <2>2. answer' \in [Workers -> Answer]
      BY <1>0, <1>7, <1>8, <2>1 DEF ReceivePositions, Answer
    <2> QED
      BY <1>6, <1>8, <2>2 DEF ReceivePositions
  <1>9. CASE ReceiveClosed(s)
    <2>1. Returned(ClosedFacts, ClosedWindow(s)) \in SUBSET ClosedFacts
      BY ReturnedType
    <2>2. answer' \in [Workers -> Answer]
      BY <1>0, <1>7, <1>9, <2>1 DEF ReceiveClosed, Answer
    <2> QED
      BY <1>6, <1>9, <2>2 DEF ReceiveClosed
  <1>10. CASE ReceiveHistory(s)
    <2>1. Returned(HistoryFacts, HistoryWindow(s)) \in SUBSET HistoryFacts
      BY ReturnedType
    <2>2. PICK whole \in BOOLEAN :
            answer' = [answer EXCEPT
              ![s].pending = @ \ {"history"},
              ![s].history = Returned(HistoryFacts, HistoryWindow(s)),
              ![s].whole = whole]
      BY <1>10 DEF ReceiveHistory
    <2>3. answer' \in [Workers -> Answer]
      BY <1>0, <1>7, <2>1, <2>2 DEF Answer
    <2> QED
      BY <1>6, <1>10, <2>3 DEF ReceiveHistory
  <1>11. CASE HistoryFails(s)
    <2>1. answer' \in [Workers -> Answer]
      BY <1>0, <1>7, <1>11 DEF HistoryFails, Answer
    <2> QED
      BY <1>6, <1>11, <2>1 DEF HistoryFails
  <1>12. CASE FetchReduced(s)
    <2>1. answer' \in [Workers -> Answer]
      BY <1>0, <1>7, <1>12 DEF FetchReduced, Answer, Streams
    <2>2. due' \in [Workers -> SUBSET Streams]
      BY <1>0, <1>12 DEF FetchReduced, TypeOK, Streams
    <2> QED
      BY <1>12, <2>1, <2>2 DEF FetchReduced, TypeOK
  <1>13. CASE Commit(s)
    <2>1. pc[s] = "syncing"
      BY <1>13 DEF Commit, Answered
    <2>2. ledger' \in Ledger
      BY <1>13, <2>1, LedgerType DEF Commit
    <2>3. account \in Account /\ row[s] \in Account
      BY <1>0 DEF TypeOK
    <2>4. Flushed(row[s].details, DetailsAfter(s), account.details) \in Details
      BY <2>1, <2>3, DetailsType DEF Flushed, Account
    <2>5. Flushed(row[s].status, "CONNECTED", account.status)
            \in {"CONNECTED", "ERROR", "DELETED"}
      BY <2>3 DEF Flushed, Account
    <2>6. account' \in Account
      BY <1>13, <2>3, <2>4, <2>5, AccountType DEF Commit
    <2>7. WorkerOK'
      BY <1>0, <1>13, ResetType DEF Commit
    <2> QED
      BY <1>13, <2>2, <2>6, <2>7 DEF Commit, TypeOK, WorkerOK
  <1> QED
    BY <1>1, <1>3, <1>4, <1>5, <1>8, <1>9, <1>10, <1>11, <1>12, <1>13 DEF Sync

LEMMA BackfillType ==
  ASSUME TypeOK, NEW b \in Backfills, Backfill(b)
  PROVE  TypeOK'
  <1> USE DEF vars, exchangeVars, dbVars, workerVars
  <1>0. b \in Workers /\ WorkerOK
    BY DEF TypeOK, WorkerOK, Workers
  <1>1. CASE BackfillStart(b)
    BY <1>0, <1>1 DEF BackfillStart, TypeOK
  <1>2. CASE BackfillEnd(b)
    <2>1. WorkerOK'
      BY <1>0, <1>2, ResetType DEF BackfillEnd
    <2> QED
      BY <1>2, <2>1 DEF BackfillEnd, TypeOK, WorkerOK
  <1>3. CASE BackfillCommit(b)
    <2>1. PICK moment \in started[b] .. now :
            ledger' = [ledger EXCEPT !.history = @ \cup Bundle(b, moment)]
      BY <1>3 DEF BackfillCommit, Booked
    <2>2. PICK whole \in BOOLEAN :
            account' = [account EXCEPT !.details =
              Flushed(row[b].details, BackfilledDetails(b, whole), @)]
      BY <1>3 DEF BackfillCommit
    <2>3. ledger' \in Ledger
      <3>1. Bundle(b, moment) \in SUBSET HistoryFacts
        BY ReturnedType DEF Bundle
      <3> QED
        BY <2>1, <3>1 DEF TypeOK, Ledger
    <2>4. account \in Account /\ row[b] \in Account
      BY <1>0 DEF TypeOK
    <2>5. BackfilledDetails(b, whole) \in Details
      BY <2>4 DEF BackfilledDetails, Account, Details
    <2>6. account' \in Account
      BY <2>2, <2>4, <2>5, AccountType DEF Flushed, Account
    <2>7. WorkerOK'
      BY <1>0, <1>3, ResetType DEF BackfillCommit
    <2> QED
      BY <1>3, <2>3, <2>6, <2>7 DEF BackfillCommit, TypeOK, WorkerOK
  <1> QED
    BY <1>1, <1>2, <1>3 DEF Backfill

LEMMA CrashType ==
  ASSUME TypeOK, NEW p \in Processes, Crash(p)
  PROVE  TypeOK'
  <1>1. 0 \in Time /\ Flat \in Position
    BY DEF Time, Flat, Position
  <1>2. [k \in Keys |-> Flat] \in [Keys -> Position]
    BY <1>1
  <1> QED
    BY <1>1, <1>2, FreshType
       DEF Crash, TypeOK, exchangeVars, dbVars, Streams

\* Every step keeps every variable in its type.
LEMMA NextType == TypeOK /\ [Next]_vars => TypeOK'
  <1> SUFFICES ASSUME TypeOK, [Next]_vars PROVE TypeOK'
    OBVIOUS
  <1>1. CASE DeleteAccount
    <2>1. account \in Account /\ now \in Time
      BY DEF TypeOK
    <2>2. account' \in Account
      BY <1>1, <2>1, AccountType DEF DeleteAccount
    <2> QED
      BY <1>1, <2>2 DEF DeleteAccount, TypeOK, exchangeVars, workerVars
  <1>2. CASE UNCHANGED vars
    BY <1>2 DEF TypeOK, vars, exchangeVars, dbVars, workerVars
  <1> QED
    BY <1>1, <1>2, ExchangeType, SyncType, BackfillType, CrashType DEF Next

\* Whatever order syncs, backfills, deletion and crashes come in, the rows of
\* the account and the state of every session stay within their types.
THEOREM SpecTypeOK == Spec => []TypeOK
  BY InitType, NextType, PTL DEF Spec

(***************************************************************************)
(* The cursors cover the facts. Stored facts are never deleted, the        *)
(* exchange publishes no fact in the past, and a cursor is only ever moved *)
(* to the start of a sync whose answer held every prompt fact published    *)
(* before that start.                                                      *)
(***************************************************************************)
Chronology ==
    /\ now >= 1
    /\ \A f \in Facts :
          /\ event[f] <= now /\ published[f] <= now
          /\ published[f] # 0 => event[f] \in 1 .. published[f]
    /\ \A w \in Workers : started[w] <= now

CursorOK(details) ==
    /\ \A stream \in Streams : details.cursor[stream] <= now
    /\ Covers(details.cursor, Stored)

\* the answer a session holds for the stream of a fact
AnswerFor(s, f) ==
    IF StreamOf(f) = "history" THEN answer[s].history ELSE answer[s].closed

\* every prompt fact published before the sync started is stored or in hand
AnswerCovers(s) ==
    \A f \in Facts :
        /\ StreamOf(f) \in due[s] \ answer[s].pending
        /\ StreamOf(f) = "history" => ~answer[s].historyFailed
        /\ Prompt(f)
        /\ published[f] < started[s]
        => f \in Stored \cup AnswerFor(s, f)

CoverInv ==
    /\ TypeOK
    /\ Chronology
    /\ CursorOK(account.details)
    /\ \A w \in Workers : CursorOK(row[w].details)
    /\ \A s \in Sessions : pc[s] = "syncing" => AnswerCovers(s)

\* Nothing is ever deleted from the stored facts, and a fact that becomes
\* published does so now.
FactsMove ==
    /\ now <= now'
    /\ Stored \subseteq Stored'
    /\ \A f \in Facts :
          \/ /\ published'[f] = published[f]
             /\ published[f] # 0 => event'[f] = event[f]
          \/ published[f] = 0 /\ published'[f] = now

LEMMA NextMovesFacts ==
  ASSUME TypeOK, Chronology, [Next]_vars
  PROVE  FactsMove
  <1> USE DEF FactsMove, vars, exchangeVars, dbVars, workerVars
  <1>1. ASSUME UNCHANGED <<now, exchangeVars>>, Stored \subseteq Stored'
        PROVE  FactsMove
    BY <1>1 DEF TypeOK, Time
  <1>2. CASE Exchange
    <2>1. UNCHANGED ledger /\ Stored' = Stored
      BY <1>2 DEF Exchange, Tick, OpenPosition, ClosePosition, BookIncome,
                  Publish, Stored
    <2>2. CASE Tick
      BY <2>1, <2>2 DEF Tick, TypeOK, Time
    <2>3. ASSUME NEW k \in Keys, OpenPosition(k) PROVE FactsMove
      BY <2>1, <2>3 DEF OpenPosition, TypeOK, Time
    <2>4. ASSUME NEW f \in Facts, event[f] = 0,
                 event' = [event EXCEPT ![f] = now], UNCHANGED <<now, published>>
          PROVE  FactsMove
      BY <2>1, <2>4 DEF Chronology, TypeOK, Time
    <2>5. ASSUME NEW f \in Facts, Publish(f) PROVE FactsMove
      BY <2>1, <2>5 DEF Publish, TypeOK, Time
    <2> QED
      BY <1>2, <2>2, <2>3, <2>4, <2>5 DEF Exchange, ClosePosition, BookIncome, Facts
  <1>3. CASE \E s \in Sessions : Sync(s)
    <2>1. PICK s \in Sessions : Sync(s)
      BY <1>3
    <2>2. CASE Commit(s)
      <3>1. Stored \subseteq Stored'
        BY <2>2 DEF Commit, LedgerAfter, Booked, Stored
      <3> QED
        BY <1>1, <2>2, <3>1 DEF Commit
    <2> QED
      BY <1>1, <2>1, <2>2 DEF Sync, Load, SkipLocked, NothingDue, NoPeriod,
           Begin, ReceivePositions, ReceiveClosed, ReceiveHistory,
           HistoryFails, FetchReduced, Fail, Stored
  <1>4. CASE \E b \in Backfills : Backfill(b)
    <2>1. PICK b \in Backfills : Backfill(b)
      BY <1>4
    <2>2. UNCHANGED <<now, exchangeVars>>
      BY <2>1 DEF Backfill, BackfillStart, BackfillEnd, BackfillCommit
    <2>3. Stored \subseteq Stored'
      BY <2>1 DEF Backfill, BackfillStart, BackfillEnd, BackfillCommit,
                  Stored, Booked, TypeOK, Ledger
    <2> QED
      BY <1>1, <2>2, <2>3
  <1>5. CASE DeleteAccount \/ \E p \in Processes : Crash(p)
    BY <1>1, <1>5 DEF DeleteAccount, Crash, Stored
  <1>6. CASE UNCHANGED vars
    BY <1>1, <1>6 DEF Stored
  <1> QED
    BY <1>2, <1>3, <1>4, <1>5, <1>6 DEF Next

\* A step leaves every cursor that is not in the future covered.
LEMMA KeptCursor ==
  ASSUME TypeOK, TypeOK', FactsMove, NEW details \in Details, CursorOK(details)
  PROVE  /\ \A stream \in Streams : details.cursor[stream] <= now'
         /\ \A f \in Facts :
               Prompt(f)' /\ published'[f] < details.cursor[StreamOf(f)]
               => f \in Stored'
  <1>1. details.cursor \in [Streams -> Time]
    BY DEF Details
  <1>2. \A f \in Facts : StreamOf(f) \in Streams
    BY DEF StreamOf, Streams
  <1>3. ASSUME NEW stream \in Streams PROVE details.cursor[stream] <= now'
    BY <1>1 DEF TypeOK, CursorOK, FactsMove, Time
  <1>4. ASSUME NEW f \in Facts, Prompt(f)',
               published'[f] < details.cursor[StreamOf(f)]
        PROVE  f \in Stored'
    <2>1. details.cursor[StreamOf(f)] \in Time /\ details.cursor[StreamOf(f)] <= now
      BY <1>1, <1>2 DEF CursorOK
    <2>2. published'[f] # now
      BY <1>4, <2>1 DEF TypeOK, Time
    <2>3. Prompt(f) /\ published[f] < details.cursor[StreamOf(f)]
      BY <1>4, <2>2 DEF FactsMove, Prompt
    <2> QED
      BY <2>3 DEF CursorOK, Covers, FactsMove
  <1> QED
    BY <1>3, <1>4

\* A step that keeps what a session holds keeps it covered.
LEMMA KeptAnswer ==
  ASSUME TypeOK, Chronology, FactsMove, NEW s \in Sessions, AnswerCovers(s),
         due'[s] = due[s], answer'[s] = answer[s], started'[s] = started[s]
  PROVE  AnswerCovers(s)'
  BY DEF TypeOK, Chronology, AnswerCovers, AnswerFor, FactsMove, Prompt, Time,
         Workers

\* The window of an answer starts early enough: five minutes before the
\* cursor, when every fact published before the cursor is stored already.
LEMMA WindowReaches ==
  ASSUME TypeOK, Chronology, NEW w \in Workers, CursorOK(row[w].details),
         NEW f \in Facts, Prompt(f), published[f] < started[w],
         f \notin Stored
  PROVE  /\ event[f] \in 1 .. started[w]
         /\ \/ row[w].details.cursor[StreamOf(f)] = 0
            \/ event[f] >= row[w].details.cursor[StreamOf(f)] - Overlap
  <1>1. StreamOf(f) \in Streams
    BY DEF StreamOf, Streams
  <1>2. row[w].details.cursor[StreamOf(f)] \in Time
    BY <1>1 DEF TypeOK, Account, Details
  <1>3. /\ event[f] \in 1 .. published[f] /\ published[f] - event[f] <= Overlap
        /\ event[f] \in Time /\ published[f] \in Time /\ started[w] \in Time
    BY DEF Chronology, Prompt, TypeOK
  <1>4. event[f] \in 1 .. started[w]
    BY <1>3 DEF Time
  <1>5. published[f] >= row[w].details.cursor[StreamOf(f)]
    BY <1>2, <1>3 DEF CursorOK, Covers, Time
  <1> QED
    BY <1>2, <1>3, <1>4, <1>5 DEF Time

LEMMA ClosedAnswer ==
  ASSUME TypeOK, Chronology, ~Polymarket, NEW s \in Sessions,
         CursorOK(row[s].details),
         NEW f \in ClosedFacts, Prompt(f), published[f] < started[s],
         f \notin Stored
  PROVE  f \in Returned(ClosedFacts, ClosedWindow(s))
  <1>1. s \in Workers /\ f \in Facts /\ StreamOf(f) = "closed_positions"
    BY DEF Workers, Facts, StreamOf
  <1>2. event[f] \in ClosedWindow(s)
    BY <1>1, WindowReaches DEF ClosedWindow
  <1> QED
    BY <1>2 DEF Returned, Prompt

LEMMA HistoryAnswer ==
  ASSUME TypeOK, Chronology, NEW s \in Sessions, CursorOK(row[s].details),
         NEW f \in HistoryFacts, Prompt(f), published[f] < started[s],
         f \notin Stored
  PROVE  f \in Returned(HistoryFacts, HistoryWindow(s))
  <1>1. s \in Workers /\ f \in Facts /\ StreamOf(f) = "history"
    BY DEF Workers, Facts, StreamOf
  <1>2. event[f] \in HistoryWindow(s)
    BY <1>1, WindowReaches DEF HistoryWindow
  <1> QED
    BY <1>2 DEF Returned, Prompt

\* What a step does to one worker: nothing, an end of its work, or one of the
\* steps that the worker itself takes.
SameWorker(w) ==
    /\ pc'[w] = pc[w] /\ row'[w] = row[w] /\ started'[w] = started[w]
    /\ due'[w] = due[w] /\ prior'[w] = prior[w] /\ answer'[w] = answer[w]

EndedWorker(w) ==
    /\ pc'[w] = "idle" /\ row'[w] = FreshAccount /\ started'[w] = 0
    /\ answer'[w] = NoAnswer

OwnStep(s) ==
    \/ Load(s) \/ Begin(s)
    \/ ReceivePositions(s) \/ ReceiveClosed(s) \/ ReceiveHistory(s)
    \/ HistoryFails(s) \/ FetchReduced(s)

LEMMA ResetEnds ==
  ASSUME TypeOK, NEW v \in Workers, NEW w \in Workers, Reset(v)
  PROVE  SameWorker(w) \/ EndedWorker(w)
  BY DEF Reset, SameWorker, EndedWorker, TypeOK

LEMMA OtherWorker ==
  ASSUME TypeOK, NEW s \in Sessions, OwnStep(s), NEW w \in Workers, w # s
  PROVE  SameWorker(w)
  <1>1. CASE Load(s)
    BY <1>1 DEF Load, SameWorker, TypeOK
  <1>2. CASE Begin(s)
    BY <1>2 DEF Begin, SameWorker, TypeOK
  <1>3. CASE ReceivePositions(s)
    BY <1>3 DEF ReceivePositions, SameWorker, TypeOK
  <1>4. CASE ReceiveClosed(s)
    BY <1>4 DEF ReceiveClosed, SameWorker, TypeOK
  <1>5. CASE ReceiveHistory(s)
    <2>1. answer'[w] = answer[w]
      BY <1>5 DEF ReceiveHistory, TypeOK
    <2> QED
      BY <1>5, <2>1 DEF ReceiveHistory, SameWorker
  <1>6. CASE HistoryFails(s)
    BY <1>6 DEF HistoryFails, SameWorker, TypeOK
  <1>7. CASE FetchReduced(s)
    BY <1>7 DEF FetchReduced, SameWorker, TypeOK
  <1> QED
    BY <1>1, <1>2, <1>3, <1>4, <1>5, <1>6, <1>7 DEF OwnStep

LEMMA WorkerStep ==
  ASSUME TypeOK, [Next]_vars, NEW w \in Workers
  PROVE  \/ SameWorker(w)
         \/ EndedWorker(w)
         \/ w \in Sessions /\ OwnStep(w)
         \/ w \in Backfills /\ BackfillStart(w)
  <1>1. CASE Exchange \/ DeleteAccount \/ UNCHANGED vars
    <2>1. UNCHANGED workerVars
      BY <1>1 DEF Exchange, Tick, OpenPosition, ClosePosition, BookIncome,
           Publish, DeleteAccount, vars
    <2> QED
      BY <2>1 DEF SameWorker, workerVars
  <1>2. ASSUME NEW s \in Sessions, Sync(s)
        PROVE  \/ SameWorker(w)
               \/ EndedWorker(w)
               \/ w \in Sessions /\ OwnStep(w)
    <2>1. s \in Workers
      BY DEF Workers
    <2>2. CASE OwnStep(s)
      <3>1. CASE w = s
        BY <2>2, <3>1
      <3>2. CASE w # s
        BY <2>2, <3>2, OtherWorker
      <3> QED
        BY <3>1, <3>2
    <2>3. CASE ~OwnStep(s)
      <3>1. SkipLocked(s) \/ NothingDue(s) \/ NoPeriod(s) \/ Commit(s) \/ Fail(s)
        BY <1>2, <2>3 DEF Sync, OwnStep
      <3>2. Reset(s)
        BY <3>1 DEF SkipLocked, NothingDue, NoPeriod, Commit, Fail
      <3> QED
        BY <2>1, <3>2, ResetEnds
    <2> QED
      BY <2>2, <2>3
  <1>3. ASSUME NEW b \in Backfills, Backfill(b)
        PROVE  \/ SameWorker(w)
               \/ EndedWorker(w)
               \/ w \in Backfills /\ BackfillStart(w)
    <2>1. b \in Workers
      BY DEF Workers
    <2>2. CASE BackfillStart(b)
      <3>1. CASE w = b
        BY <2>2, <3>1
      <3>2. CASE w # b
        BY <2>2, <3>2 DEF BackfillStart, SameWorker, TypeOK, dbVars
      <3> QED
        BY <3>1, <3>2
    <2>3. CASE BackfillEnd(b) \/ BackfillCommit(b)
      <3>1. Reset(b)
        BY <2>3 DEF BackfillEnd, BackfillCommit
      <3> QED
        BY <2>1, <3>1, ResetEnds
    <2> QED
      BY <1>3, <2>2, <2>3 DEF Backfill
  <1>4. ASSUME NEW p \in Processes, Crash(p)
        PROVE  SameWorker(w) \/ EndedWorker(w)
    BY <1>4 DEF Crash, SameWorker, EndedWorker
  <1> QED
    BY <1>1, <1>2, <1>3, <1>4 DEF Next

\* Only the exchange moves the clock and publishes.
LEMMA OnlyTheExchangeMoves ==
  ASSUME [Next]_vars, ~Exchange
  PROVE  UNCHANGED <<now, exchangeVars>>
  <1>1. ASSUME NEW s \in Sessions, Sync(s) PROVE UNCHANGED <<now, exchangeVars>>
    BY <1>1 DEF Sync, Load, SkipLocked, NothingDue, NoPeriod, Begin,
         ReceivePositions, ReceiveClosed, ReceiveHistory, HistoryFails,
         FetchReduced, Commit, Fail
  <1>2. ASSUME NEW b \in Backfills, Backfill(b)
        PROVE  UNCHANGED <<now, exchangeVars>>
    BY <1>2 DEF Backfill, BackfillStart, BackfillEnd, BackfillCommit
  <1> QED
    BY <1>1, <1>2 DEF Next, DeleteAccount, Crash, vars

LEMMA NextChronology ==
  ASSUME TypeOK, TypeOK', Chronology, FactsMove, [Next]_vars
  PROVE  Chronology'
  <1>1. now' >= 1
    BY DEF TypeOK, Chronology, FactsMove, Time
  <1>2. ASSUME NEW f \in Facts
        PROVE  /\ event'[f] <= now' /\ published'[f] <= now'
               /\ published'[f] # 0 => event'[f] \in 1 .. published'[f]
    <2>0. event'[f] <= now'
      <3>1. event'[f] = event[f] \/ event'[f] = now
        BY OnlyTheExchangeMoves DEF Exchange, Tick, OpenPosition, ClosePosition,
             BookIncome, Publish, TypeOK, exchangeVars
      <3> QED
        BY <3>1 DEF TypeOK, Chronology, FactsMove, Time
    <2>1. CASE published'[f] = published[f]
      BY <2>0, <2>1 DEF TypeOK, Chronology, FactsMove, Time
    <2>2. CASE published[f] = 0 /\ published'[f] = now
      <3>1. published'[f] # published[f]
        BY <2>2 DEF TypeOK, Chronology, Time
      <3>2. Exchange
        BY <3>1, OnlyTheExchangeMoves DEF exchangeVars
      <3>3. PICK g \in Facts : Publish(g)
        BY <3>1, <3>2 DEF Exchange, Tick, OpenPosition, ClosePosition,
             BookIncome, exchangeVars
      <3>4. f = g
        BY <3>1, <3>3 DEF Publish, TypeOK
      <3>5. event'[f] \in Time /\ event'[f] # 0 /\ now' = now
        BY <3>3, <3>4 DEF Publish, TypeOK
      <3>6. event'[f] <= now
        BY <3>3, <3>4 DEF Publish, Chronology
      <3> QED
        BY <2>0, <2>2, <3>5, <3>6 DEF TypeOK, Time
    <2> QED
      BY <2>1, <2>2 DEF FactsMove
  <1>3. ASSUME NEW w \in Workers PROVE started'[w] <= now'
    <2>1. started'[w] = started[w] \/ started'[w] = 0 \/ started'[w] = now
      <3>1. CASE w \in Sessions /\ OwnStep(w)
        BY <3>1 DEF OwnStep, Load, Begin, ReceivePositions, ReceiveClosed,
             ReceiveHistory, HistoryFails, FetchReduced, TypeOK
      <3>2. CASE w \in Backfills /\ BackfillStart(w)
        BY <3>2 DEF BackfillStart, TypeOK
      <3> QED
        BY <3>1, <3>2, WorkerStep DEF SameWorker, EndedWorker
    <2> QED
      BY <2>1 DEF TypeOK, Chronology, FactsMove, Time
  <1> QED
    BY <1>1, <1>2, <1>3 DEF Chronology

LEMMA FreshCursor ==
  ASSUME TypeOK PROVE CursorOK(FreshAccount.details)
  BY DEF TypeOK, CursorOK, Covers, FreshAccount, Time, StreamOf, Streams

\* A commit writes cursors that the rows it writes cover.
LEMMA CommitCovers ==
  ASSUME TypeOK, Chronology, NEW s \in Sessions, Commit(s),
         CursorOK(row[s].details), AnswerCovers(s)
  PROVE  /\ \A stream \in Streams : DetailsAfter(s).cursor[stream] <= now
         /\ Covers(DetailsAfter(s).cursor, Stored')
  <1>0. s \in Workers
    BY DEF Workers
  <1>1. DetailsAfter(s).cursor =
          [stream \in Streams |->
             IF stream \in due[s] /\ (stream = "history" => ~answer[s].historyFailed)
             THEN started[s] ELSE row[s].details.cursor[stream]]
    BY DEF DetailsAfter
  <1>2. Stored' = Stored \cup answer[s].closed \cup answer[s].history
    <2>1. /\ ledger'.closed = ledger.closed \cup answer[s].closed
          /\ ledger'.history = ledger.history \cup answer[s].history
      BY DEF Commit, LedgerAfter, Booked
    <2> QED
      BY <2>1 DEF Stored
  <1>3. \A stream \in Streams : DetailsAfter(s).cursor[stream] <= now
    BY <1>0, <1>1 DEF CursorOK, Chronology
  <1>4. ASSUME NEW f \in Facts, Prompt(f),
               published[f] < DetailsAfter(s).cursor[StreamOf(f)]
        PROVE  f \in Stored'
    <2>1. StreamOf(f) \in Streams
      BY DEF StreamOf, Streams
    <2>2. CASE /\ StreamOf(f) \in due[s]
               /\ StreamOf(f) = "history" => ~answer[s].historyFailed
      <3>1. published[f] < started[s] /\ answer[s].pending = {}
        BY <1>1, <1>4, <2>1, <2>2 DEF Commit, Answered
      <3> QED
        BY <1>2, <1>4, <2>2, <3>1 DEF AnswerCovers, AnswerFor
    <2>3. CASE ~(/\ StreamOf(f) \in due[s]
                 /\ StreamOf(f) = "history" => ~answer[s].historyFailed)
      <3>1. published[f] < row[s].details.cursor[StreamOf(f)]
        BY <1>1, <1>4, <2>1, <2>3
      <3> QED
        BY <1>2, <1>4, <3>1 DEF CursorOK, Covers
    <2> QED
      BY <2>2, <2>3
  <1> QED
    BY <1>3, <1>4 DEF Covers

\* The stored cursors stay covered, whoever writes the account row.
LEMMA AccountCursorNext ==
  ASSUME CoverInv, TypeOK', FactsMove, [Next]_vars
  PROVE  CursorOK(account.details)'
  <1>1. TypeOK /\ account.details \in Details /\ account'.details \in Details
    BY DEF CoverInv, TypeOK, Account
  <1>2. ASSUME CursorOK(account.details), account'.details = account.details
        PROVE  CursorOK(account.details)'
    BY <1>1, <1>2, KeptCursor DEF CursorOK, Covers
  <1>3. CASE \E s \in Sessions : Commit(s)
    <2>1. PICK s \in Sessions : Commit(s)
      BY <1>3
    <2>2. account'.details = account.details \/ account'.details = DetailsAfter(s)
      BY <1>1, <2>1 DEF Commit, Flushed, TypeOK, Account
    <2>3. CASE account'.details = DetailsAfter(s)
      <3>1. s \in Workers /\ pc[s] = "syncing"
        BY <2>1 DEF Commit, Answered, Workers
      <3>2. /\ \A stream \in Streams : DetailsAfter(s).cursor[stream] <= now
            /\ Covers(DetailsAfter(s).cursor, Stored')
        BY <2>1, <3>1, CommitCovers DEF CoverInv
      <3>3. UNCHANGED <<now, event, published>>
        BY <2>1 DEF Commit, exchangeVars
      <3> QED
        BY <2>3, <3>2, <3>3 DEF CursorOK, Covers, Prompt
    <2> QED
      BY <1>2, <2>2, <2>3 DEF CoverInv
  <1>4. CASE \E b \in Backfills : BackfillCommit(b)
    <2>1. PICK b \in Backfills : BackfillCommit(b)
      BY <1>4
    <2>2. b \in Workers /\ row[b].details \in Details
      BY DEF Workers, TypeOK, CoverInv, Account
    <2>3. PICK whole \in BOOLEAN : account' = [account EXCEPT !.details =
            Flushed(row[b].details, BackfilledDetails(b, whole), @)]
      BY <2>1 DEF BackfillCommit
    <2>4. \/ account'.details = account.details
          \/ account'.details = BackfilledDetails(b, whole)
      BY <1>1, <2>3 DEF Flushed, TypeOK, Account
    <2>5. BackfilledDetails(b, whole).cursor = row[b].details.cursor
      BY <2>2 DEF BackfilledDetails, Details
    <2>6. CASE account'.details = BackfilledDetails(b, whole)
      <3>1. CursorOK(row[b].details)
        BY <2>2 DEF CoverInv
      <3> QED
        BY <1>1, <2>2, <2>5, <2>6, <3>1, KeptCursor DEF CursorOK, Covers
    <2> QED
      BY <1>2, <2>4, <2>6 DEF CoverInv
  <1>5. CASE ~(\E s \in Sessions : Commit(s)) /\ ~(\E b \in Backfills : BackfillCommit(b))
    <2>1. account'.details = account.details
      <3>1. CASE Exchange \/ UNCHANGED vars
        BY <3>1 DEF Exchange, Tick, OpenPosition, ClosePosition, BookIncome,
             Publish, vars, dbVars
      <3>2. CASE DeleteAccount \/ \E p \in Processes : Crash(p)
        BY <1>1, <3>2 DEF DeleteAccount, Crash, dbVars, TypeOK, Account
      <3>3. ASSUME NEW s \in Sessions, Sync(s)
            PROVE  account'.details = account.details
        <4>1. account' = account \/ account' = [account EXCEPT !.status = "ERROR"]
          BY <1>5, <3>3 DEF Sync, Load, SkipLocked, NothingDue, NoPeriod, Begin,
             ReceivePositions, ReceiveClosed, ReceiveHistory, HistoryFails,
             FetchReduced, Fail, dbVars
        <4> QED
          BY <1>1, <4>1 DEF TypeOK, Account
      <3>4. ASSUME NEW b \in Backfills, Backfill(b)
            PROVE  account'.details = account.details
        BY <1>5, <3>4 DEF Backfill, BackfillStart, BackfillEnd, dbVars
      <3> QED
        BY <3>1, <3>2, <3>3, <3>4 DEF Next
    <2> QED
      BY <1>2, <2>1 DEF CoverInv
  <1> QED
    BY <1>3, <1>4, <1>5

\* What a session loaded stays covered while it holds on to it.
LEMMA RowCursorNext ==
  ASSUME CoverInv, TypeOK', FactsMove, [Next]_vars, NEW w \in Workers
  PROVE  CursorOK(row[w].details)'
  <1>1. /\ TypeOK /\ account.details \in Details /\ row[w].details \in Details
        /\ CursorOK(account.details) /\ CursorOK(row[w].details)
    BY DEF CoverInv, TypeOK, Account
  <1>2. CASE row'[w] = row[w]
    BY <1>1, <1>2, KeptCursor DEF CursorOK, Covers
  <1>3. CASE row'[w] = account
    BY <1>1, <1>3, KeptCursor DEF CursorOK, Covers
  <1>4. CASE row'[w] = FreshAccount
    <2>1. CursorOK(FreshAccount.details) /\ FreshAccount.details \in Details
      BY <1>1, FreshCursor, FreshType DEF Account
    <2> QED
      BY <1>1, <1>4, <2>1, KeptCursor DEF CursorOK, Covers
  <1>5. row'[w] = row[w] \/ row'[w] = account \/ row'[w] = FreshAccount
    <2>1. CASE w \in Sessions /\ OwnStep(w)
      BY <2>1 DEF OwnStep, Load, Begin, ReceivePositions, ReceiveClosed,
           ReceiveHistory, HistoryFails, FetchReduced, CoverInv, TypeOK
    <2>2. CASE w \in Backfills /\ BackfillStart(w)
      BY <2>2 DEF BackfillStart, CoverInv, TypeOK
    <2> QED
      BY <1>1, <2>1, <2>2, WorkerStep DEF SameWorker, EndedWorker
  <1> QED
    BY <1>2, <1>3, <1>4, <1>5

\* A session's answers cover what its sync is about to promise.
LEMMA AnswerNext ==
  ASSUME CoverInv, ~Polymarket, TypeOK', FactsMove, [Next]_vars,
         NEW s \in Sessions, pc'[s] = "syncing"
  PROVE  AnswerCovers(s)'
  <1>0. /\ s \in Workers /\ TypeOK /\ Chronology /\ CursorOK(row[s].details)
        /\ \A f \in Facts : StreamOf(f) \in {"closed_positions", "history"}
    BY DEF CoverInv, Workers, StreamOf
  <1>1. CASE SameWorker(s)
    <2>1. AnswerCovers(s)
      BY <1>1 DEF SameWorker, CoverInv
    <2> QED
      BY <1>0, <1>1, <2>1, KeptAnswer DEF SameWorker
  <1>2. CASE OwnStep(s)
    <2>0. UNCHANGED <<now, event, published, ledger>>
      BY <1>2 DEF OwnStep, Load, Begin, ReceivePositions, ReceiveClosed,
           ReceiveHistory, HistoryFails, FetchReduced, exchangeVars, dbVars
    <2>1. CASE Load(s)
      BY <1>0, <2>1 DEF Load, TypeOK
    <2>2. CASE Begin(s)
      <3>1. due'[s] = DueStreams(s) /\ answer'[s].pending = DueStreams(s) \ {"balance"}
        BY <1>0, <2>2 DEF Begin, TypeOK, Answer
      <3> QED
        BY <1>0, <3>1 DEF AnswerCovers
    <2>3. ASSUME pc[s] = "syncing", started'[s] = started[s],
                 NEW f \in Facts, Prompt(f), published[f] < started[s],
                 StreamOf(f) \in due[s] \ answer[s].pending,
                 StreamOf(f) = "history" => ~answer[s].historyFailed,
                 AnswerFor(s, f)' = AnswerFor(s, f)
          PROVE  f \in Stored' \cup AnswerFor(s, f)'
      BY <2>0, <2>3 DEF CoverInv, AnswerCovers, Stored
    <2>4. CASE ReceivePositions(s)
      <3>1. /\ answer'[s].pending = answer[s].pending \ {"positions"}
            /\ answer'[s].closed = answer[s].closed
            /\ answer'[s].history = answer[s].history
            /\ answer'[s].historyFailed = answer[s].historyFailed
        BY <1>0, <2>4 DEF ReceivePositions, TypeOK, Answer
      <3>2. pc[s] = "syncing" /\ started'[s] = started[s] /\ due'[s] = due[s]
        BY <2>4 DEF ReceivePositions
      <3> QED
        BY <1>0, <2>0, <2>3, <3>1, <3>2 DEF AnswerCovers, AnswerFor, Prompt
    <2>5. CASE ReceiveClosed(s)
      <3>1. /\ answer'[s].pending = answer[s].pending \ {"closed_positions"}
            /\ answer'[s].closed = Returned(ClosedFacts, ClosedWindow(s))
            /\ answer'[s].history = answer[s].history
            /\ answer'[s].historyFailed = answer[s].historyFailed
        BY <1>0, <2>5 DEF ReceiveClosed, TypeOK, Answer
      <3>2. pc[s] = "syncing" /\ started'[s] = started[s] /\ due'[s] = due[s]
        BY <2>5 DEF ReceiveClosed
      <3>3. ASSUME NEW f \in ClosedFacts, Prompt(f), published[f] < started[s]
            PROVE  f \in Stored \cup answer'[s].closed
        BY <1>0, <3>1, <3>3, ClosedAnswer
      <3>4. \A f \in Facts : StreamOf(f) # "history" => f \in ClosedFacts
        BY DEF StreamOf
      <3> QED
        BY <1>0, <2>0, <2>3, <3>1, <3>2, <3>3, <3>4
           DEF AnswerCovers, AnswerFor, Prompt, Stored
    <2>6. CASE ReceiveHistory(s)
      <3>1. /\ answer'[s].pending = answer[s].pending \ {"history"}
            /\ answer'[s].history = Returned(HistoryFacts, HistoryWindow(s))
            /\ answer'[s].closed = answer[s].closed
            /\ answer'[s].historyFailed = answer[s].historyFailed
        <4>1. PICK whole \in BOOLEAN :
                answer' = [answer EXCEPT
                  ![s].pending = @ \ {"history"},
                  ![s].history = Returned(HistoryFacts, HistoryWindow(s)),
                  ![s].whole = whole]
          BY <2>6 DEF ReceiveHistory
        <4> QED
          BY <1>0, <4>1 DEF TypeOK, Answer
      <3>2. pc[s] = "syncing" /\ started'[s] = started[s] /\ due'[s] = due[s]
        BY <2>6 DEF ReceiveHistory
      <3>3. ASSUME NEW f \in HistoryFacts, Prompt(f), published[f] < started[s]
            PROVE  f \in Stored \cup answer'[s].history
        BY <1>0, <3>1, <3>3, HistoryAnswer
      <3>4. \A f \in Facts : StreamOf(f) = "history" => f \in HistoryFacts
        BY DEF StreamOf, Facts
      <3> QED
        BY <1>0, <2>0, <2>3, <3>1, <3>2, <3>3, <3>4
           DEF AnswerCovers, AnswerFor, Prompt, Stored
    <2>7. CASE HistoryFails(s)
      <3>1. /\ answer'[s].pending = answer[s].pending \ {"history"}
            /\ answer'[s].closed = answer[s].closed
            /\ answer'[s].history = answer[s].history
            /\ answer'[s].historyFailed = TRUE
        BY <1>0, <2>7 DEF HistoryFails, TypeOK, Answer
      <3>2. pc[s] = "syncing" /\ started'[s] = started[s] /\ due'[s] = due[s]
        BY <2>7 DEF HistoryFails
      <3> QED
        BY <1>0, <2>0, <2>3, <3>1, <3>2 DEF AnswerCovers, AnswerFor, Prompt
    <2>8. CASE FetchReduced(s)
      <3>1. /\ answer'[s].pending = {"closed_positions"} /\ answer[s].pending = {}
            /\ answer'[s].closed = answer[s].closed
            /\ answer'[s].history = answer[s].history
            /\ answer'[s].historyFailed = answer[s].historyFailed
        BY <1>0, <2>8 DEF FetchReduced, Answered, TypeOK, Answer
      <3>2. /\ pc[s] = "syncing" /\ started'[s] = started[s]
            /\ due'[s] = due[s] \cup {"closed_positions"}
        BY <1>0, <2>8 DEF FetchReduced, Answered, TypeOK
      <3> QED
        BY <1>0, <2>0, <2>3, <3>1, <3>2 DEF AnswerCovers, AnswerFor, Prompt
    <2> QED
      BY <1>2, <2>1, <2>2, <2>4, <2>5, <2>6, <2>7, <2>8 DEF OwnStep
  <1> QED
    BY <1>0, <1>1, <1>2, WorkerStep DEF EndedWorker, BackfillStart

LEMMA CoverInit == Init => CoverInv
  <1> SUFFICES ASSUME Init PROVE CoverInv
    OBVIOUS
  <1>1. TypeOK
    BY InitType
  <1>2. Chronology
    BY DEF Init, Chronology
  <1>3. CursorOK(FreshAccount.details)
    BY <1>1, FreshCursor
  <1>4. account = FreshAccount /\ \A w \in Workers : row[w] = FreshAccount
    BY DEF Init
  <1>5. \A s \in Sessions : pc[s] = "idle"
    BY DEF Init, Workers
  <1> QED
    BY <1>1, <1>2, <1>3, <1>4, <1>5 DEF CoverInv

LEMMA CoverNext == ~Polymarket /\ CoverInv /\ [Next]_vars => CoverInv'
  <1> SUFFICES ASSUME ~Polymarket, CoverInv, [Next]_vars PROVE CoverInv'
    OBVIOUS
  <1>1. TypeOK /\ Chronology
    BY DEF CoverInv
  <1>2. TypeOK' /\ FactsMove
    BY <1>1, NextType, NextMovesFacts
  <1>3. Chronology'
    BY <1>1, <1>2, NextChronology
  <1>4. CursorOK(account.details)'
    BY <1>2, AccountCursorNext
  <1>5. \A w \in Workers : CursorOK(row[w].details)'
    BY <1>2, RowCursorNext
  <1>6. \A s \in Sessions : pc'[s] = "syncing" => AnswerCovers(s)'
    BY <1>2, AnswerNext
  <1> QED
    BY <1>2, <1>3, <1>4, <1>5, <1>6 DEF CoverInv

\* On every exchange but Polymarket, with any number of sessions in any number
\* of processes and whatever crashes, no stream's cursor ever passes a prompt
\* fact that is not stored. No lock is needed for it: a cursor written from a
\* stale row is one that was covered when it was loaded.
THEOREM SpecCursorCoversFacts == ~Polymarket => (Spec => []CursorCoversFacts)
  <1>1. CoverInv => CursorCoversFacts
    BY DEF CoverInv, CursorOK, CursorCoversFacts
  <1> SUFFICES ASSUME ~Polymarket PROVE Spec => []CursorCoversFacts
    OBVIOUS
  <1>2. CoverInv /\ [Next]_vars => CoverInv'
    BY CoverNext
  <1> QED
    BY <1>1, <1>2, CoverInit, PTL DEF Spec

(***************************************************************************)
(* AccountSync implements MirrorLedger. The invariant adds to CoverInv     *)
(* that an adapter's answer holds nothing the exchange had not listed: a   *)
(* writer stores what it was told, some time after it was told.            *)
(***************************************************************************)
Listed  == {f \in Facts : published[f] # 0}
Writing == {w \in Workers : pc[w] = "syncing"}

AnswersListed ==
    \A s \in Sessions : answer[s].closed \cup answer[s].history \subseteq Listed

MirrorInv == CoverInv /\ AnswersListed

(***************************************************************************)
(* The invariant.                                                          *)
(***************************************************************************)
LEMMA MirrorInit == Init => MirrorInv
  BY CoverInit DEF Init, MirrorInv, AnswersListed, NoAnswer, Workers

\* What the exchange has listed stays listed.
LEMMA ListedGrows ==
  ASSUME TypeOK, Chronology, [Next]_vars
  PROVE  Listed \subseteq Listed'
  BY NextMovesFacts DEF FactsMove, Listed

LEMMA ReturnedListed ==
  ASSUME NEW facts \in SUBSET Facts, NEW window
  PROVE  Returned(facts, window) \subseteq Listed
  BY DEF Returned, Listed

LEMMA AnswersNext ==
  ASSUME TypeOK, Chronology, AnswersListed, [Next]_vars
  PROVE  AnswersListed'
  <1> SUFFICES ASSUME NEW s \in Sessions
               PROVE  (answer[s].closed \cup answer[s].history \subseteq Listed)'
    BY DEF AnswersListed
  <1>0. s \in Workers /\ answer[s] \in Answer /\ Listed \subseteq Listed'
    BY ListedGrows DEF TypeOK, Workers
  <1>1. ASSUME answer'[s].closed \subseteq answer[s].closed \cup Listed,
               answer'[s].history \subseteq answer[s].history \cup Listed
        PROVE  (answer[s].closed \cup answer[s].history \subseteq Listed)'
    BY <1>0, <1>1 DEF AnswersListed
  <1>2. CASE SameWorker(s)
    BY <1>1, <1>2 DEF SameWorker
  <1>3. CASE EndedWorker(s)
    <2>1. answer'[s].closed = {} /\ answer'[s].history = {}
      BY <1>3 DEF EndedWorker, NoAnswer
    <2> QED
      BY <1>1, <2>1
  <1>4. CASE OwnStep(s)
    <2>1. CASE Load(s)
      BY <1>1, <2>1 DEF Load
    <2>2. CASE Begin(s)
      BY <1>0, <1>1, <2>2 DEF Begin, TypeOK, Answer
    <2>3. CASE ReceivePositions(s)
      BY <1>0, <1>1, <2>3 DEF ReceivePositions, TypeOK, Answer
    <2>4. CASE ReceiveClosed(s)
      <3>1. /\ answer'[s].closed = Returned(ClosedFacts, ClosedWindow(s))
            /\ answer'[s].history = answer[s].history
        BY <1>0, <2>4 DEF ReceiveClosed, TypeOK, Answer
      <3> QED
        BY <1>1, <3>1, ReturnedListed DEF Facts
    <2>5. CASE ReceiveHistory(s)
      <3>1. PICK whole \in BOOLEAN :
              answer' = [answer EXCEPT
                ![s].pending = @ \ {"history"},
                ![s].history = Returned(HistoryFacts, HistoryWindow(s)),
                ![s].whole = whole]
        BY <2>5 DEF ReceiveHistory
      <3>2. /\ answer'[s].history = Returned(HistoryFacts, HistoryWindow(s))
            /\ answer'[s].closed = answer[s].closed
        BY <1>0, <3>1 DEF TypeOK, Answer
      <3> QED
        BY <1>1, <3>2, ReturnedListed DEF Facts
    <2>6. CASE HistoryFails(s)
      BY <1>0, <1>1, <2>6 DEF HistoryFails, TypeOK, Answer
    <2>7. CASE FetchReduced(s)
      BY <1>0, <1>1, <2>7 DEF FetchReduced, TypeOK, Answer
    <2> QED
      BY <1>4, <2>1, <2>2, <2>3, <2>4, <2>5, <2>6, <2>7 DEF OwnStep
  <1>5. CASE s \in Backfills /\ BackfillStart(s)
    BY <1>1, <1>5 DEF BackfillStart
  <1> QED
    BY <1>0, <1>2, <1>3, <1>4, <1>5, WorkerStep

LEMMA MirrorNext == ~Polymarket /\ MirrorInv /\ [Next]_vars => MirrorInv'
  BY CoverNext, AnswersNext DEF MirrorInv, CoverInv

(***************************************************************************)
(* Steps that write no rows leave what has been passed alone.              *)
(***************************************************************************)
LEMMA PassedStays ==
  ASSUME MirrorInv, TypeOK', account'.details = account.details,
         \A f \in Facts :
            \/ published'[f] = published[f] /\ (published[f] # 0 => event'[f] = event[f])
            \/ published[f] = 0 /\ published'[f] = now
  PROVE  Passed' = Passed
  <1> SUFFICES ASSUME NEW f \in Facts
               PROVE  (Prompt(f) /\ published[f] < account.details.cursor[StreamOf(f)])'
                      <=> Prompt(f) /\ published[f] < account.details.cursor[StreamOf(f)]
    BY DEF Passed
  <1>1. CASE published'[f] = published[f] /\ (published[f] # 0 => event'[f] = event[f])
    BY <1>1 DEF Prompt, StreamOf
  <1>2. CASE published[f] = 0 /\ published'[f] = now
    <2>1. StreamOf(f) \in Streams
      BY DEF StreamOf, Streams
    <2>2. /\ account.details.cursor[StreamOf(f)] <= now
          /\ account.details.cursor[StreamOf(f)] \in Time /\ now \in Time
      BY <2>1 DEF MirrorInv, CoverInv, CursorOK, TypeOK, Account, Details
    <2>3. ~(published'[f] < account'.details.cursor[StreamOf(f)])
      BY <1>2, <2>2 DEF Time
    <2> QED
      BY <1>2, <2>3 DEF Prompt, StreamOf
  <1> QED
    BY <1>1, <1>2

(***************************************************************************)
(* The steps.                                                              *)
(***************************************************************************)
LEMMA ExchangeMirrored ==
  ASSUME MirrorInv, TypeOK', Exchange
  PROVE  [Mirror!Next]_(Mirror!vars)
  <1>0. TypeOK /\ Chronology
    BY DEF MirrorInv, CoverInv
  <1>1. UNCHANGED <<account, ledger, pc>>
    BY DEF Exchange, Tick, OpenPosition, ClosePosition, BookIncome, Publish,
           dbVars, workerVars
  <1>2. Stored' = Stored /\ Writing' = Writing
    BY <1>1 DEF Stored, Writing
  <1>3. Passed' = Passed
    <2>1. FactsMove
      BY <1>0, NextMovesFacts DEF Next
    <2> QED
      BY <1>1, <2>1, PassedStays DEF FactsMove
  <1>4. CASE Tick \/ \E k \in Keys : OpenPosition(k)
    BY <1>1, <1>2, <1>3, <1>4 DEF Mirror!vars, Tick, OpenPosition, exchangeVars, Writing
  <1>5. ASSUME NEW f \in Facts, event[f] = 0, event' = [event EXCEPT ![f] = now],
               published' = published
        PROVE  Mirror!Happen(f)
    <2>1. \A g \in Facts : event'[g] # 0 <=> event[g] # 0 \/ g = f
      BY <1>0, <1>5 DEF TypeOK, Chronology, Time
    <2> QED
      BY <1>1, <1>2, <1>3, <1>5, <2>1 DEF Mirror!Happen, Writing
  <1>6. ASSUME NEW f \in Facts, Publish(f) PROVE Mirror!List(f)
    <2>1. \A g \in Facts : published'[g] # 0 <=> published[g] # 0 \/ g = f
      BY <1>0, <1>6 DEF Publish, TypeOK, Chronology, Time
    <2> QED
      BY <1>1, <1>2, <1>3, <1>6, <2>1 DEF Publish, Mirror!List, Writing
  <1>7. CASE \E f \in ClosedFacts : ClosePosition(f)
    BY <1>5, <1>7 DEF ClosePosition, Mirror!Next, Facts
  <1>8. CASE \E f \in HistoryFacts : BookIncome(f)
    BY <1>5, <1>8 DEF BookIncome, Mirror!Next, Facts
  <1> QED
    BY <1>4, <1>6, <1>7, <1>8 DEF Exchange, Mirror!Next

\* a step that leaves the exchange, the stored rows and the cursors alone, and
\* under which writers only end
LEMMA EndsMirrored ==
  ASSUME MirrorInv, TypeOK', UNCHANGED <<exchangeVars, now, ledger>>,
         account'.details = account.details,
         account'.deletedAt = account.deletedAt, Writing' \subseteq Writing
  PROVE  [Mirror!Next]_(Mirror!vars)
  <1>1. Passed' = Passed
    BY PassedStays DEF exchangeVars
  <1>2. Mirror!Abandon
    BY <1>1 DEF Mirror!Abandon, Writing, Stored, exchangeVars
  <1> QED
    BY <1>2 DEF Mirror!Next

\* the start of a sync or of the script
LEMMA BeginMirrored ==
  ASSUME MirrorInv, TypeOK', UNCHANGED <<exchangeVars, now, dbVars>>,
         NEW w \in Workers, account.deletedAt = 0, pc[w] # "syncing",
         pc' = [pc EXCEPT ![w] = "syncing"]
  PROVE  Mirror!Next
  <1>1. Passed' = Passed
    BY PassedStays DEF exchangeVars, dbVars
  <1>2. Writing' = Writing \cup {w}
    BY DEF Writing, MirrorInv, CoverInv, TypeOK
  <1>3. Mirror!Begin(w)
    BY <1>1, <1>2 DEF Mirror!Begin, Writing, Stored, exchangeVars, dbVars
  <1> QED
    BY <1>3 DEF Mirror!Next

\* a commit, of a sync or of the script
LEMMA StoreMirrored ==
  ASSUME MirrorInv, MirrorInv', UNCHANGED exchangeVars,
         NEW w \in Workers, pc[w] = "syncing", pc' = [pc EXCEPT ![w] = "idle"],
         account'.deletedAt = account.deletedAt,
         Stored \subseteq Stored', Stored' \subseteq Stored \cup Listed
  PROVE  Mirror!Next
  <1>1. Passed' \subseteq Stored'
    BY DEF Passed, MirrorInv, CoverInv, CursorOK, Covers, Prompt
  <1>2. Writing' = Writing \ {w}
    BY DEF Writing, MirrorInv, CoverInv, TypeOK
  <1>3. Mirror!Store(w)
    BY <1>1, <1>2 DEF Mirror!Store, Writing, Listed, exchangeVars
  <1> QED
    BY <1>3 DEF Mirror!Next

LEMMA SyncMirrored ==
  ASSUME MirrorInv, MirrorInv', [Next]_vars, NEW s \in Sessions, Sync(s)
  PROVE  [Mirror!Next]_(Mirror!vars)
  <1>0. TypeOK /\ TypeOK' /\ s \in Workers
    BY DEF MirrorInv, CoverInv, Workers
  <1>1. CASE Begin(s)
    BY <1>0, <1>1, BeginMirrored DEF Begin, TrackingActive
  <1>2. CASE Commit(s)
    <2>1. /\ ledger'.closed = ledger.closed \cup answer[s].closed
          /\ ledger'.history = ledger.history \cup answer[s].history
      BY <1>2 DEF Commit, LedgerAfter, Booked
    <2>2. Stored \subseteq Stored' /\ Stored' \subseteq Stored \cup Listed
      BY <2>1 DEF Stored, MirrorInv, AnswersListed
    <2>3. account'.deletedAt = account.deletedAt
      BY <1>0, <1>2 DEF Commit, TypeOK, Account
    <2> QED
      BY <1>0, <1>2, <2>2, <2>3, StoreMirrored DEF Commit, Answered, Reset
  <1>3. CASE ~Begin(s) /\ ~Commit(s)
    <2>1. UNCHANGED <<exchangeVars, now, ledger>>
      BY <1>3 DEF Sync, Load, SkipLocked, NothingDue, NoPeriod, ReceivePositions,
           ReceiveClosed, ReceiveHistory, HistoryFails, FetchReduced, Fail, dbVars
    <2>2. /\ account'.details = account.details
          /\ account'.deletedAt = account.deletedAt
      BY <1>0, <1>3 DEF Sync, Load, SkipLocked, NothingDue, NoPeriod,
           ReceivePositions, ReceiveClosed, ReceiveHistory, HistoryFails,
           FetchReduced, Fail, dbVars, TypeOK, Account
    <2>3. pc' = pc \/ pc' = [pc EXCEPT ![s] = "loaded"] \/ pc' = [pc EXCEPT ![s] = "idle"]
      BY <1>3 DEF Sync, Load, SkipLocked, NothingDue, NoPeriod, ReceivePositions,
           ReceiveClosed, ReceiveHistory, HistoryFails, FetchReduced, Fail, Reset
    <2>4. Writing' \subseteq Writing
      BY <1>0, <2>3 DEF Writing, TypeOK
    <2> QED
      BY <1>0, <2>1, <2>2, <2>4, EndsMirrored
  <1> QED
    BY <1>1, <1>2, <1>3

LEMMA BackfillMirrored ==
  ASSUME MirrorInv, MirrorInv', NEW b \in Backfills, Backfill(b)
  PROVE  [Mirror!Next]_(Mirror!vars)
  <1>0. TypeOK /\ TypeOK' /\ b \in Workers
    BY DEF MirrorInv, CoverInv, Workers
  <1>1. CASE BackfillStart(b)
    BY <1>0, <1>1, BeginMirrored DEF BackfillStart
  <1>2. CASE BackfillEnd(b)
    <2>1. Writing' \subseteq Writing
      BY <1>0, <1>2 DEF BackfillEnd, Reset, Writing, TypeOK
    <2> QED
      BY <1>0, <1>2, <2>1, EndsMirrored DEF BackfillEnd, dbVars
  <1>3. CASE BackfillCommit(b)
    <2>1. PICK moment \in started[b] .. now :
            ledger' = [ledger EXCEPT !.history = Booked(Bundle(b, moment))]
      BY <1>3 DEF BackfillCommit
    <2>2. Bundle(b, moment) \subseteq Listed
      BY DEF Bundle, Returned, Listed, Facts
    <2>3. Stored \subseteq Stored' /\ Stored' \subseteq Stored \cup Listed
      BY <1>0, <2>1, <2>2 DEF Stored, Booked, TypeOK, Ledger
    <2>4. account'.deletedAt = account.deletedAt
      BY <1>0, <1>3 DEF BackfillCommit, TypeOK, Account
    <2> QED
      BY <1>0, <1>3, <2>3, <2>4, StoreMirrored DEF BackfillCommit, Reset
  <1> QED
    BY <1>1, <1>2, <1>3 DEF Backfill

LEMMA StepMirrored ==
  ASSUME MirrorInv, MirrorInv', [Next]_vars
  PROVE  [Mirror!Next]_(Mirror!vars)
  <1>0. TypeOK /\ TypeOK' /\ Chronology
    BY DEF MirrorInv, CoverInv
  <1>1. CASE Exchange
    BY <1>0, <1>1, ExchangeMirrored
  <1>2. CASE \E s \in Sessions : Sync(s)
    BY <1>2, SyncMirrored
  <1>3. CASE \E b \in Backfills : Backfill(b)
    BY <1>3, BackfillMirrored
  <1>4. CASE DeleteAccount
    <2>1. /\ account'.details = account.details /\ account.deletedAt = 0
          /\ account'.deletedAt # 0
      BY <1>0, <1>4 DEF DeleteAccount, TypeOK, Account, Chronology, Time
    <2>2. Passed' = Passed
      BY <1>0, <1>4, <2>1, PassedStays DEF DeleteAccount, exchangeVars
    <2>3. Mirror!Delete
      BY <1>4, <2>1, <2>2
         DEF DeleteAccount, Mirror!Delete, Stored, exchangeVars, workerVars
    <2> QED
      BY <2>3 DEF Mirror!Next
  <1>5. CASE \E p \in Processes : Crash(p)
    <2>1. Writing' \subseteq Writing
      BY <1>5 DEF Crash, Writing
    <2> QED
      BY <1>0, <1>5, <2>1, EndsMirrored DEF Crash, dbVars
  <1>6. CASE UNCHANGED vars
    <2>1. Writing' \subseteq Writing
      BY <1>6 DEF vars, workerVars, Writing
    <2> QED
      BY <1>0, <1>6, <2>1, EndsMirrored DEF vars, dbVars
  <1> QED
    BY <1>1, <1>2, <1>3, <1>4, <1>5, <1>6 DEF Next

\* On every exchange but Polymarket, any number of sessions and scripts in any
\* number of processes, whatever they read and however they end, implement the
\* mirror: nothing unlisted is stored, nothing stored is lost, nothing passed
\* is missing, and no writer begins after the deletion.
THEOREM SpecImplementsMirror == ~Polymarket => (Spec => ImplementsMirror)
  <1> SUFFICES ASSUME ~Polymarket PROVE Spec => ImplementsMirror
    OBVIOUS
  <1>1. Init => Mirror!Init
    BY DEF Init, Mirror!Init, Stored, Passed, Prompt, Workers, FreshAccount
  <1>2. MirrorInv /\ [Next]_vars => MirrorInv'
    BY MirrorNext
  <1>3. MirrorInv /\ MirrorInv' /\ [Next]_vars => [Mirror!Next]_(Mirror!vars)
    BY StepMirrored
  <1> QED
    BY <1>1, <1>2, <1>3, MirrorInit, PTL DEF Spec, ImplementsMirror, Mirror!Spec

(***************************************************************************)
(* What the lock orders within one process, and what a deletion stops.     *)
(***************************************************************************)

(***************************************************************************)
(* A deleted account: a sync under way began before the deletion.          *)
(***************************************************************************)
DeletionInv ==
    /\ TypeOK
    /\ \A w \in Workers :
          /\ started[w] <= now
          /\ pc[w] = "syncing" /\ account.deletedAt # 0
             => started[w] <= account.deletedAt

LEMMA DeletionInit == Init => DeletionInv
  BY InitType DEF Init, DeletionInv

\* A step leaves deleted_at alone, or it is the deletion.
LEMMA DeletedAtMoves ==
  ASSUME TypeOK, [Next]_vars
  PROVE  \/ account'.deletedAt = account.deletedAt
         \/ DeleteAccount
  <1>1. account \in Account
    BY DEF TypeOK
  <1>2. CASE Exchange \/ UNCHANGED vars
    BY <1>2 DEF Exchange, Tick, OpenPosition, ClosePosition, BookIncome,
         Publish, vars, dbVars
  <1>3. CASE \E p \in Processes : Crash(p)
    BY <1>3 DEF Crash, dbVars
  <1>4. ASSUME NEW s \in Sessions, Sync(s)
        PROVE  account'.deletedAt = account.deletedAt
    <2>1. CASE Commit(s)
      BY <1>1, <2>1 DEF Commit, Account
    <2>2. CASE ~Commit(s)
      <3>1. account' = account \/ account' = [account EXCEPT !.status = "ERROR"]
        BY <1>4, <2>2 DEF Sync, Load, SkipLocked, NothingDue, NoPeriod, Begin,
           ReceivePositions, ReceiveClosed, ReceiveHistory, HistoryFails,
           FetchReduced, Fail, dbVars
      <3> QED
        BY <1>1, <3>1 DEF Account
    <2> QED
      BY <2>1, <2>2
  <1>5. ASSUME NEW b \in Backfills, Backfill(b)
        PROVE  account'.deletedAt = account.deletedAt
    <2>1. CASE BackfillCommit(b)
      BY <1>1, <2>1 DEF BackfillCommit, Account
    <2> QED
      BY <1>5, <2>1 DEF Backfill, BackfillStart, BackfillEnd, dbVars
  <1> QED
    BY <1>2, <1>3, <1>4, <1>5 DEF Next

\* When a worker is under way after a step, it was under way, with the same
\* start, or it starts now on an account that is not deleted.
LEMMA SyncingStep ==
  ASSUME TypeOK, [Next]_vars, NEW w \in Workers, pc'[w] = "syncing"
  PROVE  \/ pc[w] = "syncing" /\ started'[w] = started[w]
         \/ /\ pc[w] # "syncing" /\ started'[w] = now
            /\ account' = account /\ account.deletedAt = 0
            /\ w \in Sessions => Begin(w)
  <1>1. CASE SameWorker(w)
    BY <1>1 DEF SameWorker
  <1>2. CASE w \in Sessions /\ OwnStep(w)
    <2>1. CASE Begin(w)
      BY <2>1 DEF Begin, TrackingActive, TypeOK, dbVars
    <2>2. CASE ~Begin(w)
      BY <1>2, <2>2 DEF OwnStep, Load, ReceivePositions, ReceiveClosed,
           ReceiveHistory, HistoryFails, FetchReduced, Answered, TypeOK
    <2> QED
      BY <2>1, <2>2
  <1>3. CASE w \in Backfills /\ BackfillStart(w)
    BY <1>3 DEF BackfillStart, TypeOK, dbVars
  <1> QED
    BY <1>1, <1>2, <1>3, WorkerStep DEF EndedWorker

LEMMA ClockMoves ==
  ASSUME [Next]_vars
  PROVE  now' = now \/ now' = now + 1
  <1>1. CASE Exchange
    BY <1>1 DEF Exchange, Tick, OpenPosition, ClosePosition, BookIncome, Publish
  <1>2. CASE ~Exchange
    BY <1>2, OnlyTheExchangeMoves
  <1> QED
    BY <1>1, <1>2

LEMMA StartedStep ==
  ASSUME TypeOK, TypeOK', [Next]_vars, NEW w \in Workers, started[w] <= now
  PROVE  started'[w] <= now'
  <1>1. now <= now'
    BY ClockMoves DEF TypeOK, Time
  <1>2. started'[w] = started[w] \/ started'[w] = 0 \/ started'[w] = now
    <2>1. CASE w \in Sessions /\ OwnStep(w)
      BY <2>1 DEF OwnStep, Load, Begin, ReceivePositions, ReceiveClosed,
           ReceiveHistory, HistoryFails, FetchReduced, TypeOK
    <2>2. CASE w \in Backfills /\ BackfillStart(w)
      BY <2>2 DEF BackfillStart, TypeOK
    <2> QED
      BY <2>1, <2>2, WorkerStep DEF SameWorker, EndedWorker
  <1> QED
    BY <1>1, <1>2 DEF TypeOK, Time

LEMMA DeletionNext == DeletionInv /\ [Next]_vars => DeletionInv'
  <1> SUFFICES ASSUME DeletionInv, [Next]_vars PROVE DeletionInv'
    OBVIOUS
  <1>1. TypeOK /\ TypeOK'
    BY NextType DEF DeletionInv
  <1>2. ASSUME NEW w \in Workers PROVE started'[w] <= now'
    BY <1>1, StartedStep DEF DeletionInv
  <1>3. ASSUME NEW w \in Workers, pc'[w] = "syncing", account'.deletedAt # 0
        PROVE  started'[w] <= account'.deletedAt
    <2>1. CASE account'.deletedAt = account.deletedAt
      <3>1. pc[w] = "syncing" /\ started'[w] = started[w]
        BY <1>1, <1>3, <2>1, SyncingStep
      <3> QED
        BY <1>3, <2>1, <3>1 DEF DeletionInv
    <2>2. CASE DeleteAccount
      <3>1. account'.deletedAt = now /\ started'[w] = started[w]
        BY <1>1, <2>2 DEF DeleteAccount, workerVars, TypeOK, Account
      <3> QED
        BY <3>1 DEF DeletionInv
    <2> QED
      BY <1>1, <2>1, <2>2, DeletedAtMoves
  <1> QED
    BY <1>1, <1>2, <1>3 DEF DeletionInv

\* Only the two commits write the ledger.
LEMMA LedgerMoves ==
  ASSUME [Next]_vars, ledger' # ledger
  PROVE  \/ \E s \in Sessions : Commit(s)
         \/ \E b \in Backfills : BackfillCommit(b)
  <1>1. ~Exchange /\ ~DeleteAccount /\ ~(\E p \in Processes : Crash(p))
        /\ ~UNCHANGED vars
    BY DEF Exchange, Tick, OpenPosition, ClosePosition, BookIncome, Publish,
         DeleteAccount, Crash, dbVars, vars
  <1>2. ASSUME NEW s \in Sessions, Sync(s) PROVE Commit(s)
    BY <1>2 DEF Sync, Load, SkipLocked, NothingDue, NoPeriod, Begin,
         ReceivePositions, ReceiveClosed, ReceiveHistory, HistoryFails,
         FetchReduced, Fail, dbVars
  <1>3. ASSUME NEW b \in Backfills, Backfill(b) PROVE BackfillCommit(b)
    BY <1>3 DEF Backfill, BackfillStart, BackfillEnd, dbVars
  <1> QED
    BY <1>1, <1>2, <1>3 DEF Next

\* After delete_account, rows of the account are only written by a worker that
\* started before it, with any number of sessions, scripts and processes.
THEOREM SpecDeletedIsFrozen == Spec => DeletedIsFrozen
  <1> DEFINE Frozen == account.deletedAt # 0 /\ ledger' # ledger
                => \E w \in Workers : /\ pc[w] = "syncing" /\ pc'[w] = "idle"
                                      /\ started[w] <= account.deletedAt
  <1>1. DeletionInv /\ [Next]_vars => [Frozen]_vars
    <2> SUFFICES ASSUME DeletionInv, [Next]_vars, account.deletedAt # 0,
                        ledger' # ledger
                 PROVE  \E w \in Workers : /\ pc[w] = "syncing" /\ pc'[w] = "idle"
                                           /\ started[w] <= account.deletedAt
      BY DEF Frozen
    <2>1. PICK w \in Workers : pc[w] = "syncing" /\ Reset(w)
      BY LedgerMoves DEF Commit, Answered, BackfillCommit, Workers
    <2>2. pc'[w] = "idle"
      BY <2>1 DEF Reset, DeletionInv, TypeOK
    <2> QED
      BY <2>1, <2>2 DEF DeletionInv
  <1> QED
    BY <1>1, DeletionInit, DeletionNext, PTL DEF Spec, DeletedIsFrozen

(***************************************************************************)
(* One process: its lock lets one sync of the account run at a time, so    *)
(* the positions a commit replaces were read before the sync began.        *)
(***************************************************************************)
OneProcess == \A s, t \in Sessions : ProcessOf[s] = ProcessOf[t]

OrderInv ==
    /\ TypeOK
    /\ OneSyncPerAccount
    /\ ledger.asOf <= now
    /\ \A s \in Sessions : pc[s] = "syncing" =>
          /\ started[s] <= now
          /\ ledger.asOf <= started[s]
          /\ "positions" \in due[s] \ answer[s].pending
             => started[s] <= answer[s].readAt /\ answer[s].readAt <= now

LEMMA OrderInit == Init => OrderInv
  <1> SUFFICES ASSUME Init PROVE OrderInv
    OBVIOUS
  <1>1. \A s \in Sessions : pc[s] # "syncing"
    BY DEF Init, Workers
  <1>2. ledger.asOf <= now
    BY DEF Init
  <1> QED
    BY <1>1, <1>2, InitType DEF OrderInv, OneSyncPerAccount

\* The commit of a sync moves the moment of the positions forward, and not
\* beyond the clock.
LEMMA CommitMovesOn ==
  ASSUME OrderInv, NEW s \in Sessions, Commit(s)
  PROVE  ledger.asOf <= ledger'.asOf /\ ledger'.asOf <= now
  <1>1. /\ TypeOK /\ s \in Workers /\ pc[s] = "syncing" /\ answer[s].pending = {}
        /\ ledger.asOf <= now /\ ledger.asOf <= started[s]
        /\ "positions" \in due[s] =>
              started[s] <= answer[s].readAt /\ answer[s].readAt <= now
    BY DEF OrderInv, Commit, Answered, Workers
  <1>2. /\ ledger.asOf \in Time /\ started[s] \in Time
        /\ answer[s].readAt \in Time /\ now \in Time
    BY <1>1 DEF TypeOK, Ledger, Answer
  <1>3. ledger'.asOf = IF "positions" \in due[s] THEN answer[s].readAt
                       ELSE ledger.asOf
    BY DEF Commit, LedgerAfter
  <1> QED
    BY <1>1, <1>2, <1>3 DEF Time

\* A step that is not a commit of a sync keeps the moment of the positions.
LEMMA AsOfMoves ==
  ASSUME TypeOK, [Next]_vars
  PROVE  ledger'.asOf = ledger.asOf \/ \E s \in Sessions : Commit(s)
  <1>1. CASE \E b \in Backfills : BackfillCommit(b)
    BY <1>1 DEF BackfillCommit, TypeOK, Ledger
  <1> QED
    BY <1>1, LedgerMoves

LEMMA OneSyncNext ==
  ASSUME OrderInv, OneProcess, [Next]_vars
  PROVE  OneSyncPerAccount'
  <1> SUFFICES ASSUME NEW s \in Sessions, NEW t \in Sessions, s # t,
                      pc'[s] = "syncing", pc'[t] = "syncing"
               PROVE  FALSE
    BY DEF OneSyncPerAccount
  <1>1. TypeOK /\ s \in Workers /\ t \in Workers
    BY DEF OrderInv, Workers
  <1>2. ASSUME NEW u \in Sessions, NEW v \in Sessions, Begin(u), u # v,
               pc'[v] = "syncing"
        PROVE  FALSE
    <2>1. pc[v] = "syncing"
      BY <1>1, <1>2 DEF Begin, TypeOK
    <2>2. Locked(ProcessOf[u])
      BY <2>1 DEF Locked, OneProcess
    <2> QED
      BY <1>2, <2>2 DEF Begin
  <1>3. pc[s] = "syncing" /\ pc[t] = "syncing"
    BY <1>1, <1>2, SyncingStep
  <1> QED
    BY <1>3 DEF OrderInv, OneSyncPerAccount

\* What a session may rely on about its own answer after a step.
LEMMA ReadNext ==
  ASSUME OrderInv, TypeOK', OneProcess, [Next]_vars, OneSyncPerAccount',
         NEW s \in Sessions, pc'[s] = "syncing"
  PROVE  /\ started'[s] <= now'
         /\ ledger'.asOf <= started'[s]
         /\ "positions" \in due'[s] \ answer'[s].pending
            => started'[s] <= answer'[s].readAt /\ answer'[s].readAt <= now'
  <1>1. TypeOK /\ s \in Workers
    BY DEF OrderInv, Workers
  <1>2. now <= now'
    BY <1>1, ClockMoves DEF TypeOK, Time
  <1>3. CASE Begin(s)
    <2>1. /\ started'[s] = now /\ now' = now /\ ledger' = ledger
          /\ due'[s] = DueStreams(s)
          /\ answer'[s].pending = DueStreams(s) \ {"balance"}
      BY <1>1, <1>3 DEF Begin, TypeOK, Answer, dbVars
    <2> QED
      BY <1>1, <2>1 DEF OrderInv, TypeOK, Time
  <1>4. CASE ~Begin(s)
    <2>1. pc[s] = "syncing" /\ started'[s] = started[s]
      BY <1>1, <1>4, SyncingStep
    <2>2. ledger'.asOf = ledger.asOf
      <3>1. ASSUME NEW t \in Sessions, Commit(t) PROVE FALSE
        <4>1. t = s
          BY <2>1, <3>1 DEF Commit, Answered, OrderInv, OneSyncPerAccount
        <4>2. pc'[s] = "idle"
          BY <1>1, <3>1, <4>1 DEF Commit, Reset, TypeOK
        <4> QED
          BY <4>2
      <3> QED
        BY <1>1, <3>1, AsOfMoves
    <2>3. /\ started[s] <= now /\ ledger.asOf <= started[s]
          /\ now \in Time /\ now' \in Time /\ started[s] \in Time
      BY <1>1, <2>1 DEF OrderInv, TypeOK
    <2>4. ASSUME "positions" \in due'[s] \ answer'[s].pending
          PROVE  started[s] <= answer'[s].readAt /\ answer'[s].readAt <= now'
      <3>1. CASE SameWorker(s)
        <4>1. /\ started[s] <= answer[s].readAt /\ answer[s].readAt <= now
              /\ answer[s].readAt \in Time
          BY <1>1, <2>1, <2>4, <3>1 DEF SameWorker, OrderInv, TypeOK, Answer
        <4> QED
          BY <1>2, <2>3, <3>1, <4>1 DEF SameWorker, Time
      <3>2. CASE OwnStep(s)
        <4>1. CASE ReceivePositions(s)
          BY <1>1, <2>3, <4>1 DEF ReceivePositions, TypeOK, Answer, Time
        <4>2. CASE ~ReceivePositions(s)
          <5>1. /\ now' = now /\ answer'[s].readAt = answer[s].readAt
                /\ "positions" \in due[s] \ answer[s].pending
            <6>1. CASE ReceiveClosed(s)
              BY <1>1, <2>4, <6>1 DEF ReceiveClosed, TypeOK, Answer
            <6>2. CASE ReceiveHistory(s)
              <7>1. PICK whole \in BOOLEAN :
                      answer' = [answer EXCEPT
                        ![s].pending = @ \ {"history"},
                        ![s].history = Returned(HistoryFacts, HistoryWindow(s)),
                        ![s].whole = whole]
                BY <6>2 DEF ReceiveHistory
              <7> QED
                BY <1>1, <2>4, <6>2, <7>1 DEF ReceiveHistory, TypeOK, Answer
            <6>3. CASE HistoryFails(s)
              BY <1>1, <2>4, <6>3 DEF HistoryFails, TypeOK, Answer
            <6>4. CASE FetchReduced(s)
              BY <1>1, <2>4, <6>4 DEF FetchReduced, Answered, TypeOK, Answer
            <6>5. ~Load(s)
              BY <2>1 DEF Load
            <6> QED
              BY <1>4, <3>2, <4>2, <6>1, <6>2, <6>3, <6>4, <6>5 DEF OwnStep
          <5> QED
            BY <2>1, <5>1 DEF OrderInv
        <4> QED
          BY <4>1, <4>2
      <3>3. s \notin Backfills
        BY DEF Workers
      <3> QED
        BY <1>1, <3>1, <3>2, <3>3, WorkerStep DEF EndedWorker
    <2> QED
      BY <1>2, <2>1, <2>2, <2>3, <2>4 DEF Time
  <1> QED
    BY <1>3, <1>4

LEMMA OrderNext == OneProcess /\ OrderInv /\ [Next]_vars => OrderInv'
  <1> SUFFICES ASSUME OneProcess, OrderInv, [Next]_vars PROVE OrderInv'
    OBVIOUS
  <1>1. TypeOK /\ TypeOK'
    BY NextType DEF OrderInv
  <1>2. OneSyncPerAccount'
    BY OneSyncNext
  <1>3. ledger'.asOf <= now'
    <2>1. now' = now \/ now' = now + 1
      BY ClockMoves
    <2>2. ledger'.asOf <= now
      BY <1>1, CommitMovesOn, AsOfMoves DEF OrderInv
    <2> QED
      BY <1>1, <2>1, <2>2 DEF TypeOK, Ledger, Time
  <1> QED
    BY <1>1, <1>2, <1>3, ReadNext DEF OrderInv

\* Within one process no two syncs of the account are ever under way.
THEOREM SpecOneSyncPerAccount == OneProcess => (Spec => []OneSyncPerAccount)
  <1> SUFFICES ASSUME OneProcess PROVE Spec => []OneSyncPerAccount
    OBVIOUS
  <1>1. OrderInv /\ [Next]_vars => OrderInv'
    BY OrderNext
  <1>2. OrderInv => OneSyncPerAccount
    BY DEF OrderInv
  <1> QED
    BY <1>1, <1>2, OrderInit, PTL DEF Spec

\* Within one process a commit never replaces the positions by ones that were
\* read earlier than those it replaces, however many sessions queue up with a
\* row they loaded before the running sync began.
THEOREM SpecPositionsNeverGoBack == OneProcess => (Spec => PositionsNeverGoBack)
  <1> SUFFICES ASSUME OneProcess PROVE Spec => PositionsNeverGoBack
    OBVIOUS
  <1>1. OrderInv /\ [Next]_vars => OrderInv'
    BY OrderNext
  <1>2. OrderInv /\ [Next]_vars => [ledger'.asOf >= ledger.asOf]_vars
    <2> SUFFICES ASSUME OrderInv, [Next]_vars PROVE ledger'.asOf >= ledger.asOf
      OBVIOUS
    <2>1. TypeOK /\ TypeOK'
      BY NextType DEF OrderInv
    <2> QED
      BY <2>1, CommitMovesOn, AsOfMoves DEF TypeOK, Ledger, Time
  <1> QED
    BY <1>1, <1>2, OrderInit, PTL DEF Spec, PositionsNeverGoBack

(***************************************************************************)
(* The completeness column: who writes it, and what of it survives.        *)
(***************************************************************************)
\* A step keeps data_completeness_details, or it is the commit of a sync or of
\* a backfill, which found it different from what it had loaded.
LEMMA DetailsMove ==
  ASSUME TypeOK, [Next]_vars
  PROVE  \/ account'.details = account.details
         \/ \E s \in Sessions : Commit(s) /\ account'.details = DetailsAfter(s)
         \/ \E b \in Backfills :
               BackfillCommit(b) /\ account'.details.cursor = row[b].details.cursor
  <1>1. /\ account \in Account
        /\ \A w \in Workers : row[w] \in Account /\ row[w].details \in Details
    BY DEF TypeOK, Account
  <1>2. CASE Exchange \/ UNCHANGED vars
    BY <1>2 DEF Exchange, Tick, OpenPosition, ClosePosition, BookIncome,
         Publish, vars, dbVars
  <1>3. CASE DeleteAccount \/ \E p \in Processes : Crash(p)
    BY <1>1, <1>3 DEF DeleteAccount, Crash, dbVars, Account
  <1>4. ASSUME NEW s \in Sessions, Sync(s), ~Commit(s)
        PROVE  account'.details = account.details
    <2>1. account' = account \/ account' = [account EXCEPT !.status = "ERROR"]
      BY <1>4 DEF Sync, Load, SkipLocked, NothingDue, NoPeriod, Begin,
         ReceivePositions, ReceiveClosed, ReceiveHistory, HistoryFails,
         FetchReduced, Fail, dbVars
    <2> QED
      BY <1>1, <2>1 DEF Account
  <1>5. ASSUME NEW s \in Sessions, Commit(s)
        PROVE  account'.details \in {account.details, DetailsAfter(s)}
    BY <1>1, <1>5 DEF Commit, Flushed, Account
  <1>6. ASSUME NEW b \in Backfills, Backfill(b), ~BackfillCommit(b)
        PROVE  account'.details = account.details
    BY <1>6 DEF Backfill, BackfillStart, BackfillEnd, dbVars
  <1>7. ASSUME NEW b \in Backfills, BackfillCommit(b)
        PROVE  \/ account'.details = account.details
               \/ account'.details.cursor = row[b].details.cursor
    <2>1. PICK whole \in BOOLEAN : account' = [account EXCEPT !.details =
            Flushed(row[b].details, BackfilledDetails(b, whole), @)]
      BY <1>7 DEF BackfillCommit
    <2>2. account'.details \in {account.details, BackfilledDetails(b, whole)}
      BY <1>1, <2>1 DEF Flushed, Account
    <2>3. BackfilledDetails(b, whole).cursor = row[b].details.cursor
      BY <1>1 DEF BackfilledDetails, Details, Workers
    <2> QED
      BY <2>2, <2>3
  <1> QED
    BY <1>2, <1>3, <1>4, <1>5, <1>6, <1>7 DEF Next

\* A worker whose transaction ends goes idle.
LEMMA CommitEnds ==
  ASSUME TypeOK, NEW w \in Workers, pc[w] = "syncing", Reset(w)
  PROVE  pc[w] = "syncing" /\ pc'[w] = "idle"
  BY DEF Reset, TypeOK

\* A sync that loaded PARTIAL commits PARTIAL, whatever its windows answered:
\* the history status of an incomplete account is only repaired by the backfill
\* or overwritten by a session that had loaded the row before it was PARTIAL.
THEOREM SpecPartialNeedsBackfill == Spec => PartialNeedsBackfill
  <1> DEFINE Kept ==
        account.details.history = "PARTIAL" /\ account'.details.history # "PARTIAL"
        => \E w \in Workers :
              /\ pc[w] = "syncing" /\ pc'[w] = "idle"
              /\ w \in Backfills \/ row[w].details.history # "PARTIAL"
  <1>1. TypeOK /\ [Next]_vars => [Kept]_vars
    <2> SUFFICES ASSUME TypeOK, [Next]_vars, account.details.history = "PARTIAL",
                        account'.details.history # "PARTIAL"
                 PROVE  \E w \in Workers :
                           /\ pc[w] = "syncing" /\ pc'[w] = "idle"
                           /\ w \in Backfills \/ row[w].details.history # "PARTIAL"
      BY DEF Kept
    <2>1. ASSUME NEW s \in Sessions, Commit(s), account'.details = DetailsAfter(s)
          PROVE  row[s].details.history # "PARTIAL" /\ pc[s] = "syncing" /\ pc'[s] = "idle"
      <3>1. HistoryStatus(s) # "PARTIAL"
        BY <2>1 DEF DetailsAfter
      <3>2. row[s].details.history # "PARTIAL"
        BY <3>1 DEF HistoryStatus
      <3> QED
        BY <2>1, <3>2, CommitEnds DEF Commit, Answered, Workers
    <2>2. ASSUME NEW b \in Backfills, BackfillCommit(b)
          PROVE  pc[b] = "syncing" /\ pc'[b] = "idle"
      BY <2>2, CommitEnds DEF BackfillCommit, Workers
    <2> QED
      BY <2>1, <2>2, DetailsMove DEF Workers
  <1> QED
    BY <1>1, InitType, NextType, PTL DEF Spec, PartialNeedsBackfill

(***************************************************************************)
(* What a sync compares: the positions it loaded are those its commit      *)
(* replaces.                                                               *)
(***************************************************************************)
\* While a sync stays under way, what it works from stays as it is.
LEMMA SyncStays ==
  ASSUME TypeOK, [Next]_vars, NEW s \in Sessions,
         pc[s] = "syncing", pc'[s] = "syncing"
  PROVE  /\ row'[s] = row[s] /\ started'[s] = started[s] /\ prior'[s] = prior[s]
         /\ due'[s] \in {due[s], due[s] \cup {"closed_positions"}}
         /\ "closed_positions" \in due'[s] \ due[s]
            => "closed_positions" \in answer'[s].pending
  <1>1. s \in Workers /\ s \notin Backfills
    BY DEF Workers
  <1>2. CASE OwnStep(s)
    <2>1. CASE FetchReduced(s)
      BY <1>1, <2>1 DEF FetchReduced, TypeOK, Answer
    <2> QED
      BY <1>2, <2>1 DEF OwnStep, Load, Begin, ReceivePositions, ReceiveClosed,
         ReceiveHistory, HistoryFails
  <1> QED
    BY <1>1, <1>2, WorkerStep DEF SameWorker, EndedWorker

\* While a sync of a process is under way, nobody else replaces the positions
\* or adds closing records.
LEMMA LedgerStays ==
  ASSUME OrderInv, [Next]_vars, NEW s \in Sessions,
         pc[s] = "syncing", pc'[s] = "syncing"
  PROVE  UNCHANGED <<ledger.positions, ledger.asOf, ledger.closed>>
  <1>1. TypeOK /\ ledger \in Ledger
    BY DEF OrderInv, TypeOK
  <1>2. ASSUME NEW t \in Sessions, Commit(t) PROVE FALSE
    <2>1. t = s
      BY <1>2 DEF Commit, Answered, OrderInv, OneSyncPerAccount
    <2> QED
      BY <1>1, <1>2, <2>1, CommitEnds DEF Commit, Answered, Workers
  <1>3. ASSUME NEW b \in Backfills, BackfillCommit(b)
        PROVE  UNCHANGED <<ledger.positions, ledger.asOf, ledger.closed>>
    BY <1>1, <1>3 DEF BackfillCommit, Ledger
  <1> QED
    BY <1>2, <1>3, LedgerMoves

Sized(positions) == \A k \in Keys : positions[k].size = 0 => positions[k] = Flat

PriorInv ==
    /\ OrderInv
    /\ now >= 1
    /\ Sized(held) /\ Sized(ledger.positions)
    /\ \A w \in Workers : Sized(answer[w].positions)
    /\ \A s \in Sessions : pc[s] = "syncing" =>
          /\ prior[s] = ledger.positions
          /\ "positions" \in due[s]
             => row[s].details.cursor["positions"] < started[s]

LEMMA PriorInit == Init => PriorInv
  <1> SUFFICES ASSUME Init PROVE PriorInv
    OBVIOUS
  <1>1. Sized(held)
    BY DEF Init, Sized, Flat
  <1>2. ledger.positions = held
    BY DEF Init
  <1>3. \A w \in Workers : Sized(answer[w].positions)
    BY DEF Init, NoAnswer, Sized
  <1>4. \A s \in Sessions : pc[s] # "syncing"
    BY DEF Init, Workers
  <1> QED
    BY <1>1, <1>2, <1>3, <1>4, OrderInit DEF PriorInv, Init, Sized

\* The exchange lists no position of size zero.
LEMMA HeldSized ==
  ASSUME TypeOK, Sized(held), [Next]_vars
  PROVE  Sized(held)'
  <1>1. held \in [Keys -> Position]
    BY DEF TypeOK
  <1>2. ASSUME NEW k \in Keys, OpenPosition(k) PROVE Sized(held)'
    <2>1. held[k].size + 1 # 0
      BY <1>1 DEF Position
    <2> QED
      BY <1>1, <1>2, <2>1 DEF OpenPosition, Sized
  <1>3. ASSUME NEW f \in ClosedFacts, ClosePosition(f) PROVE Sized(held)'
    <2>1. KeyOf[f] \in Keys
      OBVIOUS
    <2>2. held[KeyOf[f]].size # 1 => held[KeyOf[f]].size - 1 # 0
      BY <1>1, <2>1 DEF Position
    <2> QED
      BY <1>1, <1>3, <2>1, <2>2 DEF ClosePosition, Sized
  <1>4. CASE Tick \/ (\E f \in HistoryFacts : BookIncome(f)) \/ (\E f \in Facts : Publish(f))
    BY <1>4 DEF Tick, BookIncome, Publish, Sized, exchangeVars
  <1>5. CASE UNCHANGED held
    BY <1>5 DEF Sized
  <1> QED
    BY <1>2, <1>3, <1>4, <1>5, OnlyTheExchangeMoves DEF Exchange, exchangeVars

\* What a worker was last told about the positions.
LEMMA AnsweredPositions ==
  ASSUME TypeOK, [Next]_vars, NEW w \in Workers
  PROVE  \/ answer'[w].positions = answer[w].positions
         \/ answer'[w] = NoAnswer
         \/ w \in Sessions /\ ReceivePositions(w)
  <1>1. CASE w \in Sessions /\ OwnStep(w)
    <2>1. CASE ReceiveHistory(w)
      <3>1. PICK whole \in BOOLEAN :
              answer' = [answer EXCEPT
                ![w].pending = @ \ {"history"},
                ![w].history = Returned(HistoryFacts, HistoryWindow(w)),
                ![w].whole = whole]
        BY <2>1 DEF ReceiveHistory
      <3> QED
        BY <3>1 DEF TypeOK, Answer
    <2>2. CASE Load(w) \/ Begin(w) \/ ReceiveClosed(w) \/ HistoryFails(w) \/ FetchReduced(w)
      BY <2>2 DEF Load, Begin, ReceiveClosed, HistoryFails, FetchReduced, TypeOK, Answer
    <2> QED
      BY <1>1, <2>1, <2>2 DEF OwnStep
  <1>2. CASE w \in Backfills /\ BackfillStart(w)
    BY <1>2 DEF BackfillStart
  <1> QED
    BY <1>1, <1>2, WorkerStep DEF SameWorker, EndedWorker

LEMMA AnswerSized ==
  ASSUME TypeOK, Sized(held), [Next]_vars, NEW w \in Workers,
         Sized(answer[w].positions)
  PROVE  Sized(answer[w].positions)'
  <1>1. CASE answer'[w] = NoAnswer
    BY <1>1 DEF NoAnswer, Sized
  <1>2. CASE w \in Sessions /\ ReceivePositions(w)
    <2>1. answer'[w].positions = held
      BY <1>2 DEF ReceivePositions, TypeOK, Answer
    <2> QED
      BY <2>1 DEF Sized
  <1> QED
    BY <1>1, <1>2, AnsweredPositions DEF Sized

\* A commit installs an answer or keeps the positions.
LEMMA PositionsMove ==
  ASSUME TypeOK, [Next]_vars
  PROVE  \/ ledger'.positions = ledger.positions /\ ledger'.asOf = ledger.asOf
         \/ \E s \in Sessions :
               /\ Commit(s) /\ "positions" \in due[s]
               /\ ledger'.positions = answer[s].positions
               /\ ledger'.asOf = answer[s].readAt
  <1>1. ASSUME NEW b \in Backfills, BackfillCommit(b)
        PROVE  ledger'.positions = ledger.positions /\ ledger'.asOf = ledger.asOf
    BY <1>1 DEF BackfillCommit, TypeOK, Ledger
  <1>2. ASSUME NEW s \in Sessions, Commit(s), "positions" \notin due[s]
        PROVE  ledger'.positions = ledger.positions /\ ledger'.asOf = ledger.asOf
    BY <1>2 DEF Commit, LedgerAfter
  <1>3. ASSUME NEW s \in Sessions, Commit(s), "positions" \in due[s]
        PROVE  /\ ledger'.positions = answer[s].positions
               /\ ledger'.asOf = answer[s].readAt
    BY <1>3 DEF Commit, LedgerAfter, Installed
  <1> QED
    BY <1>1, <1>2, <1>3, LedgerMoves

LEMMA PriorNext == OneProcess /\ PriorInv /\ [Next]_vars => PriorInv'
  <1> SUFFICES ASSUME OneProcess, PriorInv, [Next]_vars PROVE PriorInv'
    OBVIOUS
  <1>1. OrderInv /\ TypeOK /\ OrderInv'
    BY OrderNext DEF PriorInv, OrderInv
  <1>2. now' >= 1
    BY <1>1, ClockMoves DEF PriorInv, TypeOK, Time
  <1>3. Sized(held)'
    BY <1>1, HeldSized DEF PriorInv
  <1>4. \A w \in Workers : Sized(answer[w].positions)'
    BY <1>1, AnswerSized DEF PriorInv
  <1>5. Sized(ledger.positions)'
    BY <1>1, PositionsMove DEF PriorInv, Sized, Workers
  <1>6. ASSUME NEW s \in Sessions, pc'[s] = "syncing"
        PROVE  /\ prior'[s] = ledger'.positions
               /\ "positions" \in due'[s]
                  => row'[s].details.cursor["positions"] < started'[s]
    <2>1. CASE pc[s] = "syncing"
      <3>1. ledger'.positions = ledger.positions
        BY <1>1, <1>6, <2>1, LedgerStays
      <3> QED
        BY <1>1, <1>6, <2>1, <3>1, SyncStays DEF PriorInv
    <2>2. CASE Begin(s)
      <3>1. /\ prior'[s] = ledger.positions /\ ledger' = ledger
            /\ due'[s] = DueStreams(s) /\ started'[s] = now /\ row'[s] = row[s]
        BY <1>1, <2>2 DEF Begin, TypeOK, Workers, dbVars
      <3>2. row[s].details.cursor["positions"] \in Time
        BY <1>1 DEF TypeOK, Account, Details, Workers, Streams
      <3>3. ASSUME "positions" \in due'[s]
            PROVE  row[s].details.cursor["positions"] < now
        <4>1. \/ row[s].details.cursor["positions"] = 0
              \/ now - row[s].details.cursor["positions"] >= Interval["positions"]
          BY <3>1, <3>3 DEF DueStreams, StreamDue
        <4>2. now \in Time /\ now >= 1 /\ Interval["positions"] \in Nat \ {0}
          BY <1>1 DEF PriorInv, TypeOK, Streams
        <4> QED
          BY <3>2, <4>1, <4>2 DEF Time
      <3> QED
        BY <3>1, <3>3
    <2> QED
      BY <1>1, <1>6, <2>1, <2>2, SyncingStep DEF Workers
  <1> QED
    BY <1>1, <1>2, <1>3, <1>4, <1>5, <1>6 DEF PriorInv

\* Within one process a position that a commit drops leaves a closing record,
\* or the issue that it disappeared, in the same commit: a drop is a reduction,
\* so the sync also read the closing records and wrote the check's verdict, and
\* that verdict is never taken for an unchanged column.
THEOREM SpecNoSilentDisappearance == OneProcess => (Spec => NoSilentDisappearance)
  <1> SUFFICES ASSUME OneProcess PROVE Spec => NoSilentDisappearance
    OBVIOUS
  <1> DEFINE Traced ==
        \A k \in Keys :
          ledger.positions[k] # Flat /\ ledger'.positions[k] = Flat
          => \/ k \in account'.details.issues
             \/ \E f \in ledger'.closed : KeyOf[f] = k
  <1>1. PriorInv /\ [Next]_vars => PriorInv'
    BY PriorNext
  <1>2. PriorInv /\ [Next]_vars => [Traced]_vars
    <2> SUFFICES ASSUME PriorInv, [Next]_vars, NEW k \in Keys,
                        ledger.positions[k] # Flat, ledger'.positions[k] = Flat
                 PROVE  \/ k \in account'.details.issues
                        \/ \E f \in ledger'.closed : KeyOf[f] = k
      BY DEF Traced
    <2>1. TypeOK
      BY DEF PriorInv, OrderInv
    <2>2. PICK s \in Sessions : /\ Commit(s) /\ "positions" \in due[s]
                                /\ ledger'.positions = answer[s].positions
      BY <2>1, PositionsMove
    <2>3. /\ s \in Workers /\ pc[s] = "syncing" /\ prior[s] = ledger.positions
          /\ row[s].details.cursor["positions"] < started[s]
          /\ row[s].details \in Details /\ started[s] \in Time
      BY <2>1, <2>2 DEF Commit, Answered, PriorInv, Workers, TypeOK, Account
    <2>4. "closed_positions" \in due[s]
      <3>1. prior[s][k].size > 0
        BY <2>1, <2>3 DEF PriorInv, Sized, TypeOK, Position
      <3>2. answer[s].positions[k].size < prior[s][k].size
        BY <2>2, <3>1 DEF Flat
      <3> QED
        BY <2>2, <3>1, <3>2 DEF Commit, ReductionUnread, Reduced
    <2>5. account'.details = DetailsAfter(s)
      <3>1. DetailsAfter(s).cursor["positions"] = started[s]
        BY <2>2 DEF DetailsAfter, Streams
      <3>2. DetailsAfter(s) # row[s].details
        BY <2>3, <3>1 DEF Time, Details, Streams
      <3>3. account \in Account
        BY <2>1 DEF TypeOK
      <3> QED
        BY <2>2, <3>2, <3>3 DEF Commit, Flushed, Account
    <2>6. account'.details.issues = Disappeared(s)
      BY <2>2, <2>4, <2>5 DEF DetailsAfter
    <2>7. answer[s].closed \subseteq ledger'.closed
      BY <2>2 DEF Commit, LedgerAfter
    <2> QED
      BY <2>2, <2>3, <2>6, <2>7 DEF Disappeared
  <1> QED
    BY <1>1, <1>2, PriorInit, PTL DEF Spec, NoSilentDisappearance

(***************************************************************************)
(* The reductions of a position that is shown as held. A closing record    *)
(* the exchange lists late lies before the overlap of the closed cursor,   *)
(* but not before the open time of the position it reduced; and a position *)
(* that is not shown yet was opened after the shown ones were read, which  *)
(* is no earlier than the overlap before any cursor.                       *)
(***************************************************************************)
\* Positions fall due again before a closed cursor can run further ahead of
\* them than the overlap; config.py: 15 seconds, and the overlap is 300.
PositionsOften == Interval["positions"] <= Overlap + 1

\* A position of `later' was already open in `earlier', or opened from `moment' on.
Continues(later, earlier, moment) ==
    \A k \in Keys : later[k] # Flat =>
        \/ earlier[k] # Flat /\ earlier[k].opened <= later[k].opened
        \/ later[k].opened >= moment

Near(details) ==
    /\ details.cursor["positions"] <= ledger.asOf
    /\ details.cursor["closed_positions"] <= ledger.asOf + Overlap

\* f reduced the position that is shown as held.
OfHeld(f) ==
    /\ ReportsOpenTime /\ ledger.positions[KeyOf[f]] # Flat
    /\ event[f] >= ledger.positions[KeyOf[f]].opened

HeldBefore(details) ==
    \A f \in ClosedFacts :
        /\ OfHeld(f) /\ published[f] # 0
        /\ published[f] < details.cursor["closed_positions"]
        => f \in ledger.closed

\* The closing records in hand hold the reductions of the shown positions, and
\* of every position opened since those were read.
AnswerHeld(s) ==
    \A f \in ClosedFacts :
        /\ "closed_positions" \in due[s] \ answer[s].pending
        /\ published[f] # 0 /\ published[f] < started[s]
        /\ OfHeld(f) \/ event[f] >= ledger.asOf
        => f \in ledger.closed \cup answer[s].closed

SyncHeld(s) ==
    /\ "positions" \notin due[s] => started[s] <= ledger.asOf + Overlap
    /\ "positions" \in due[s] \ answer[s].pending =>
          /\ Continues(held, answer[s].positions, answer[s].readAt)
          /\ Continues(answer[s].positions, ledger.positions, ledger.asOf)
    /\ AnswerHeld(s)

HeldInv ==
    /\ PriorInv /\ CoverInv
    /\ Near(account.details) /\ HeldBefore(account.details)
    /\ \A w \in Workers : Near(row[w].details) /\ HeldBefore(row[w].details)
    /\ Continues(held, ledger.positions, ledger.asOf)
    /\ \A s \in Sessions : pc[s] = "syncing" => SyncHeld(s)

LEMMA FreshHeld ==
  ASSUME TypeOK
  PROVE  Near(FreshAccount.details) /\ HeldBefore(FreshAccount.details)
  <1>1. \A stream \in Streams : FreshAccount.details.cursor[stream] = 0
    BY DEF FreshAccount
  <1>2. ledger.asOf \in Nat /\ \A f \in ClosedFacts : published[f] \in Nat
    BY DEF TypeOK, Ledger, Time, Facts
  <1> QED
    BY <1>1, <1>2 DEF Near, HeldBefore, Streams

LEMMA HeldInit == Init => HeldInv
  <1> SUFFICES ASSUME Init PROVE HeldInv
    OBVIOUS
  <1>1. TypeOK /\ PriorInv /\ CoverInv
    BY InitType, PriorInit, CoverInit
  <1>2. account = FreshAccount /\ \A w \in Workers : row[w] = FreshAccount
    BY DEF Init
  <1>3. Near(FreshAccount.details) /\ HeldBefore(FreshAccount.details)
    BY <1>1, FreshHeld
  <1>4. Continues(held, ledger.positions, ledger.asOf)
    <2>1. ledger.positions = held /\ \A k \in Keys : held[k].opened \in Int
      BY <1>1 DEF Init, TypeOK, Position, Time
    <2> QED
      BY <2>1 DEF Continues
  <1>5. \A s \in Sessions : pc[s] # "syncing"
    BY DEF Init, Workers
  <1> QED
    BY <1>1, <1>2, <1>3, <1>4, <1>5 DEF HeldInv

\* What a step may do to a position of the exchange.
LEMMA HeldMoves ==
  ASSUME TypeOK, [Next]_vars, NEW k \in Keys
  PROVE  \/ held'[k] = Flat
         \/ held[k] # Flat /\ held'[k].opened = held[k].opened
         \/ held'[k].opened = now
  <1>1. held \in [Keys -> Position]
    BY DEF TypeOK
  <1>2. ASSUME NEW j \in Keys, OpenPosition(j), k = j
        PROVE  \/ held[k] # Flat /\ held'[k].opened = held[k].opened
               \/ held'[k].opened = now
    BY <1>1, <1>2 DEF OpenPosition
  <1>3. ASSUME NEW j \in Keys, OpenPosition(j), k # j PROVE held'[k] = held[k]
    BY <1>1, <1>3 DEF OpenPosition
  <1>4. ASSUME NEW f \in ClosedFacts, ClosePosition(f), k = KeyOf[f]
        PROVE  \/ held'[k] = Flat
               \/ held[k] # Flat /\ held'[k].opened = held[k].opened
    BY <1>1, <1>4 DEF ClosePosition, Flat
  <1>5. ASSUME NEW f \in ClosedFacts, ClosePosition(f), k # KeyOf[f]
        PROVE  held'[k] = held[k]
    BY <1>1, <1>5 DEF ClosePosition
  <1>6. CASE UNCHANGED held
    BY <1>6
  <1> QED
    BY <1>2, <1>3, <1>4, <1>5, <1>6, OnlyTheExchangeMoves
       DEF Exchange, Tick, BookIncome, Publish, exchangeVars

LEMMA ContinuesOn ==
  ASSUME TypeOK, [Next]_vars, NEW earlier \in [Keys -> Position],
         NEW moment \in Time, moment <= now, Continues(held, earlier, moment)
  PROVE  Continues(held', earlier, moment)
  <1> SUFFICES ASSUME NEW k \in Keys, held'[k] # Flat
               PROVE  \/ earlier[k] # Flat /\ earlier[k].opened <= held'[k].opened
                      \/ held'[k].opened >= moment
    BY DEF Continues
  <1>1. CASE held[k] # Flat /\ held'[k].opened = held[k].opened
    BY <1>1 DEF Continues
  <1>2. CASE held'[k].opened = now
    BY <1>2
  <1> QED
    BY <1>1, <1>2, HeldMoves

\* A fact published before a moment of the past was so before this step.
LEMMA PastFacts ==
  ASSUME TypeOK, TypeOK', FactsMove, NEW f \in Facts, NEW moment \in Time,
         moment <= now, published'[f] # 0, published'[f] < moment
  PROVE  published'[f] = published[f] /\ event'[f] = event[f]
  <1>1. published'[f] # now
    BY DEF TypeOK, Time
  <1> QED
    BY <1>1 DEF FactsMove

LEMMA AsOfGrows ==
  ASSUME OrderInv, OrderInv', [Next]_vars
  PROVE  ledger.asOf <= ledger'.asOf /\ ledger.asOf \in Time /\ ledger'.asOf \in Time
  BY CommitMovesOn, AsOfMoves DEF OrderInv, TypeOK, Ledger, Time

LEMMA ClosedGrows ==
  ASSUME TypeOK, [Next]_vars
  PROVE  ledger.closed \subseteq ledger'.closed
  <1>1. ASSUME NEW s \in Sessions, Commit(s)
        PROVE  ledger.closed \subseteq ledger'.closed
    BY <1>1 DEF Commit, LedgerAfter
  <1>2. ASSUME NEW b \in Backfills, BackfillCommit(b)
        PROVE  ledger'.closed = ledger.closed
    BY <1>2 DEF BackfillCommit, TypeOK, Ledger
  <1> QED
    BY <1>1, <1>2, LedgerMoves

\* A reduction of a position that a commit shows for the first time happened
\* since the shown ones were read, or reduced a position shown before.
LEMMA HeldBeforeStep ==
  ASSUME HeldInv, TypeOK, [Next]_vars, NEW f \in ClosedFacts,
         event'[f] = event[f], OfHeld(f)'
  PROVE  OfHeld(f) \/ event[f] >= ledger.asOf
  <1>1. KeyOf[f] \in Keys /\ f \in Facts
    BY DEF Facts
  <1>2. CASE ledger'.positions = ledger.positions
    BY <1>2 DEF OfHeld
  <1>3. ASSUME NEW s \in Sessions, Commit(s), "positions" \in due[s],
               ledger'.positions = answer[s].positions
        PROVE  OfHeld(f) \/ event[f] >= ledger.asOf
    <2>1. s \in Workers /\ Continues(answer[s].positions, ledger.positions, ledger.asOf)
      BY <1>3 DEF HeldInv, SyncHeld, Commit, Answered, Workers
    <2>2. /\ answer[s].positions[KeyOf[f]] # Flat
          /\ event[f] >= answer[s].positions[KeyOf[f]].opened
      BY <1>3 DEF OfHeld
    <2>3. /\ event[f] \in Time /\ ledger.asOf \in Time
          /\ answer[s].positions[KeyOf[f]].opened \in Time
          /\ ledger.positions[KeyOf[f]].opened \in Time
      BY <1>1, <2>1 DEF TypeOK, Answer, Ledger, Position
    <2>4. ReportsOpenTime
      BY DEF OfHeld
    <2> QED
      BY <1>1, <2>1, <2>2, <2>3, <2>4 DEF Continues, OfHeld, Time
  <1> QED
    BY <1>2, <1>3, PositionsMove

\* Cursors that held before a step hold after it.
LEMMA KeptHeld ==
  ASSUME HeldInv, TypeOK', OrderInv', FactsMove, [Next]_vars,
         NEW details \in Details,
         CursorOK(details), Near(details), HeldBefore(details)
  PROVE  /\ details.cursor["positions"] <= ledger'.asOf
         /\ details.cursor["closed_positions"] <= ledger'.asOf + Overlap
         /\ \A f \in ClosedFacts :
               /\ OfHeld(f)' /\ published'[f] # 0
               /\ published'[f] < details.cursor["closed_positions"]
               => f \in ledger'.closed
  <1>1. /\ TypeOK /\ OrderInv /\ ledger \in Ledger
        /\ details.cursor["positions"] \in Time
        /\ details.cursor["closed_positions"] \in Time
    BY DEF HeldInv, PriorInv, OrderInv, TypeOK, Details, Streams
  <1>2. /\ details.cursor["positions"] <= ledger'.asOf
        /\ details.cursor["closed_positions"] <= ledger'.asOf + Overlap
    BY <1>1, AsOfGrows DEF Near, Time
  <1>3. ASSUME NEW f \in ClosedFacts, OfHeld(f)', published'[f] # 0,
               published'[f] < details.cursor["closed_positions"]
        PROVE  f \in ledger'.closed
    <2>1. /\ f \in Facts /\ StreamOf(f) = "closed_positions"
          /\ details.cursor["closed_positions"] <= now
      BY DEF Facts, StreamOf, CursorOK, Streams
    <2>2. published'[f] = published[f] /\ event'[f] = event[f]
      BY <1>1, <1>3, <2>1, PastFacts
    <2>3. CASE OfHeld(f)
      BY <1>1, <1>3, <2>2, <2>3, ClosedGrows DEF HeldBefore
    <2>4. CASE event[f] >= ledger.asOf
      <3>1. /\ event[f] \in Time /\ published[f] \in Time /\ ledger.asOf \in Time
        BY <1>1, <2>1 DEF TypeOK, Ledger
      <3>2. Prompt(f)
        BY <1>1, <1>3, <2>2, <2>4, <3>1 DEF Prompt, Near, Time
      <3>3. f \in Stored
        BY <1>3, <2>1, <2>2, <3>2 DEF CursorOK, Covers
      <3>4. f \in ledger.closed
        BY <1>1, <3>3 DEF Stored, Ledger
      <3> QED
        BY <1>1, <3>4, ClosedGrows
    <2> QED
      BY <1>1, <1>3, <2>2, <2>3, <2>4, HeldBeforeStep
  <1> QED
    BY <1>2, <1>3

\* A commit writes a closed cursor whose reductions it stores.
LEMMA CommitHeld ==
  ASSUME HeldInv, OrderInv', [Next]_vars, NEW s \in Sessions, Commit(s),
         "closed_positions" \in due[s]
  PROVE  \A f \in ClosedFacts :
            /\ OfHeld(f)' /\ published'[f] # 0 /\ published'[f] < started[s]
            => f \in ledger'.closed
  <1>1. /\ TypeOK /\ pc[s] = "syncing" /\ answer[s].pending = {}
        /\ UNCHANGED exchangeVars
        /\ ledger'.closed = ledger.closed \cup answer[s].closed
    BY DEF HeldInv, PriorInv, OrderInv, Commit, Answered, LedgerAfter
  <1>2. ASSUME NEW f \in ClosedFacts, OfHeld(f)', published'[f] # 0,
               published'[f] < started[s]
        PROVE  f \in ledger'.closed
    <2>1. event'[f] = event[f] /\ published'[f] = published[f]
      BY <1>1 DEF exchangeVars
    <2>2. OfHeld(f) \/ event[f] >= ledger.asOf
      BY <1>1, <1>2, <2>1, HeldBeforeStep
    <2> QED
      BY <1>1, <1>2, <2>1, <2>2 DEF HeldInv, SyncHeld, AnswerHeld
  <1> QED
    BY <1>2

LEMMA CommitNear ==
  ASSUME HeldInv, OrderInv', [Next]_vars, NEW s \in Sessions, Commit(s)
  PROVE  /\ DetailsAfter(s).cursor["positions"] <= ledger'.asOf
         /\ DetailsAfter(s).cursor["closed_positions"] <= ledger'.asOf + Overlap
  <1>1. /\ OrderInv /\ TypeOK /\ s \in Workers /\ pc[s] = "syncing"
        /\ answer[s].pending = {}
    BY DEF HeldInv, PriorInv, OrderInv, Commit, Answered, Workers
  <1>2. /\ DetailsAfter(s).cursor["positions"] =
             IF "positions" \in due[s] THEN started[s]
             ELSE row[s].details.cursor["positions"]
        /\ DetailsAfter(s).cursor["closed_positions"] =
             IF "closed_positions" \in due[s] THEN started[s]
             ELSE row[s].details.cursor["closed_positions"]
    BY DEF DetailsAfter, Streams
  <1>3. /\ Near(row[s].details) /\ SyncHeld(s)
        /\ "positions" \in due[s] => started[s] <= answer[s].readAt
    BY <1>1 DEF HeldInv, OrderInv
  <1>4. ledger'.asOf = IF "positions" \in due[s] THEN answer[s].readAt
                       ELSE ledger.asOf
    BY DEF Commit, LedgerAfter
  <1>5. /\ started[s] \in Time /\ ledger.asOf \in Time /\ ledger'.asOf \in Time
        /\ ledger.asOf <= ledger'.asOf
        /\ row[s].details.cursor["positions"] \in Time
        /\ row[s].details.cursor["closed_positions"] \in Time
    BY <1>1, AsOfGrows DEF TypeOK, Account, Details, Streams
  <1>6. started[s] <= ledger'.asOf + Overlap
    BY <1>3, <1>4, <1>5 DEF SyncHeld, Time
  <1>7. "positions" \in due[s] => started[s] <= ledger'.asOf
    BY <1>3, <1>4
  <1> QED
    BY <1>2, <1>3, <1>5, <1>6, <1>7 DEF Near, Time

LEMMA AccountHeldNext ==
  ASSUME HeldInv, TypeOK', OrderInv', FactsMove, [Next]_vars
  PROVE  Near(account.details)' /\ HeldBefore(account.details)'
  <1>1. /\ TypeOK /\ account.details \in Details
        /\ \A w \in Workers : row[w].details \in Details
    BY DEF HeldInv, PriorInv, OrderInv, TypeOK, Account
  <1>2. ASSUME NEW details \in Details,
               CursorOK(details), Near(details), HeldBefore(details),
               account'.details.cursor["positions"] = details.cursor["positions"],
               account'.details.cursor["closed_positions"]
                 = details.cursor["closed_positions"]
        PROVE  Near(account.details)' /\ HeldBefore(account.details)'
    <2>1. /\ details.cursor["positions"] <= ledger'.asOf
          /\ details.cursor["closed_positions"] <= ledger'.asOf + Overlap
          /\ \A f \in ClosedFacts :
               /\ OfHeld(f)' /\ published'[f] # 0
               /\ published'[f] < details.cursor["closed_positions"]
               => f \in ledger'.closed
      BY <1>2, KeptHeld
    <2> QED
      BY <1>2, <2>1 DEF Near, HeldBefore
  <1>3. CASE account'.details = account.details
    BY <1>1, <1>2, <1>3 DEF HeldInv, CoverInv
  <1>4. ASSUME NEW b \in Backfills, account'.details.cursor = row[b].details.cursor
        PROVE  Near(account.details)' /\ HeldBefore(account.details)'
    <2>1. /\ b \in Workers /\ CursorOK(row[b].details)
          /\ Near(row[b].details) /\ HeldBefore(row[b].details)
      BY DEF Workers, HeldInv, CoverInv
    <2> QED
      BY <1>1, <1>2, <1>4, <2>1
  <1>5. ASSUME NEW s \in Sessions, Commit(s), account'.details = DetailsAfter(s)
        PROVE  Near(account.details)' /\ HeldBefore(account.details)'
    <2>1. Near(account.details)'
      BY <1>5, CommitNear DEF Near
    <2>2. DetailsAfter(s).cursor["closed_positions"] =
             IF "closed_positions" \in due[s] THEN started[s]
             ELSE row[s].details.cursor["closed_positions"]
      BY DEF DetailsAfter, Streams
    <2>3. CASE "closed_positions" \in due[s]
      <3>1. \A f \in ClosedFacts :
               OfHeld(f)' /\ published'[f] # 0 /\ published'[f] < started[s]
               => f \in ledger'.closed
        BY <1>5, <2>3, CommitHeld
      <3>2. account'.details.cursor["closed_positions"] = started[s]
        BY <1>5, <2>2, <2>3
      <3> QED
        BY <2>1, <3>1, <3>2 DEF HeldBefore
    <2>4. CASE "closed_positions" \notin due[s]
      <3>1. /\ s \in Workers /\ CursorOK(row[s].details)
            /\ Near(row[s].details) /\ HeldBefore(row[s].details)
        BY DEF Workers, HeldInv, CoverInv
      <3>2. \A f \in ClosedFacts :
               /\ OfHeld(f)' /\ published'[f] # 0
               /\ published'[f] < row[s].details.cursor["closed_positions"]
               => f \in ledger'.closed
        BY <1>1, <3>1, KeptHeld
      <3>3. account'.details.cursor["closed_positions"]
              = row[s].details.cursor["closed_positions"]
        BY <1>5, <2>2, <2>4
      <3> QED
        BY <2>1, <3>2, <3>3 DEF HeldBefore
    <2> QED
      BY <2>3, <2>4
  <1> QED
    BY <1>1, <1>3, <1>4, <1>5, DetailsMove

\* A worker's copy of the account row is the one it had, the stored one, or none.
LEMMA RowMoves ==
  ASSUME TypeOK, [Next]_vars, NEW w \in Workers
  PROVE  row'[w] = row[w] \/ row'[w] = account \/ row'[w] = FreshAccount
  <1>1. CASE w \in Sessions /\ OwnStep(w)
    BY <1>1 DEF OwnStep, Load, Begin, ReceivePositions, ReceiveClosed,
         ReceiveHistory, HistoryFails, FetchReduced, TypeOK
  <1>2. CASE w \in Backfills /\ BackfillStart(w)
    BY <1>2 DEF BackfillStart, TypeOK
  <1> QED
    BY <1>1, <1>2, WorkerStep DEF SameWorker, EndedWorker

LEMMA RowHeldNext ==
  ASSUME HeldInv, TypeOK', OrderInv', FactsMove, [Next]_vars, NEW w \in Workers
  PROVE  Near(row[w].details)' /\ HeldBefore(row[w].details)'
  <1>1. /\ TypeOK /\ account.details \in Details /\ row[w].details \in Details
    BY DEF HeldInv, PriorInv, OrderInv, TypeOK, Account
  <1>2. ASSUME NEW details \in Details, row'[w].details = details,
               CursorOK(details), Near(details), HeldBefore(details)
        PROVE  Near(row[w].details)' /\ HeldBefore(row[w].details)'
    <2>1. /\ details.cursor["positions"] <= ledger'.asOf
          /\ details.cursor["closed_positions"] <= ledger'.asOf + Overlap
          /\ \A f \in ClosedFacts :
               /\ OfHeld(f)' /\ published'[f] # 0
               /\ published'[f] < details.cursor["closed_positions"]
               => f \in ledger'.closed
      BY <1>2, KeptHeld
    <2> QED
      BY <1>2, <2>1 DEF Near, HeldBefore
  <1>3. CASE row'[w] = row[w]
    BY <1>1, <1>2, <1>3 DEF HeldInv, CoverInv
  <1>4. CASE row'[w] = account
    BY <1>1, <1>2, <1>4 DEF HeldInv, CoverInv
  <1>5. CASE row'[w] = FreshAccount
    <2>1. FreshAccount.details \in Details /\ CursorOK(FreshAccount.details)
      BY <1>1, FreshCursor, FreshType DEF Account
    <2>2. Near(FreshAccount.details) /\ HeldBefore(FreshAccount.details)
      BY <1>1, FreshHeld
    <2> QED
      BY <1>2, <1>5, <2>1, <2>2
  <1> QED
    BY <1>1, <1>3, <1>4, <1>5, RowMoves

LEMMA ContinuesNext ==
  ASSUME HeldInv, [Next]_vars
  PROVE  Continues(held, ledger.positions, ledger.asOf)'
  <1>1. /\ TypeOK /\ OrderInv /\ ledger.positions \in [Keys -> Position]
        /\ ledger.asOf \in Time /\ ledger.asOf <= now
    BY DEF HeldInv, PriorInv, OrderInv, TypeOK, Ledger
  <1>2. CASE ledger'.positions = ledger.positions /\ ledger'.asOf = ledger.asOf
    <2>1. Continues(held', ledger.positions, ledger.asOf)
      BY <1>1, ContinuesOn DEF HeldInv
    <2> QED
      BY <1>2, <2>1 DEF Continues
  <1>3. ASSUME NEW s \in Sessions, Commit(s), "positions" \in due[s],
               ledger'.positions = answer[s].positions,
               ledger'.asOf = answer[s].readAt
        PROVE  Continues(held, ledger.positions, ledger.asOf)'
    <2>1. held' = held
      BY <1>3 DEF Commit, exchangeVars
    <2>2. Continues(held, answer[s].positions, answer[s].readAt)
      BY <1>3 DEF HeldInv, SyncHeld, Commit, Answered
    <2> QED
      BY <1>3, <2>1, <2>2 DEF Continues
  <1> QED
    BY <1>1, <1>2, <1>3, PositionsMove

\* Either an answer of the exchange arrives, or what is in hand stays in hand.
LEMMA AnswerStays ==
  ASSUME TypeOK, [Next]_vars, NEW s \in Sessions,
         pc[s] = "syncing", pc'[s] = "syncing"
  PROVE  /\ "positions" \in due'[s] \ answer'[s].pending =>
              \/ ReceivePositions(s)
              \/ /\ "positions" \in due[s] \ answer[s].pending
                 /\ answer'[s].positions = answer[s].positions
                 /\ answer'[s].readAt = answer[s].readAt
         /\ "closed_positions" \in due'[s] \ answer'[s].pending =>
              \/ ReceiveClosed(s)
              \/ /\ "closed_positions" \in due[s] \ answer[s].pending
                 /\ answer'[s].closed = answer[s].closed
  <1>1. s \in Workers /\ s \notin Backfills /\ answer[s] \in Answer
    BY DEF Workers, TypeOK
  <1>2. CASE SameWorker(s)
    BY <1>2 DEF SameWorker
  <1>3. CASE ReceivePositions(s)
    BY <1>1, <1>3 DEF ReceivePositions, TypeOK, Answer
  <1>4. CASE ReceiveClosed(s)
    BY <1>1, <1>4 DEF ReceiveClosed, TypeOK, Answer
  <1>5. CASE ReceiveHistory(s)
    <2>1. PICK whole \in BOOLEAN :
            answer' = [answer EXCEPT
              ![s].pending = @ \ {"history"},
              ![s].history = Returned(HistoryFacts, HistoryWindow(s)),
              ![s].whole = whole]
      BY <1>5 DEF ReceiveHistory
    <2> QED
      BY <1>1, <1>5, <2>1 DEF ReceiveHistory, TypeOK, Answer
  <1>6. CASE HistoryFails(s)
    BY <1>1, <1>6 DEF HistoryFails, TypeOK, Answer
  <1>7. CASE FetchReduced(s)
    BY <1>1, <1>7 DEF FetchReduced, Answered, TypeOK, Answer
  <1>8. ~Load(s) /\ ~Begin(s)
    BY DEF Load, Begin
  <1> QED
    BY <1>1, <1>2, <1>3, <1>4, <1>5, <1>6, <1>7, <1>8, WorkerStep
       DEF EndedWorker, OwnStep

\* A sync that begins without reading the positions begins soon after they
\* were read.
LEMMA BeginsNear ==
  ASSUME HeldInv, PositionsOften, NEW s \in Sessions, Begin(s),
         "positions" \notin DueStreams(s)
  PROVE  now <= ledger.asOf + Overlap
  <1>1. TypeOK /\ s \in Workers /\ Near(row[s].details)
    BY DEF HeldInv, PriorInv, OrderInv, Workers
  <1>2. ~(now - row[s].details.cursor["positions"] >= Interval["positions"])
    BY DEF DueStreams, StreamDue, Streams
  <1>3. /\ now \in Time /\ ledger.asOf \in Time /\ Interval["positions"] \in Nat
        /\ row[s].details.cursor["positions"] \in Time
    BY <1>1 DEF TypeOK, Ledger, Account, Details, Streams
  <1>4. row[s].details.cursor["positions"] <= ledger.asOf
    BY <1>1 DEF Near
  <1> QED
    BY <1>2, <1>3, <1>4 DEF PositionsOften, Time

\* The query for closing records reaches back to the overlap before the moment
\* of the shown positions, and to the open time of each of them.
LEMMA ClosedAnswerHeld ==
  ASSUME HeldInv, ~Polymarket, NEW s \in Sessions, pc[s] = "syncing",
         NEW f \in ClosedFacts, published[f] # 0, published[f] < started[s],
         OfHeld(f) \/ event[f] >= ledger.asOf
  PROVE  f \in Returned(ClosedFacts, ClosedWindow(s))
  <1>1. /\ TypeOK /\ Chronology /\ s \in Workers /\ f \in Facts
        /\ Near(row[s].details) /\ prior[s] = ledger.positions
        /\ KeyOf[f] \in Keys
    BY DEF HeldInv, PriorInv, CoverInv, Workers, Facts
  <1>2. /\ event[f] \in Time /\ published[f] \in Time /\ started[s] \in Time
        /\ ledger.asOf \in Time
        /\ row[s].details.cursor["closed_positions"] \in Time
    BY <1>1 DEF TypeOK, Ledger, Account, Details, Streams
  <1>3. event[f] \in 1 .. started[s]
    BY <1>1, <1>2 DEF Chronology, Time
  <1>4. event[f] >= ledger.asOf
        => event[f] >= row[s].details.cursor["closed_positions"] - Overlap
    BY <1>1, <1>2 DEF Near, Time
  <1>5. OfHeld(f) => \E k \in Keys : /\ ReportsOpenTime
                                     /\ prior[s][k] # Flat
                                     /\ event[f] >= prior[s][k].opened
    BY <1>1 DEF OfHeld
  <1>6. event[f] \in ClosedWindow(s)
    BY <1>3, <1>4, <1>5 DEF ClosedWindow
  <1> QED
    BY <1>6 DEF Returned

LEMMA SyncHeldNext ==
  ASSUME HeldInv, ~Polymarket, PositionsOften, TypeOK', OrderInv', FactsMove,
         [Next]_vars, NEW s \in Sessions, pc'[s] = "syncing"
  PROVE  SyncHeld(s)'
  <1>1. TypeOK /\ OrderInv /\ s \in Workers
    BY DEF HeldInv, PriorInv, OrderInv, Workers
  <1>2. CASE Begin(s)
    <2>1. /\ started'[s] = now /\ ledger' = ledger /\ due'[s] = DueStreams(s)
          /\ answer'[s].pending = DueStreams(s) \ {"balance"}
      BY <1>1, <1>2 DEF Begin, TypeOK, Answer, dbVars
    <2> QED
      BY <1>2, <2>1, BeginsNear DEF SyncHeld, AnswerHeld
  <1>3. CASE pc[s] = "syncing"
    <2>1. /\ started'[s] = started[s]
          /\ due'[s] \in {due[s], due[s] \cup {"closed_positions"}}
          /\ UNCHANGED <<ledger.positions, ledger.asOf, ledger.closed>>
          /\ SyncHeld(s)
      BY <1>1, <1>3, SyncStays, LedgerStays DEF HeldInv
    <2>2. "positions" \notin due'[s] => started'[s] <= ledger'.asOf + Overlap
      BY <2>1 DEF SyncHeld
    <2>3. ASSUME "positions" \in due'[s] \ answer'[s].pending
          PROVE  /\ Continues(held', answer'[s].positions, answer'[s].readAt)
                 /\ Continues(answer'[s].positions, ledger.positions, ledger.asOf)
      <3>1. CASE ReceivePositions(s)
        <4>1. /\ answer'[s].positions = held /\ answer'[s].readAt = now
              /\ held' = held
          BY <1>1, <3>1 DEF ReceivePositions, TypeOK, Answer, exchangeVars
        <4>2. \A k \in Keys : held[k].opened \in Int
          BY <1>1 DEF TypeOK, Position, Time
        <4>3. Continues(held, held, now)
          BY <4>2 DEF Continues
        <4> QED
          BY <4>1, <4>3 DEF HeldInv
      <3>2. CASE /\ "positions" \in due[s] \ answer[s].pending
                 /\ answer'[s].positions = answer[s].positions
                 /\ answer'[s].readAt = answer[s].readAt
        <4>1. /\ Continues(held, answer[s].positions, answer[s].readAt)
              /\ Continues(answer[s].positions, ledger.positions, ledger.asOf)
          BY <2>1, <3>2 DEF SyncHeld
        <4>2. /\ answer[s].readAt <= now /\ answer[s].readAt \in Time
              /\ answer[s].positions \in [Keys -> Position]
          BY <1>1, <1>3, <3>2 DEF OrderInv, TypeOK, Answer
        <4>3. Continues(held', answer[s].positions, answer[s].readAt)
          BY <1>1, <4>1, <4>2, ContinuesOn
        <4> QED
          BY <3>2, <4>1, <4>3
      <3> QED
        BY <1>1, <1>3, <2>3, <3>1, <3>2, AnswerStays
    <2>4. AnswerHeld(s)'
      <3> SUFFICES ASSUME NEW f \in ClosedFacts,
                          "closed_positions" \in due'[s] \ answer'[s].pending,
                          published'[f] # 0, published'[f] < started[s],
                          OfHeld(f)' \/ event'[f] >= ledger.asOf
                   PROVE  f \in ledger.closed \cup answer'[s].closed
        BY <2>1 DEF AnswerHeld
      <3>1. f \in Facts /\ started[s] \in Time /\ started[s] <= now
        BY <1>1, <1>3 DEF Facts, TypeOK, OrderInv
      <3>2. published'[f] = published[f] /\ event'[f] = event[f]
        BY <1>1, <3>1, PastFacts
      <3>3. OfHeld(f) \/ event[f] >= ledger.asOf
        BY <2>1, <3>2 DEF OfHeld
      <3>4. CASE ReceiveClosed(s)
        <4>1. answer'[s].closed = Returned(ClosedFacts, ClosedWindow(s))
          BY <1>1, <3>4 DEF ReceiveClosed, TypeOK, Answer
        <4> QED
          BY <1>3, <3>2, <3>3, <4>1, ClosedAnswerHeld
      <3>5. CASE /\ "closed_positions" \in due[s] \ answer[s].pending
                 /\ answer'[s].closed = answer[s].closed
        BY <2>1, <3>2, <3>3, <3>5 DEF SyncHeld, AnswerHeld
      <3> QED
        BY <1>1, <1>3, <3>4, <3>5, AnswerStays
    <2>5. /\ "positions" \in due'[s] \ answer'[s].pending =>
              /\ Continues(held, answer[s].positions, answer[s].readAt)'
              /\ Continues(answer[s].positions, ledger.positions, ledger.asOf)'
      BY <2>1, <2>3 DEF Continues
    <2> QED
      BY <2>2, <2>4, <2>5 DEF SyncHeld
  <1> QED
    BY <1>1, <1>2, <1>3, SyncingStep

LEMMA HeldNext ==
  OneProcess /\ ~Polymarket /\ PositionsOften /\ HeldInv /\ [Next]_vars => HeldInv'
  <1> SUFFICES ASSUME OneProcess, ~Polymarket, PositionsOften, HeldInv, [Next]_vars
               PROVE  HeldInv'
    OBVIOUS
  <1>1. PriorInv' /\ CoverInv'
    BY PriorNext, CoverNext DEF HeldInv
  <1>2. TypeOK' /\ OrderInv'
    BY <1>1 DEF PriorInv, OrderInv
  <1>3. FactsMove
    BY NextMovesFacts DEF HeldInv, CoverInv
  <1>4. Near(account.details)' /\ HeldBefore(account.details)'
    BY <1>2, <1>3, AccountHeldNext
  <1>5. \A w \in Workers : Near(row[w].details)' /\ HeldBefore(row[w].details)'
    BY <1>2, <1>3, RowHeldNext
  <1>6. Continues(held, ledger.positions, ledger.asOf)'
    BY ContinuesNext
  <1>7. \A s \in Sessions : pc'[s] = "syncing" => SyncHeld(s)'
    BY <1>2, <1>3, SyncHeldNext
  <1> QED
    BY <1>1, <1>4, <1>5, <1>6, <1>7 DEF HeldInv

\* Within one process, and while positions fall due at least as often as the
\* overlap is long, no closed cursor passes a reduction of a position shown as
\* held, however late the exchange lists it.
THEOREM SpecHeldReductionsStored ==
  OneProcess /\ ~Polymarket /\ PositionsOften => (Spec => []HeldReductionsStored)
  <1> SUFFICES ASSUME OneProcess, ~Polymarket, PositionsOften
               PROVE  Spec => []HeldReductionsStored
    OBVIOUS
  <1>1. HeldInv /\ [Next]_vars => HeldInv'
    BY HeldNext
  <1>2. HeldInv => HeldReductionsStored
    BY DEF HeldInv, HeldBefore, OfHeld, HeldReductionsStored
  <1> QED
    BY <1>1, <1>2, HeldInit, PTL DEF Spec
=============================================================================
