---------------------------- MODULE Server_proofs ----------------------------
(***************************************************************************)
(* Theorems about Server: what holds over restarts at any moment, for any  *)
(* names, accounts, days and requests.                                     *)
(***************************************************************************)
EXTENDS Server, FiniteSetTheorems, WellFoundedInduction, TLAPS

USE ServerConstants

(***************************************************************************)
(* Traces: until the calendar is moved nothing is deleted, after it the    *)
(* daily rows are those of reporting days.                                 *)
(***************************************************************************)
HasSnap(t)  == \E s \in snaps : s.account = t.account /\ ReportDay(s.at) = t.day
HasDaily(t) == \E d \in daily : d.account = t.account /\ d.day = t.day

TraceInv ==
    /\ moved \in BOOLEAN
    /\ ~moved => \A t \in traces : HasSnap(t)
    /\ draft.made => pc = "backfill" /\ ~moved
    /\ pc = "backfill" => moved \/ draft.made
    /\ pc \in {"capture", "serving"} => moved
    /\ \A t \in traces : HasSnap(t) \/ HasDaily(t)

LEMMA TraceInit == Init => TraceInv
  <1> SUFFICES ASSUME Init PROVE TraceInv
    OBVIOUS
  <1>1. \A t \in traces : HasSnap(t)
    BY DEF Init, HasSnap
  <1> QED
    BY <1>1 DEF Init, TraceInv, NoDraft

\* an account that is created brings a snapshot for the trace it leaves
LEMMA CreateTraces ==
  ASSUME NEW name, Create(name), TraceInv
  PROVE  /\ ~moved => \A t \in traces' : HasSnap(t)'
         /\ \A t \in traces' : (HasSnap(t) \/ HasDaily(t))'
         /\ moved' = moved
  <1> DEFINE new == [account |-> Len(accounts) + 1, at |-> now]
             trace == [account |-> Len(accounts) + 1, day |-> ReportDay(now)]
  <1>1. /\ snaps' = snaps \cup {new} /\ traces' = traces \cup {trace}
        /\ daily' = daily /\ moved' = moved
    BY DEF Create
  <1>2. ASSUME NEW t
        PROVE  (HasSnap(t) => HasSnap(t)') /\ (HasDaily(t) => HasDaily(t)')
    BY <1>1 DEF HasSnap, HasDaily, ReportDay
  <1>3. ASSUME NEW t, t = trace PROVE HasSnap(t)'
    <2>1. /\ new \in snaps' /\ new.account = t.account
          /\ new.at \div DayLength = t.day
      BY <1>1, <1>3 DEF ReportDay
    <2> HIDE DEF new
    <2> QED
      BY <2>1 DEF HasSnap, ReportDay
  <1>4. \A t \in traces' : t \in traces \/ t = trace
    BY <1>1
  <1> HIDE DEF trace
  <1> QED
    BY <1>1, <1>2, <1>3, <1>4 DEF TraceInv

LEMMA SyncTraces ==
  ASSUME NEW a \in Ids, Sync(a), TraceInv
  PROVE  TraceInv'
  <1> DEFINE today == ReportDay(now)
             rows == [account |-> a, day |-> today, of |-> now, updated |-> now]
             trace == [account |-> a, day |-> today]
  <1>1. /\ snaps \subseteq snaps' /\ traces' = traces \cup {trace}
        /\ daily' = {d \in daily : d.account # a \/ d.day # today} \cup {rows}
        /\ UNCHANGED <<moved, pc, draft>>
    BY DEF Sync, memory
  <1>2. ASSUME NEW t, t.account = a, t.day = today PROVE HasDaily(t)'
    <2>1. rows \in daily' /\ rows.account = t.account /\ rows.day = t.day
      BY <1>1, <1>2
    <2> HIDE DEF rows
    <2> QED
      BY <2>1 DEF HasDaily
  <1>3. ASSUME NEW t \in traces PROVE (HasSnap(t) \/ HasDaily(t))'
    <2>1. CASE HasSnap(t)
      <3>1. HasSnap(t)'
        BY <1>1, <2>1 DEF HasSnap, ReportDay
      <3> QED
        BY <3>1
    <2>2. CASE HasDaily(t)
      <3>1. PICK d \in daily : d.account = t.account /\ d.day = t.day
        BY <2>2 DEF HasDaily
      <3>2. CASE d \in daily'
        BY <3>1, <3>2 DEF HasDaily
      <3>3. CASE d \notin daily'
        <4>1. t.account = a /\ t.day = today
          BY <1>1, <3>1, <3>3
        <4> QED
          BY <1>2, <4>1
      <3> QED
        BY <3>2, <3>3
    <2> QED
      BY <2>1, <2>2 DEF TraceInv
  <1>4. moved
    BY DEF Sync, TraceInv
  <1>5. \A t \in traces' : t \in traces \/ (t.account = a /\ t.day = today)
    BY <1>1
  <1>6. \A t \in traces' : (HasSnap(t) \/ HasDaily(t))'
    BY <1>2, <1>3, <1>5
  <1> QED
    BY <1>1, <1>4, <1>6 DEF TraceInv

\* steps that neither record nor delete
LEMMA QuietTraces ==
  ASSUME TraceInv, UNCHANGED <<snaps, daily, traces, moved>>,
         draft'.made => draft.made, pc' \in {"down", "provision"} \/ pc' = pc,
         pc' = "backfill" => draft' = draft, draft'.made => pc' = "backfill"
  PROVE  TraceInv'
  BY DEF TraceInv, HasSnap, HasDaily, ReportDay

LEMMA TraceNext == TraceInv /\ [Next]_vars => TraceInv'
  <1> SUFFICES ASSUME TraceInv, [Next]_vars PROVE TraceInv'
    OBVIOUS
  <1>1. CASE Tick
    BY <1>1, QuietTraces DEF Tick, database, memory, TraceInv
  <1>2. CASE Start
    BY <1>2, QuietTraces DEF Start, database, TraceInv
  <1>3. ASSUME NEW name \in Names, Provision(name) PROVE TraceInv'
    <2>1. UNCHANGED <<pc, draft>>
      BY <1>3 DEF Provision
    <2>2. CASE Create(name)
      BY <2>1, <2>2, CreateTraces DEF TraceInv
    <2>3. CASE UNCHANGED <<database, traces>>
      BY <2>1, <2>3, QuietTraces DEF database, TraceInv
    <2> QED
      BY <1>3, <2>2, <2>3 DEF Provision
  <1>4. ASSUME NEW name \in Names, Add(name) PROVE TraceInv'
    BY <1>4, CreateTraces DEF Add, memory, TraceInv
  <1>5. CASE MoveCalendar
    BY <1>5 DEF MoveCalendar, database, TraceInv, HasSnap, HasDaily, ReportDay, NoDraft
  <1>6. CASE Backfill
    <2>1. CASE draft.made
      BY <1>6, <2>1 DEF Backfill, TraceInv, HasSnap, HasDaily, ReportDay, NoDraft
    <2>2. CASE ~draft.made
      BY <1>6, <2>2 DEF Backfill, TraceInv, HasSnap, HasDaily, ReportDay, NoDraft
    <2> QED
      BY <2>1, <2>2
  <1>7. CASE ReadCapture \/ CommitCapture
    <2>1. /\ UNCHANGED <<snaps, daily, traces, moved, draft>>
          /\ \/ pc' = pc
             \/ pc = "capture" /\ pc' = "serving"
      BY <1>7 DEF ReadCapture, CommitCapture, Afterwards, database
    <2> QED
      BY <2>1 DEF TraceInv, HasSnap, HasDaily, ReportDay
  <1>8. ASSUME NEW a \in Ids, Sync(a) PROVE TraceInv'
    BY <1>8, SyncTraces
  <1>9. ASSUME NEW a \in Ids, Delete(a) PROVE TraceInv'
    BY <1>9, QuietTraces DEF Delete, memory, TraceInv
  <1>10. CASE Retention
    <2>1. moved /\ UNCHANGED <<daily, moved, pc, draft, traces>>
      BY <1>10 DEF Retention, memory, TraceInv
    <2>2. ASSUME NEW t \in traces, HasSnap(t) PROVE (HasSnap(t) \/ HasDaily(t))'
      <3>1. PICK s \in snaps : s.account = t.account /\ ReportDay(s.at) = t.day
        BY <2>2 DEF HasSnap
      <3>2. CASE s \in Expired
        BY <2>1, <3>1, <3>2 DEF Expired, HasDaily
      <3>3. CASE s \notin Expired
        BY <1>10, <3>1, <3>3 DEF Retention, HasSnap, ReportDay
      <3> QED
        BY <3>2, <3>3
    <2> QED
      BY <2>1, <2>2 DEF TraceInv, HasDaily
  <1>11. CASE StartCapture \/ FailCapture \/ ScriptBackfill
    BY <1>11, QuietTraces
       DEF StartCapture, FailCapture, ScriptBackfill, database, memory, TraceInv
  <1>12. ASSUME NEW r \in Requests, Ask(r) \/ Query(r) \/ Serve(r) PROVE TraceInv'
    BY <1>12, QuietTraces DEF Ask, Query, Serve, database, TraceInv
  <1>13. ASSUME NEW k \in DOMAIN cache, ExpireEntry(k) PROVE TraceInv'
    BY <1>13, QuietTraces DEF ExpireEntry, database, TraceInv
  <1>14. CASE Crash
    BY <1>14, QuietTraces DEF Crash, database, TraceInv, NoDraft
  <1>15. CASE UNCHANGED vars
    BY <1>15, QuietTraces DEF vars, database, memory, TraceInv
  <1> QED
    BY <1>1, <1>2, <1>3, <1>4, <1>5, <1>6, <1>7, <1>8, <1>9, <1>10, <1>11,
       <1>12, <1>13, <1>14, <1>15 DEF Next

\* Whatever day an account was recorded on keeps a snapshot or the day's row,
\* through the calendar move, retention, deletions and restarts at any moment:
\* retention deletes by the existence of a daily row only once the days of
\* those rows are the reporting days.
THEOREM SpecTracesStay == Spec => []TracesStay
  <1>1. TraceInv => TracesStay
    BY DEF TraceInv, TracesStay, HasSnap, HasDaily
  <1> QED
    BY <1>1, TraceInit, TraceNext, PTL DEF Spec

(***************************************************************************)
(* Types, one active account per name and one daily row per account and    *)
(* day. The last needs the shape of the earlier version's rows: two that   *)
(* were updated at one time are the same.                                  *)
(***************************************************************************)
EarlierRow(t) == [account |-> 1, day |-> UtcDay(t), of |-> t, updated |-> t]

DailyOK(set, ids, t) ==
    /\ \A d \in set : d.account \in ids /\ d.of \in 0 .. d.updated /\ d.updated \in 0 .. t
    /\ \A d, e \in set : d.account = e.account /\ d.day = e.day => d = e

PointsOK(table, ids, t) ==
    \A b \in DOMAIN table : b \in 0 .. t /\ table[b] \subseteq ids

CaptureOK(c, ids, t) ==
    c \in [pc : {"none", "asked", "read"}, at : 0 .. t, late : SUBSET ids, of : SUBSET ids]

AccountsOK ==
    /\ now \in Nat /\ now \in History .. MaxTime
    /\ accounts \in Seq([name : Names, active : BOOLEAN, since : 0 .. MaxTime])
    /\ Len(accounts) >= 1
    /\ \A a \in Ids : accounts[a].since <= now
    /\ \A a, b \in Active : accounts[a].name = accounts[b].name => a = b

TypeInv ==
    /\ TraceInv
    /\ AccountsOK
    /\ snaps \subseteq [account : Ids, at : 0 .. now]
    /\ DailyOK(daily, Ids, now) /\ DailyOK(draft.rows, Ids, now)
    /\ ~moved => \A d \in daily : \E t \in 0 .. History - 1 : d = EarlierRow(t)
    /\ PointsOK(points, Ids, now)
    /\ CaptureOK(capture, Ids, now)
    /\ pc \in {"down", "provision", "backfill", "capture", "serving"}

LEMMA TypeInit == Init => TypeInv
  <1> SUFFICES ASSUME Init PROVE TypeInv
    OBVIOUS
  <1>1. AccountsOK
    <2>1. PICK name \in Enabled, active \in BOOLEAN :
            accounts = <<[name |-> name, active |-> active, since |-> 0]>>
      BY DEF Init
    <2>2. [name |-> name, active |-> active, since |-> 0]
            \in [name : Names, active : BOOLEAN, since : 0 .. MaxTime]
      OBVIOUS
    <2>3. Len(accounts) = 1 /\ accounts[1].since = 0 /\ now = History
      BY <2>1 DEF Init
    <2> QED
      BY <2>1, <2>2, <2>3 DEF AccountsOK, Ids, Active
  <1>2. PICK times \in Recorded :
          /\ snaps = {[account |-> 1, at |-> t] : t \in times}
          /\ daily = LegacyRows(times)
    BY DEF Init
  <1>3. \A t \in times : t \in 0 .. History - 1
    OBVIOUS
  <1>4. 1 \in Ids /\ now = History
    BY <1>1 DEF AccountsOK, Ids, Init
  <1>5. \A d \in daily : \E t \in times :
           /\ d = EarlierRow(t)
           /\ \A v \in times : UtcDay(v) = UtcDay(t) => v <= t
    BY <1>2 DEF LegacyRows, EarlierRow
  <1>6. DailyOK(daily, Ids, now)
    <2>1. ASSUME NEW d \in daily, NEW e \in daily, d.day = e.day PROVE d = e
      <3>1. PICK t \in times : /\ d = EarlierRow(t)
                               /\ \A v \in times : UtcDay(v) = UtcDay(t) => v <= t
        BY <1>5
      <3>2. PICK u \in times : /\ e = EarlierRow(u)
                               /\ \A v \in times : UtcDay(v) = UtcDay(u) => v <= u
        BY <1>5
      <3>3. UtcDay(t) = UtcDay(u)
        BY <2>1, <3>1, <3>2 DEF EarlierRow
      <3>4. t <= u /\ u <= t
        BY <3>1, <3>2, <3>3
      <3> QED
        BY <1>3, <3>1, <3>2, <3>4
    <2>2. \A d \in daily : d.account = 1 /\ d.of = d.updated
      BY <1>3, <1>4, <1>5 DEF EarlierRow
    <2>3. \A d \in daily : d.updated \in 0 .. History - 1
      BY <1>3, <1>5 DEF EarlierRow
    <2> QED
      BY <1>4, <2>1, <2>2, <2>3 DEF DailyOK
  <1>7. DailyOK(draft.rows, Ids, now) /\ DOMAIN points = {} /\ capture = NoCapture /\ pc = "down"
    BY DEF Init, NoDraft, DailyOK
  <1>8. snaps \subseteq [account : Ids, at : 0 .. now]
    BY <1>2, <1>3, <1>4
  <1>9. \A d \in daily : \E t \in 0 .. History - 1 : d = EarlierRow(t)
    BY <1>3, <1>5
  <1> QED
    BY <1>1, <1>6, <1>7, <1>8, <1>9, TraceInit
       DEF TypeInv, PointsOK, CaptureOK, NoCapture, AccountsOK

AccountType == [name : Names, active : BOOLEAN, since : 0 .. MaxTime]

LEMMA AccountTyped ==
  ASSUME AccountsOK, NEW a \in Ids
  PROVE  accounts[a] \in AccountType
  <1>1. accounts \in Seq(AccountType)
    BY DEF AccountsOK, AccountType
  <1> QED
    BY <1>1 DEF Ids

\* An account is added at the end; the others stay as they are.
LEMMA CreateAccounts ==
  ASSUME NEW name \in Names, Create(name), AccountsOK, now' = now
  PROVE  /\ AccountsOK'
         /\ Ids \subseteq Ids' /\ Len(accounts) + 1 \in Ids'
         /\ \A a \in Ids : accounts'[a] = accounts[a]
         /\ Active' = Active \cup {Len(accounts) + 1}
         /\ accounts'[Len(accounts) + 1].since = now
         /\ accounts'[Len(accounts) + 1].name = name
  <1> DEFINE new == [name |-> name, active |-> TRUE, since |-> now]
             n == Len(accounts) + 1
  <1>1. /\ accounts \in Seq(AccountType) /\ now \in 0 .. MaxTime /\ now \in Nat
        /\ new \in AccountType
    BY DEF AccountsOK, AccountType
  <1>2. /\ accounts' = Append(accounts, new)
        /\ \A b \in Active : accounts[b].name # name
    BY DEF Create
  <1>3. /\ accounts' \in Seq(AccountType) /\ Len(accounts') = n /\ n \in Nat
        /\ \A a \in 1 .. Len(accounts) : accounts'[a] = accounts[a]
        /\ accounts'[n] = new
    <2> HIDE DEF new
    <2> QED
      BY <1>1, <1>2
  <1>4. Ids' = Ids \cup {n} /\ n \notin Ids
    BY <1>1, <1>3 DEF Ids
  <1>5. Active' = Active \cup {n}
    BY <1>3, <1>4 DEF Active, Ids
  <1>6. ASSUME NEW a \in Ids' PROVE accounts'[a].since <= now'
    <2>1. CASE a \in Ids
      <3>1. accounts[a].since <= now /\ accounts'[a] = accounts[a]
        BY <1>3, <2>1 DEF AccountsOK, Ids
      <3> QED
        BY <3>1
    <2>2. CASE a = n
      <3>1. accounts'[a].since = now /\ now \in Nat
        BY <1>1, <1>3, <2>2 DEF AccountsOK
      <3> QED
        BY <3>1
    <2> QED
      BY <1>4, <2>1, <2>2
  <1>7. ASSUME NEW a \in Active', NEW b \in Active',
               accounts'[a].name = accounts'[b].name
        PROVE  a = b
    <2>1. \A c \in Active : c \in Ids /\ accounts'[c] = accounts[c]
      BY <1>3 DEF Active, Ids
    <2>2. ASSUME NEW c \in Active PROVE accounts'[c].name # accounts'[n].name
      <3>1. accounts'[c] = accounts[c] /\ accounts[c].name # name
        BY <1>2, <2>1
      <3>2. accounts'[n].name = name
        BY <1>3
      <3> QED
        BY <3>1, <3>2
    <2>3. CASE a \in Active /\ b \in Active
      <3>1. accounts[a].name = accounts[b].name
        BY <1>7, <2>1, <2>3
      <3> QED
        BY <2>3, <3>1 DEF AccountsOK
    <2>4. CASE ~(a \in Active /\ b \in Active)
      BY <1>5, <1>7, <2>2, <2>4
    <2> QED
      BY <2>3, <2>4
  <1>8. AccountsOK'
    BY <1>1, <1>3, <1>6, <1>7 DEF AccountsOK, AccountType
  <1> QED
    BY <1>3, <1>4, <1>5, <1>8 DEF Ids

LEMMA DeleteAccounts ==
  ASSUME NEW a \in Ids, Delete(a), AccountsOK
  PROVE  /\ AccountsOK' /\ Ids' = Ids /\ Active' = Active \ {a}
         /\ \A b \in Ids : /\ accounts'[b].name = accounts[b].name
                            /\ accounts'[b].since = accounts[b].since
  <1>1. /\ accounts \in Seq(AccountType) /\ now' = now
        /\ accounts' = [accounts EXCEPT ![a].active = FALSE]
    BY DEF Delete, AccountsOK, AccountType
  <1>2. /\ accounts' \in Seq(AccountType) /\ Len(accounts') = Len(accounts)
        /\ Len(accounts) \in Nat
        /\ accounts'[a] = [accounts[a] EXCEPT !.active = FALSE]
        /\ \A b \in Ids : b # a => accounts'[b] = accounts[b]
    <2>1. /\ Len(accounts) \in Nat /\ DOMAIN accounts = 1 .. Len(accounts)
          /\ \A b \in 1 .. Len(accounts) : accounts[b] \in AccountType
      BY <1>1
    <2>2. [accounts[a] EXCEPT !.active = FALSE] \in AccountType
      BY <2>1 DEF Ids, AccountType
    <2>3. accounts' = [accounts EXCEPT ![a] = [accounts[a] EXCEPT !.active = FALSE]]
      BY <1>1
    <2> HIDE DEF AccountType
    <2>4. accounts' \in [1 .. Len(accounts) -> AccountType]
      BY <2>1, <2>2, <2>3
    <2> QED
      BY <2>1, <2>2, <2>3, <2>4 DEF Ids
  <1>3. accounts[a] \in AccountType
    BY <1>1 DEF Ids
  <1>4. \A b \in Ids : /\ accounts'[b].name = accounts[b].name
                       /\ accounts'[b].since = accounts[b].since
    BY <1>2, <1>3 DEF AccountType
  <1>5. Ids' = Ids
    BY <1>2 DEF Ids
  <1>6. Active' = Active \ {a}
    BY <1>2, <1>3, <1>5 DEF Active, AccountType
  <1>7. AccountsOK'
    BY <1>1, <1>2, <1>4, <1>5, <1>6 DEF AccountsOK, Active, AccountType
  <1> QED
    BY <1>4, <1>5, <1>6, <1>7

\* The only steps that change accounts, and what they change with them.
LEMMA AccountsStep ==
  ASSUME [Next]_vars
  PROVE  \/ accounts' = accounts
         \/ /\ \E name \in Names : Create(name)
            /\ UNCHANGED <<now, pc, draft>>
         \/ \E a \in Ids : Delete(a)
  BY DEF Next, Tick, Start, Provision, Add, MoveCalendar, Backfill, ReadCapture, FailCapture, Afterwards,
         Sync, StartCapture, CommitCapture, ScriptBackfill, Retention, Ask, Query,
         Serve, ExpireEntry, Crash, vars, database, memory

LEMMA AccountsNext ==
  ASSUME AccountsOK, [Next]_vars
  PROVE  AccountsOK' /\ Ids \subseteq Ids' /\ now <= now' /\ now' \in Nat
  <1>1. now \in Nat /\ now \in History .. MaxTime
    BY DEF AccountsOK
  <1>2. now' = now \/ Tick
    BY DEF Next, Start, Provision, Add, MoveCalendar, Backfill, ReadCapture, FailCapture, Afterwards,
         Sync, Delete, StartCapture, CommitCapture, ScriptBackfill, Retention, Ask,
         Query, Serve, ExpireEntry, Crash, vars
  <1>3. now <= now' /\ now' \in Nat /\ now' \in History .. MaxTime
    BY <1>1, <1>2 DEF Tick
  <1>4. CASE accounts' = accounts
    <2>1. Ids' = Ids /\ Active' = Active
      BY <1>4 DEF Ids, Active
    <2>2. ASSUME NEW a \in Ids PROVE accounts[a].since \in Nat
      <3>1. accounts[a] \in AccountType
        BY AccountTyped
      <3> QED
        BY <3>1 DEF AccountType
    <2> QED
      BY <1>1, <1>3, <1>4, <2>1, <2>2 DEF AccountsOK
  <1>5. ASSUME NEW name \in Names, Create(name), now' = now
        PROVE  AccountsOK' /\ Ids \subseteq Ids'
    BY <1>5, CreateAccounts
  <1>6. ASSUME NEW a \in Ids, Delete(a) PROVE AccountsOK' /\ Ids \subseteq Ids'
    BY <1>6, DeleteAccounts
  <1> QED
    BY <1>3, <1>4, <1>5, <1>6, AccountsStep

\* More accounts and a later clock keep rows well formed.
LEMMA RowsGrow ==
  ASSUME NEW set, NEW ids, NEW more, NEW t \in Nat, NEW u \in Nat,
         ids \subseteq more, t <= u, DailyOK(set, ids, t)
  PROVE  DailyOK(set, more, u)
  BY DEF DailyOK

LEMMA PointsGrow ==
  ASSUME NEW table, NEW ids, NEW more, NEW t \in Nat, NEW u \in Nat,
         ids \subseteq more, t <= u, PointsOK(table, ids, t)
  PROVE  PointsOK(table, more, u)
  BY DEF PointsOK

\* The rows of the move: one for each account and reporting day.
LEMMA MovedRowsOK ==
  ASSUME TypeInv, ~moved
  PROVE  DailyOK(MovedRows, Ids, now)
  <1>1. /\ now \in Nat /\ now >= History
        /\ \A d \in daily : \E t \in 0 .. History - 1 : d = EarlierRow(t)
    BY DEF TypeInv, AccountsOK
  <1>2. ASSUME NEW d \in MovedRows
        PROVE  \E e \in daily :
                  /\ d.account = e.account /\ d.day = ReportDay(e.updated)
                  /\ d.of = e.of /\ d.updated = now
                  /\ d = [account |-> e.account, day |-> ReportDay(e.updated),
                          of |-> e.of, updated |-> now]
                  /\ \A f \in daily : f.account = e.account
                        /\ ReportDay(f.updated) = ReportDay(e.updated)
                        => f.updated <= e.updated
    BY DEF MovedRows
  <1>3. ASSUME NEW d \in MovedRows, NEW e \in MovedRows,
               d.account = e.account, d.day = e.day
        PROVE  d = e
    <2>1. PICK d0 \in daily :
                  /\ d.account = d0.account /\ d.day = ReportDay(d0.updated)
                  /\ d = [account |-> d0.account, day |-> ReportDay(d0.updated),
                          of |-> d0.of, updated |-> now]
                  /\ \A f \in daily : f.account = d0.account
                        /\ ReportDay(f.updated) = ReportDay(d0.updated)
                        => f.updated <= d0.updated
      BY <1>2
    <2>2. PICK e0 \in daily :
                  /\ e.account = e0.account /\ e.day = ReportDay(e0.updated)
                  /\ e = [account |-> e0.account, day |-> ReportDay(e0.updated),
                          of |-> e0.of, updated |-> now]
                  /\ \A f \in daily : f.account = e0.account
                        /\ ReportDay(f.updated) = ReportDay(e0.updated)
                        => f.updated <= e0.updated
      BY <1>2
    <2>3. d0.updated <= e0.updated /\ e0.updated <= d0.updated
      BY <1>3, <2>1, <2>2
    <2>4. PICK t \in 0 .. History - 1 : d0 = EarlierRow(t)
      BY <1>1
    <2>5. PICK u \in 0 .. History - 1 : e0 = EarlierRow(u)
      BY <1>1
    <2>6. t = u
      BY <2>3, <2>4, <2>5 DEF EarlierRow
    <2> QED
      BY <2>1, <2>2, <2>4, <2>5, <2>6
  <1>4. ASSUME NEW d \in MovedRows
        PROVE  d.account \in Ids /\ d.of \in 0 .. d.updated /\ d.updated \in 0 .. now
    <2>1. PICK e \in daily : d.account = e.account /\ d.of = e.of /\ d.updated = now
      BY <1>2
    <2>2. PICK t \in 0 .. History - 1 : e = EarlierRow(t)
      BY <1>1
    <2>3. e.account = 1 /\ e.of = t
      BY <2>2 DEF EarlierRow
    <2>4. 1 \in Ids
      BY DEF TypeInv, AccountsOK, Ids
    <2>5. t \in Nat /\ t <= now
      BY <1>1
    <2> QED
      BY <1>1, <2>1, <2>3, <2>4, <2>5
  <1> QED
    BY <1>3, <1>4 DEF DailyOK

\* Rows and snapshots after a step.
LEMMA DailyNext ==
  ASSUME TypeInv, [Next]_vars
  PROVE  DailyOK(daily, Ids, now)' /\ DailyOK(draft.rows, Ids, now)'
  <1>0. /\ now \in Nat /\ Ids \subseteq Ids' /\ now <= now' /\ now' \in Nat
        /\ DailyOK(daily, Ids, now) /\ DailyOK(draft.rows, Ids, now)
    BY AccountsNext DEF TypeInv, AccountsOK
  <1>1. DailyOK(daily, Ids', now') /\ DailyOK(draft.rows, Ids', now')
    BY <1>0, RowsGrow
  <1>2. DailyOK({}, Ids', now')
    BY DEF DailyOK
  <1>3. ASSUME NEW a \in Ids, Sync(a)
        PROVE  DailyOK(daily, Ids, now)' /\ draft' = draft
    <2> DEFINE row == [account |-> a, day |-> ReportDay(now), of |-> now, updated |-> now]
    <2>1. /\ daily' = {d \in daily : d.account # a \/ d.day # ReportDay(now)} \cup {row}
          /\ draft' = draft /\ now' = now
      BY <1>3 DEF Sync, memory
    <2>2. row.account = a /\ row.day = ReportDay(now) /\ row.of = now /\ row.updated = now
      OBVIOUS
    <2> HIDE DEF row
    <2>3. a \in Ids'
      BY <1>0
    <2> QED
      BY <1>0, <1>1, <2>1, <2>2, <2>3 DEF DailyOK
  <1>4. CASE MoveCalendar
    <2>1. daily' = daily /\ now' = now /\ Ids' = Ids
      BY <1>4 DEF MoveCalendar, database, Ids
    <2>2. draft'.rows = {} \/ (~moved /\ draft'.rows = MovedRows)
      BY <1>4 DEF MoveCalendar, NoDraft
    <2> QED
      BY <1>1, <1>2, <2>1, <2>2, MovedRowsOK
  <1>5. CASE Backfill
    <2>1. (daily' = daily \/ daily' = draft.rows) /\ draft'.rows = {}
      BY <1>5 DEF Backfill, NoDraft
    <2> QED
      BY <1>1, <1>2, <2>1
  <1>6. CASE Crash
    BY <1>1, <1>2, <1>6 DEF Crash, database, NoDraft
  <1>7. ASSUME daily' = daily, draft' = draft
        PROVE  DailyOK(daily, Ids, now)' /\ DailyOK(draft.rows, Ids, now)'
    BY <1>1, <1>7
  <1>8. \/ \E a \in Ids : Sync(a)
        \/ MoveCalendar \/ Backfill \/ Crash
        \/ daily' = daily /\ draft' = draft
    BY DEF Next, Tick, Start, Provision, Add, Create, Delete, ReadCapture, FailCapture, Afterwards,
         StartCapture, CommitCapture, ScriptBackfill, Retention, Ask, Query,
         Serve, ExpireEntry, vars, database, memory
  <1> QED
    BY <1>1, <1>3, <1>4, <1>5, <1>6, <1>7, <1>8

LEMMA SnapsNext ==
  ASSUME TypeInv, [Next]_vars
  PROVE  snaps' \subseteq [account : Ids', at : 0 .. now']
  <1>0. /\ now \in Nat /\ Ids \subseteq Ids' /\ now <= now' /\ now' \in Nat
        /\ snaps \subseteq [account : Ids', at : 0 .. now']
    BY AccountsNext DEF TypeInv, AccountsOK
  <1>1. ASSUME NEW name \in Names, Create(name), now' = now
        PROVE  snaps' \subseteq [account : Ids', at : 0 .. now']
    <2>1. Len(accounts) + 1 \in Ids'
      BY <1>1, CreateAccounts DEF TypeInv
    <2> QED
      BY <1>0, <1>1, <2>1 DEF Create
  <1>2. ASSUME NEW a \in Ids, Sync(a)
        PROVE  snaps' \subseteq [account : Ids', at : 0 .. now']
    BY <1>0, <1>2 DEF Sync
  <1>3. \/ \E name \in Names : Create(name) /\ now' = now
        \/ \E a \in Ids : Sync(a)
        \/ snaps' \subseteq snaps
    BY DEF Next, Tick, Start, Provision, Add, Delete, MoveCalendar, Backfill,
         ReadCapture, FailCapture, Afterwards, StartCapture, CommitCapture, ScriptBackfill, Retention,
         Ask, Query, Serve, ExpireEntry, Crash, vars, database
  <1> QED
    BY <1>0, <1>1, <1>2, <1>3

LEMMA EarlierRowsNext ==
  ASSUME TypeInv, TraceInv', [Next]_vars, ~moved'
  PROVE  \A d \in daily' : \E t \in 0 .. History - 1 : d = EarlierRow(t)
  <1>1. ~moved
    BY DEF TypeInv, TraceInv, Next, Tick, Start, Provision, Add, Create, Delete,
         MoveCalendar, Backfill, ReadCapture, FailCapture, Afterwards, Sync, StartCapture, CommitCapture,
         ScriptBackfill, Retention, Ask, Query, Serve, ExpireEntry, Crash, vars,
         database
  <1>2. daily' = daily
    BY <1>1 DEF TypeInv, TraceInv, Next, Tick, Start, Provision, Add, Create, Delete,
         MoveCalendar, Backfill, ReadCapture, FailCapture, Afterwards, Sync, StartCapture, CommitCapture,
         ScriptBackfill, Retention, Ask, Query, Serve, ExpireEntry, Crash, vars,
         database
  <1> QED
    BY <1>1, <1>2 DEF TypeInv, EarlierRow, UtcDay

\* Points sum accounts there are, in buckets that have begun.
\* The steps that change the capture under way.
LEMMA CaptureStep ==
  ASSUME [Next]_vars
  PROVE  \/ capture' = capture \/ capture' = NoCapture
         \/ StartCapture \/ ReadCapture
         \/ accounts' = accounts /\ now' = now /\ \E a \in Ids : Balance(a)
         \/ now' = now /\ \E name \in Names : Create(name)
  BY DEF Next, Tick, Start, Provision, Add, Delete, MoveCalendar, Backfill, Sync,
         CommitCapture, FailCapture, ScriptBackfill, Retention, Ask, Query, Serve,
         ExpireEntry, Crash, vars, memory

\* A balance that is written changes only which accounts are late.
LEMMA BalanceStep ==
  ASSUME NEW ids, NEW t, CaptureOK(capture, ids, t), NEW a \in ids, Balance(a)
  PROVE  /\ CaptureOK(capture', ids, t)
         /\ capture'.pc = capture.pc
         /\ capture.pc # "asked" => capture' = capture
  BY DEF Balance, CaptureOK

LEMMA CaptureTyped ==
  ASSUME TypeInv, [Next]_vars
  PROVE  CaptureOK(capture', Ids', now')
  <1>0. /\ now \in Nat /\ Ids \subseteq Ids' /\ now <= now' /\ now' \in Nat
        /\ AccountsOK /\ CaptureOK(capture, Ids, now)
    BY AccountsNext DEF TypeInv, AccountsOK
  <1>1. CaptureOK(capture, Ids', now') /\ CaptureOK(NoCapture, Ids', now')
    BY <1>0 DEF CaptureOK, NoCapture
  <1>2. CASE StartCapture
    BY <1>0, <1>2 DEF StartCapture, NoCapture, CaptureOK, database
  <1>3. CASE ReadCapture
    <2>1. Active \subseteq Ids'
      BY <1>0 DEF Active
    <2> QED
      BY <1>1, <1>3, <2>1 DEF ReadCapture, CaptureOK
  <1>4. ASSUME NEW a \in Ids, Balance(a) PROVE CaptureOK(capture', Ids', now')
    BY <1>0, <1>1, <1>4, BalanceStep
  <1>5. ASSUME NEW name \in Names, Create(name), now' = now
        PROVE  CaptureOK(capture', Ids', now')
    <2>1. Len(accounts) + 1 \in Ids' /\ Balance(Len(accounts) + 1)
      BY <1>0, <1>5, CreateAccounts DEF Create
    <2> QED
      BY <1>1, <2>1, BalanceStep
  <1> QED
    BY <1>1, <1>2, <1>3, <1>4, <1>5, CaptureStep

LEMMA PointsNext ==
  ASSUME TypeInv, [Next]_vars
  PROVE  PointsOK(points, Ids, now)'
  <1>0. /\ now \in Nat /\ Ids \subseteq Ids' /\ now <= now' /\ now' \in Nat
        /\ PointsOK(points, Ids, now) /\ CaptureOK(capture, Ids, now)
    BY AccountsNext DEF TypeInv, AccountsOK
  <1>1. PointsOK(points, Ids', now')
    BY <1>0, PointsGrow
  <1>2. PointsOK(Backfilled, Ids', now')
    <2>1. \A b \in WholeBuckets : b \in 0 .. now /\ Covered(b) \subseteq Ids
      BY DEF WholeBuckets, Covered, Eligible, Active
    <2> QED
      BY <1>0, <1>1, <2>1 DEF Backfilled, PointsOK
  <1>3. PointsOK(Sampled(capture.at, capture.of), Ids', now')
    BY <1>0, <1>1 DEF Sampled, PointsOK, CaptureOK
  <1>4. \/ points' = Sampled(capture.at, capture.of) \/ points' = Backfilled
        \/ points' = points
    BY DEF Next, Tick, Start, Provision, Add, Create, Delete, MoveCalendar, Backfill,
         Sync, StartCapture, ReadCapture, CommitCapture, FailCapture, ScriptBackfill,
         Retention, Ask, Query, Serve, ExpireEntry, Crash, vars, database
  <1> QED
    BY <1>1, <1>2, <1>3, <1>4

LEMMA PlaceNext ==
  ASSUME TypeInv, [Next]_vars
  PROVE  pc' \in {"down", "provision", "backfill", "capture", "serving"}
  BY DEF TypeInv, Next, Tick, Start, Provision, Add, Delete, MoveCalendar, Backfill,
       ReadCapture, FailCapture, Afterwards, Sync, StartCapture, CommitCapture, ScriptBackfill, Retention,
       Ask, Query, Serve, ExpireEntry, Crash, vars, memory

LEMMA TypeNext == TypeInv /\ [Next]_vars => TypeInv'
  <1> SUFFICES ASSUME TypeInv, [Next]_vars PROVE TypeInv'
    OBVIOUS
  <1>1. TraceInv' /\ AccountsOK'
    BY TraceNext, AccountsNext DEF TypeInv
  <1> QED
    BY <1>1, SnapsNext, DailyNext, EarlierRowsNext, PointsNext, CaptureTyped, PlaceNext
       DEF TypeInv

\* Types, one active account per name and one daily row per account and day,
\* also after the rows have moved to reporting days.
THEOREM SpecTypeOK == Spec => []TypeOK
  <1>1. TypeInv => TypeOK
    <2> SUFFICES ASSUME TypeInv PROVE TypeOK
      OBVIOUS
    <2>1. \A d \in daily : d.account \in Ids /\ d.of <= d.updated /\ d.updated <= now
      BY DEF TypeInv, DailyOK
    <2>2. \A d, e \in daily : d.account = e.account /\ d.day = e.day => d = e
      BY DEF TypeInv, DailyOK
    <2> QED
      BY <2>1, <2>2 DEF TypeInv, TypeOK, TraceInv, AccountsOK, PointsOK
  <1> QED
    BY <1>1, TypeInit, TypeNext, PTL DEF Spec

(***************************************************************************)
(* Points.                                                                 *)
(***************************************************************************)
\* a sample that is read has every account that existed before its bucket, save
\* those recorded after its time
CaptureInv ==
    /\ TypeInv
    /\ capture.pc = "read" =>
          \A a \in Active : accounts[a].since < capture.at =>
              a \in capture.of \cup capture.late

LEMMA CaptureNext == CaptureInv /\ [Next]_vars => CaptureInv'
  <1> SUFFICES ASSUME CaptureInv, [Next]_vars PROVE CaptureInv'
    OBVIOUS
  <1>0. /\ TypeInv /\ TypeInv' /\ AccountsOK /\ now \in Nat
        /\ CaptureOK(capture, Ids, now)
    BY TypeNext DEF CaptureInv, TypeInv, AccountsOK
  <1>1. CASE accounts' = accounts /\ capture' = capture
    BY <1>0, <1>1 DEF CaptureInv, Active, Ids
  <1>2. CASE capture' = NoCapture \/ StartCapture
    <2>1. capture'.pc # "read"
      BY <1>2 DEF NoCapture, StartCapture
    <2> QED
      BY <1>0, <2>1 DEF CaptureInv
  <1>3. CASE ReadCapture
    <2>1. accounts' = accounts
      BY <1>3 DEF ReadCapture, database
    <2>2. Active' = Active
      BY <2>1 DEF Active, Ids
    <2>3. \/ capture' = NoCapture
          \/ capture' = [capture EXCEPT !.pc = "read", !.of = Active \ capture.late,
                                       !.late = capture.late \cap Active]
      BY <1>3 DEF ReadCapture
    <2>4. CASE capture' = NoCapture
      BY <1>0, <2>4 DEF CaptureInv, NoCapture
    <2>5. ASSUME capture'.pc = "read", capture' # NoCapture
          PROVE  /\ capture'.of = Active \ capture.late
                 /\ capture'.late = capture.late \cap Active
      BY <1>0, <2>3, <2>5 DEF CaptureOK
    <2> QED
      BY <1>0, <2>1, <2>2, <2>4, <2>5 DEF CaptureInv
  <1>4. ASSUME NEW a \in Ids, Balance(a), accounts' = accounts PROVE CaptureInv'
    <2>1. capture'.pc = "read" => capture' = capture
      BY <1>0, <1>4, BalanceStep
    <2> QED
      BY <1>0, <1>4, <2>1 DEF CaptureInv, Active, Ids
  <1>5. ASSUME NEW name \in Names, Create(name), now' = now PROVE CaptureInv'
    <2>1. /\ Active' = Active \cup {Len(accounts) + 1}
          /\ accounts'[Len(accounts) + 1].since = now
          /\ \A a \in Active : accounts'[a] = accounts[a]
          /\ Len(accounts) + 1 \in Ids' /\ Ids \subseteq Ids'
      BY <1>0, <1>5, CreateAccounts DEF Active
    <2>2. capture.at \in Nat /\ ~(now < capture.at)
      BY <1>0 DEF CaptureOK
    <2>3. CaptureOK(capture, Ids', now) /\ Balance(Len(accounts) + 1)
      BY <1>0, <1>5, <2>1 DEF CaptureOK, Create
    <2>4. capture'.pc = "read" => capture' = capture
      BY <2>1, <2>3, BalanceStep
    <2> QED
      BY <1>0, <2>1, <2>2, <2>4 DEF CaptureInv
  <1>6. ASSUME NEW a \in Ids, Delete(a) PROVE CaptureInv'
    <2>1. /\ Active' = Active \ {a} /\ capture' = capture
          /\ \A b \in Active : accounts'[b].since = accounts[b].since
      BY <1>0, <1>6, DeleteAccounts DEF Delete, memory, Active
    <2> QED
      BY <1>0, <2>1 DEF CaptureInv
  <1> QED
    BY <1>1, <1>2, <1>3, <1>4, <1>5, <1>6, CaptureStep, AccountsStep

LEMMA PointsStay ==
  ASSUME CaptureInv, [Next]_vars, NEW b \in DOMAIN points
  PROVE  /\ b \in DOMAIN points'
         /\ \A a \in points[b] \cap Active :
               accounts[a].since < b => a \in points'[b] \/ Overtaken(a, b)
  <1>0. TypeInv /\ b \in Nat /\ now \in Nat
    BY DEF CaptureInv, TypeInv, PointsOK, AccountsOK
  <1>1. CASE points' = Backfilled
    <2>1. CASE b \in WholeBuckets
      <3>1. ASSUME NEW a \in Active, accounts[a].since < b PROVE a \in Eligible(b)
        <4>1. accounts[a].since \in Nat
          <5>1. accounts[a] \in AccountType
            BY <1>0, AccountTyped DEF TypeInv, Active
          <5> QED
            BY <5>1 DEF AccountType
        <4> QED
          BY <1>0, <3>1, <4>1 DEF Eligible
      <3>2. Covered(b) = Eligible(b)
        BY <2>1 DEF WholeBuckets
      <3> QED
        BY <1>1, <2>1, <3>1, <3>2 DEF Backfilled
    <2>2. CASE b \notin WholeBuckets
      BY <1>1, <2>2 DEF Backfilled
    <2> QED
      BY <2>1, <2>2
  <1>2. CASE CommitCapture
    BY <1>2 DEF CommitCapture, Sampled, CaptureInv, Overtaken
  <1>3. \/ points' = Backfilled \/ CommitCapture \/ points' = points
    BY DEF Next, Tick, Start, Provision, Add, Create, Delete, MoveCalendar, Backfill,
         Sync, StartCapture, ReadCapture, FailCapture, ScriptBackfill, Retention, Ask,
         Query, Serve, ExpireEntry, Crash, vars, database
  <1> QED
    BY <1>1, <1>2, <1>3

\* A point that is written again, by a backfill in any process or a capture,
\* keeps every account that is active and was when its bucket began, unless that
\* capture took its time before the account was synchronised and read it after.
THEOREM SpecPointsKeepAccounts == Spec => PointsKeepAccounts
  <1>1. Init => CaptureInv
    BY TypeInit DEF Init, CaptureInv, NoCapture
  <1>2. CaptureInv /\ [Next]_vars
        => [\A b \in DOMAIN points :
              /\ b \in DOMAIN points'
              /\ \A a \in points[b] \cap Active :
                    accounts[a].since < b => a \in points'[b] \/ Overtaken(a, b)]_vars
    BY PointsStay
  <1> QED
    BY <1>1, <1>2, CaptureNext, PTL DEF Spec, PointsKeepAccounts

(***************************************************************************)
(* The cached curve.                                                       *)
(***************************************************************************)
Request == [pc : {"idle", "asked", "read", "served"}, key : Nat,
            must : SUBSET Nat, curve : SUBSET Nat]

RequestOK(q) ==
    /\ q.pc \in {"asked", "read"} =>
          /\ q.key \in 0 .. now
          /\ q.must \subseteq DOMAIN points
          /\ q.key = now => settled = q.must
    /\ q.pc \in {"read", "served"} => q.must \subseteq q.curve

\* An entry or a request of the present bucket has what was settled before it;
\* those of earlier buckets are asked for no more.
CurveInv ==
    /\ now \in Nat
    /\ settled \subseteq DOMAIN points
    /\ \A k \in DOMAIN cache :
          /\ k \in 0 .. now /\ cache[k] \subseteq Nat
          /\ k = now => settled \subseteq cache[k]
    /\ request \in [Requests -> Request]
    /\ \A r \in Requests : RequestOK(request[r])

\* buckets of points are never removed, and are numbers
LEMMA PointsMove ==
  ASSUME CaptureInv, [Next]_vars
  PROVE  DOMAIN points \subseteq DOMAIN points' /\ DOMAIN points \subseteq Nat
  BY PointsStay DEF CaptureInv, TypeInv, PointsOK, AccountsOK

\* steps that change neither clock nor requests, and only take from the cache
LEMMA QuietCurve ==
  ASSUME CurveInv, DOMAIN points \subseteq DOMAIN points', UNCHANGED <<now, settled, request>>,
         cache' = cache \/ cache' = << >>
  PROVE  CurveInv'
  <1>1. \A r \in Requests : RequestOK(request[r])'
    BY DEF CurveInv, RequestOK
  <1>2. \A k \in DOMAIN cache' : cache' = cache
    OBVIOUS
  <1> QED
    BY <1>1, <1>2 DEF CurveInv

LEMMA CurveNext == CaptureInv /\ CurveInv /\ [Next]_vars => CurveInv'
  <1> SUFFICES ASSUME CaptureInv, CurveInv, [Next]_vars PROVE CurveInv'
    OBVIOUS
  <1>0. /\ DOMAIN points \subseteq DOMAIN points' /\ DOMAIN points \subseteq Nat
        /\ now \in Nat
    BY PointsMove DEF CurveInv
  <1>1. CASE Tick
    <2>1. /\ now' = now + 1 /\ settled' = DOMAIN points /\ points' = points
          /\ cache' = cache /\ request' = request
      BY <1>1 DEF Tick, database, memory
    <2>2. \A k \in DOMAIN cache : k \in 0 .. now' /\ k # now'
      BY <1>0, <2>1 DEF CurveInv
    <2>3. \A r \in Requests : request[r].pc \in {"asked", "read"} =>
             request[r].key \in 0 .. now' /\ request[r].key # now'
      BY <1>0, <2>1 DEF CurveInv, RequestOK
    <2>4. \A r \in Requests : RequestOK(request[r])'
      BY <2>1, <2>3 DEF CurveInv, RequestOK
    <2> QED
      BY <1>0, <2>1, <2>2, <2>4 DEF CurveInv
  <1>2. ASSUME NEW r \in Requests, Ask(r) PROVE CurveInv'
    <2> DEFINE answer == [pc |-> IF now \in DOMAIN cache THEN "served" ELSE "asked",
                          key |-> now, must |-> settled,
                          curve |-> IF now \in DOMAIN cache THEN cache[now] ELSE {}]
    <2>1. /\ request' = [request EXCEPT ![r] = answer]
          /\ UNCHANGED <<now, settled, points, cache>>
      BY <1>2 DEF Ask, CacheKey, database
    <2>2. answer \in Request /\ RequestOK(answer)
      BY <1>0 DEF CurveInv, Request, RequestOK
    <2> HIDE DEF answer
    <2> QED
      BY <2>1, <2>2 DEF CurveInv, RequestOK
  <1>3. ASSUME NEW r \in Requests, Query(r) PROVE CurveInv'
    <2> DEFINE answer == [request[r] EXCEPT !.pc = "read", !.curve = DOMAIN points]
    <2>1. /\ request' = [request EXCEPT ![r] = answer]
          /\ UNCHANGED <<now, settled, points, cache>>
          /\ request[r].pc = "asked"
      BY <1>3 DEF Query, database
    <2>2. answer \in Request /\ RequestOK(answer)
      BY <1>0, <2>1 DEF CurveInv, Request, RequestOK
    <2> HIDE DEF answer
    <2> QED
      BY <2>1, <2>2 DEF CurveInv, RequestOK
  <1>4. ASSUME NEW r \in Requests, Serve(r) PROVE CurveInv'
    <2> DEFINE answer == [request[r] EXCEPT !.pc = "served"]
    <2>1. /\ request' = [request EXCEPT ![r] = answer]
          /\ cache' = [k \in DOMAIN cache \cup {request[r].key} |->
                         IF k = request[r].key THEN request[r].curve ELSE cache[k]]
          /\ UNCHANGED <<now, settled, points>>
          /\ request[r].pc = "read" /\ request[r] \in Request
          /\ RequestOK(request[r])
      BY <1>4 DEF Serve, database, CurveInv
    <2>2. answer \in Request /\ RequestOK(answer)
      BY <2>1 DEF Request, RequestOK
    <2>3. \A k \in DOMAIN cache' :
             /\ k \in 0 .. now /\ cache'[k] \subseteq Nat
             /\ k = now => settled \subseteq cache'[k]
      BY <2>1 DEF CurveInv, Request, RequestOK
    <2> HIDE DEF answer
    <2> QED
      BY <2>1, <2>2, <2>3 DEF CurveInv, RequestOK
  <1>5. ASSUME NEW k \in DOMAIN cache, ExpireEntry(k) PROVE CurveInv'
    BY <1>5 DEF ExpireEntry, database, CurveInv, RequestOK
  <1>6. CASE Crash
    <2>1. NoRequest \in Request /\ RequestOK(NoRequest)
      BY DEF NoRequest, Request, RequestOK
    <2>2. /\ UNCHANGED <<now, settled, points>> /\ cache' = << >>
          /\ request' = [r \in Requests |-> NoRequest]
      BY <1>6 DEF Crash, database
    <2> QED
      BY <2>1, <2>2 DEF CurveInv, RequestOK
  <1>7. \/ Tick
        \/ \E r \in Requests : Ask(r) \/ Query(r) \/ Serve(r)
        \/ \E k \in DOMAIN cache : ExpireEntry(k)
        \/ Crash
        \/ UNCHANGED <<now, settled, request>> /\ (cache' = cache \/ cache' = << >>)
    BY DEF Next, Start, Provision, Add, Delete, MoveCalendar, Backfill,
         ReadCapture, FailCapture, Afterwards, Sync, StartCapture, CommitCapture, ScriptBackfill,
         Retention, vars, memory
  <1> QED
    BY <1>0, <1>1, <1>2, <1>3, <1>4, <1>5, <1>6, <1>7, QuietCurve

\* A curve that is served has every bucket sampled before the bucket of its
\* request began, however slow the query was and whichever capture cleared the
\* cache meanwhile: the key of an entry is the bucket of its request.
THEOREM SpecCurveHasEarlierBuckets == Spec => []CurveHasEarlierBuckets
  <1>1. Init => CaptureInv /\ CurveInv
    <2> SUFFICES ASSUME Init PROVE CaptureInv /\ CurveInv
      OBVIOUS
    <2>1. CaptureInv
      BY TypeInit DEF Init, CaptureInv, NoCapture
    <2>2. NoRequest \in Request /\ RequestOK(NoRequest)
      BY DEF NoRequest, Request, RequestOK
    <2>3. CurveInv
      BY <2>2 DEF Init, CurveInv, RequestOK
    <2> QED
      BY <2>1, <2>3
  <1>2. CurveInv => CurveHasEarlierBuckets
    BY DEF CurveInv, CurveHasEarlierBuckets, RequestOK
  <1> QED
    BY <1>1, <1>2, CaptureNext, CurveNext, PTL DEF Spec

(***************************************************************************)
(* Configured accounts.                                                    *)
(***************************************************************************)
Provided(name) == name \in excused \/ \E a \in Active : accounts[a].name = name

ProvisionInv ==
    /\ AccountsOK
    /\ pc # "down" => \A name \in Enabled : name \in todo \/ Provided(name)
    /\ pc \in {"backfill", "capture", "serving"} => todo = {}

LEMMA ProvisionNext == ProvisionInv /\ [Next]_vars => ProvisionInv'
  <1> SUFFICES ASSUME ProvisionInv, [Next]_vars PROVE ProvisionInv'
    OBVIOUS
  <1>0. AccountsOK /\ AccountsOK'
    BY AccountsNext DEF ProvisionInv
  <1>1. ASSUME NEW name \in Enabled, Provided(name), pc # "down"
        PROVE  Provided(name)'
    <2>1. excused \subseteq excused'
      BY <1>1 DEF Next, Tick, Start, Provision, Add, Create, Delete, MoveCalendar,
           Backfill, ReadCapture, FailCapture, Afterwards, Sync, StartCapture, CommitCapture,
           ScriptBackfill, Retention, Ask, Query, Serve, ExpireEntry, Crash, vars
    <2>2. CASE name \in excused
      BY <2>1, <2>2 DEF Provided
    <2>3. ASSUME NEW a \in Active, accounts[a].name = name PROVE Provided(name)'
      <3>1. CASE accounts' = accounts
        BY <2>3, <3>1 DEF Provided, Active, Ids
      <3>2. ASSUME NEW other \in Names, Create(other), now' = now PROVE Provided(name)'
        BY <1>0, <2>3, <3>2, CreateAccounts DEF Provided, Active
      <3>3. ASSUME NEW b \in Ids, Delete(b) PROVE Provided(name)'
        <4>1. /\ Active' = Active \ {b} /\ accounts'[a].name = accounts[a].name
              /\ excused' = excused \cup ({accounts[b].name} \cap Enabled)
          BY <1>0, <2>3, <3>3, DeleteAccounts DEF Delete, Active
        <4> QED
          BY <2>3, <4>1 DEF Provided
      <3> QED
        BY <3>1, <3>2, <3>3, AccountsStep
    <2> QED
      BY <1>1, <2>2, <2>3 DEF Provided
  <1>2. CASE Start
    BY <1>0, <1>2 DEF Start, ProvisionInv
  <1>3. CASE Crash
    BY <1>0, <1>3 DEF Crash, ProvisionInv
  <1>4. ASSUME NEW name \in Names, Provision(name) PROVE ProvisionInv'
    <2>1. Provided(name)'
      <3>1. CASE Existing(name) /\ UNCHANGED <<database, traces, excused>>
        BY <3>1 DEF Existing, database, Provided, Active, Ids
      <3>2. CASE Create(name)
        BY <1>0, <1>4, <3>2, CreateAccounts DEF Provision, Provided
      <3>3. CASE excused' = excused \cup {name}
        BY <3>3 DEF Provided
      <3> QED
        BY <1>4, <3>1, <3>2, <3>3 DEF Provision
    <2>2. pc = "provision" /\ pc' = pc /\ todo' = todo \ {name}
      BY <1>4 DEF Provision
    <2> QED
      BY <1>0, <1>1, <2>1, <2>2 DEF ProvisionInv
  <1>5. CASE MoveCalendar
    <2>1. pc = "provision" /\ todo = {} /\ todo' = todo
      BY <1>5 DEF MoveCalendar
    <2> QED
      BY <1>0, <1>1, <2>1 DEF ProvisionInv
  <1>6. CASE /\ todo' = todo
             /\ \/ pc' = pc
                \/ pc = "backfill" /\ pc' = "capture"
                \/ pc = "capture" /\ pc' = "serving"
    BY <1>0, <1>1, <1>6 DEF ProvisionInv
  <1>7. \/ Start \/ Crash \/ MoveCalendar
        \/ \E name \in Names : Provision(name)
        \/ /\ todo' = todo
           /\ \/ pc' = pc
              \/ pc = "backfill" /\ pc' = "capture"
              \/ pc = "capture" /\ pc' = "serving"
    BY DEF Next, Tick, Add, Delete, Backfill, ReadCapture, FailCapture, Afterwards, Sync, StartCapture,
         CommitCapture, ScriptBackfill, Retention, Ask, Query, Serve, ExpireEntry,
         vars, memory
  <1> QED
    BY <1>2, <1>3, <1>4, <1>5, <1>6, <1>7

\* A running server has an active account under every enabled name, save those
\* whose creation failed at its startup or that were deleted since.
THEOREM SpecProvisioned == Spec => []Provisioned
  <1>1. Init => ProvisionInv
    BY TypeInit DEF Init, ProvisionInv, TypeInv
  <1>2. ProvisionInv => Provisioned
    BY DEF ProvisionInv, Provisioned, Provided
  <1> QED
    BY <1>1, <1>2, ProvisionNext, PTL DEF Spec
(***************************************************************************)
(* The calendar move. A set of numbers has a least element: no theorem of  *)
(* the library says so, but the strict inclusion of the intervals 0 .. j   *)
(* is well founded, and a minimal interval ends in the least number.       *)
(***************************************************************************)
LEMMA Least ==
  ASSUME NEW T, T \subseteq Nat, T # {}
  PROVE  \E x \in T : \A y \in T : x <= y
  <1>1. PICK n \in T : TRUE
    OBVIOUS
  <1> DEFINE D == {0 .. k : k \in {j \in T : j <= n}}
  <1>2. D \subseteq SUBSET (0 .. n) /\ D # {}
    BY <1>1
  <1>3. IsWellFoundedOn(StrictSubsetOrdering(0 .. n), SUBSET (0 .. n))
    <2>1. 0 \in Int /\ n \in Int
      BY <1>1
    <2>2. IsFiniteSet(0 .. n)
      BY <2>1, FS_Interval
    <2> QED
      BY <2>2, FS_StrictSubsetOrderingWellFounded, FS_FiniteSubsetsOfFinite
  <1> HIDE DEF D
  <1>4. PICK x \in D : \A y \in D : ~ (<<y, x>> \in StrictSubsetOrdering(0 .. n))
    BY <1>2, <1>3, WFMin, Zenon
  <1>5. PICK k \in T : x = 0 .. k /\ k <= n
    BY DEF D
  <1>6. ASSUME NEW j \in T, ~(k <= j) PROVE FALSE
    <2>1. 0 .. j \in D
      BY <1>5, <1>6 DEF D
    <2>2. 0 .. j \in SUBSET (0 .. n) /\ 0 .. k \in SUBSET (0 .. n)
      BY <1>2, <1>5, <2>1
    <2>3. 0 .. j \subseteq 0 .. k /\ 0 .. j # 0 .. k
      BY <1>5, <1>6
    <2> QED
      BY <1>4, <1>5, <2>1, <2>2, <2>3 DEF StrictSubsetOrdering
  <1> QED
    BY <1>6

\* every row of the earlier version lives on in a set of rows
LivesIn(set) ==
    \A l \in legacy : \E d \in set :
        d.account = l.account /\ d.day = ReportDay(l.updated) /\ d.of >= l.of

\* until the move is committed the rows are those of the earlier version
MoveInv ==
    /\ TypeInv
    /\ \A l \in legacy : \E t \in 0 .. History - 1 : l = EarlierRow(t)
    /\ ~moved => daily = legacy
    /\ draft.made => LivesIn(draft.rows)
    /\ moved => LivesIn(daily)

\* Of the rows of one reporting day the move keeps the last: none is without one.
LEMMA MovedRowsLive ==
  ASSUME MoveInv, ~moved
  PROVE  LivesIn(MovedRows)
  <1>0. /\ now \in Nat /\ History <= now /\ daily = legacy
        /\ \A l \in legacy : \E t \in 0 .. History - 1 : l = EarlierRow(t)
    BY DEF MoveInv, TypeInv, AccountsOK
  <1>1. \A l \in legacy : /\ l.account = 1 /\ l.of = l.updated
                          /\ l.updated \in Nat /\ l.updated <= now
    BY <1>0 DEF EarlierRow
  <1> SUFFICES ASSUME NEW l \in legacy
               PROVE  \E d \in MovedRows : /\ d.account = l.account
                                           /\ d.day = ReportDay(l.updated) /\ d.of >= l.of
    BY DEF LivesIn
  <1> DEFINE Same == {e \in legacy : ReportDay(e.updated) = ReportDay(l.updated)}
             Ages == {now - e.updated : e \in Same}
  <1>2. Ages \subseteq Nat /\ Ages # {}
    BY <1>0, <1>1
  <1>3. PICK x \in Ages : \A y \in Ages : x <= y
    BY <1>2, Least
  <1>4. PICK e \in Same : x = now - e.updated
    OBVIOUS
  <1>5. ASSUME NEW f \in Same PROVE f.updated <= e.updated
    <2>1. x <= now - f.updated
      BY <1>3
    <2> QED
      BY <1>0, <1>1, <1>4, <2>1
  <1>6. l.of <= e.of /\ e.account = l.account
    BY <1>1, <1>4, <1>5
  <1> DEFINE d == [account |-> e.account, day |-> ReportDay(e.updated),
                   of |-> e.of, updated |-> now]
  <1>7. d \in MovedRows
    BY <1>0, <1>4, <1>5 DEF MovedRows
  <1>8. d.account = l.account /\ d.day = ReportDay(l.updated) /\ d.of >= l.of
    BY <1>1, <1>4, <1>6
  <1> QED
    BY <1>7, <1>8

LEMMA MoveInit == Init => MoveInv
  <1> SUFFICES ASSUME Init PROVE MoveInv
    OBVIOUS
  <1>1. TypeInv /\ daily = legacy /\ ~moved /\ ~draft.made
    BY TypeInit DEF Init, NoDraft
  <1> QED
    BY <1>1 DEF MoveInv, TypeInv

LEMMA MoveNext == MoveInv /\ [Next]_vars => MoveInv'
  <1> SUFFICES ASSUME MoveInv, [Next]_vars PROVE MoveInv'
    OBVIOUS
  <1>0. /\ TypeInv /\ TypeInv' /\ legacy' = legacy /\ now \in Nat /\ History <= now
    <2>1. legacy' = legacy
      BY DEF Next, Tick, Start, Provision, Add, Delete, MoveCalendar, Backfill,
           ReadCapture, FailCapture, Afterwards, Sync, StartCapture, CommitCapture, ScriptBackfill,
           Retention, Ask, Query, Serve, ExpireEntry, Crash, vars
    <2>2. TypeInv /\ TypeInv'
      BY TypeNext DEF MoveInv
    <2>3. now \in Nat /\ History <= now
      BY <2>2 DEF TypeInv, AccountsOK
    <2> QED
      BY <2>1, <2>2, <2>3
  <1>1. (\A l \in legacy : \E t \in 0 .. History - 1 : l = EarlierRow(t))'
    BY <1>0 DEF MoveInv, EarlierRow, UtcDay
  <1>2. ASSUME NEW set PROVE LivesIn(set)' <=> LivesIn(set)
    BY <1>0 DEF LivesIn, ReportDay
  <1>3. ASSUME NEW a \in Ids, Sync(a) PROVE MoveInv'
    <2> DEFINE row == [account |-> a, day |-> ReportDay(now), of |-> now, updated |-> now]
    <2>1. /\ daily' = {d \in daily : d.account # a \/ d.day # ReportDay(now)} \cup {row}
          /\ moved' = moved /\ draft' = draft /\ moved
      BY <1>3 DEF Sync, memory, MoveInv, TypeInv, TraceInv
    <2>2. row.account = a /\ row.day = ReportDay(now) /\ row.of = now
      OBVIOUS
    <2> HIDE DEF row
    <2>3. \A l \in legacy : l.of \in Nat /\ l.of <= now
      BY <1>0 DEF MoveInv, EarlierRow
    <2>4. ASSUME NEW l \in legacy
          PROVE  \E d \in daily' : /\ d.account = l.account
                                   /\ d.day = ReportDay(l.updated) /\ d.of >= l.of
      <3>1. PICK d \in daily : /\ d.account = l.account
                               /\ d.day = ReportDay(l.updated) /\ d.of >= l.of
        BY <2>1 DEF MoveInv, LivesIn
      <3>2. CASE d.account = a /\ d.day = ReportDay(now)
        BY <1>0, <2>1, <2>2, <2>3, <3>1, <3>2
      <3>3. CASE ~(d.account = a /\ d.day = ReportDay(now))
        BY <2>1, <3>1, <3>3
      <3> QED
        BY <3>2, <3>3
    <2>5. LivesIn(daily')
      BY <2>4 DEF LivesIn
    <2> QED
      BY <1>0, <1>1, <1>2, <2>1, <2>5 DEF MoveInv
  <1>4. CASE MoveCalendar
    <2>1. daily' = daily /\ moved' = moved
      BY <1>4 DEF MoveCalendar, database
    <2>2. draft'.made => ~moved /\ draft'.rows = MovedRows
      BY <1>4 DEF MoveCalendar, NoDraft
    <2>3. draft'.made => LivesIn(draft'.rows)
      BY <2>2, MovedRowsLive
    <2> QED
      BY <1>0, <1>1, <1>2, <2>1, <2>3 DEF MoveInv
  <1>5. CASE Backfill
    <2>1. /\ daily' = IF draft.made THEN draft.rows ELSE daily
          /\ moved' = (moved \/ draft.made) /\ ~draft'.made
      BY <1>5 DEF Backfill, NoDraft
    <2>2. moved' => LivesIn(daily')
      BY <2>1 DEF MoveInv
    <2>3. ~moved' => daily' = legacy
      BY <1>0, <2>1 DEF MoveInv, TypeInv, TraceInv
    <2> QED
      BY <1>0, <1>1, <1>2, <2>1, <2>2, <2>3 DEF MoveInv
  <1>6. CASE Crash
    <2>1. daily' = daily /\ moved' = moved /\ ~draft'.made
      BY <1>6 DEF Crash, database, NoDraft
    <2> QED
      BY <1>0, <1>1, <1>2, <2>1 DEF MoveInv
  <1>7. CASE daily' = daily /\ draft' = draft /\ moved' = moved
    BY <1>0, <1>1, <1>2, <1>7 DEF MoveInv
  <1>8. \/ \E a \in Ids : Sync(a)
        \/ MoveCalendar \/ Backfill \/ Crash
        \/ daily' = daily /\ draft' = draft /\ moved' = moved
    BY DEF Next, Tick, Start, Provision, Add, Create, Delete, ReadCapture, FailCapture, Afterwards,
         StartCapture, CommitCapture, ScriptBackfill, Retention, Ask, Query,
         Serve, ExpireEntry, vars, database, memory
  <1> QED
    BY <1>3, <1>4, <1>5, <1>6, <1>7, <1>8

\* The calendar is moved once and completely: every daily row of the earlier
\* version, or a later one of its reporting day, is there after the move,
\* whatever restarts interrupt it (rebuild_daily_pnl_reporting_calendar, whose
\* rows and marker commit together with the backfill).
THEOREM SpecDaysMovedOnce == Spec => []DaysMovedOnce
  <1>1. MoveInv => DaysMovedOnce
    BY DEF MoveInv, LivesIn, DaysMovedOnce
  <1> QED
    BY <1>1, MoveInit, MoveNext, PTL DEF Spec
=============================================================================
