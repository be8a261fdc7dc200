------------------------ MODULE Translation_proofs ------------------------
(***************************************************************************)
(* Theorems about Translation for any assets, texts, synchronisations and   *)
(* workers.                                                                 *)
(***************************************************************************)
EXTENDS Translation, TLAPS

\* The functions of a subset of S into T are those of UNION {[A -> T] : ...}.
LEMMA PartialFunction ==
  ASSUME NEW S, NEW T, NEW A \in SUBSET S, NEW f \in [A -> T]
  PROVE  f \in UNION {[B -> T] : B \in SUBSET S}
OBVIOUS

\* What a partial function is.
LEMMA PartialDomain ==
  ASSUME NEW S, NEW T, NEW f \in UNION {[B -> T] : B \in SUBSET S}
  PROVE  DOMAIN f \in SUBSET S /\ f \in [DOMAIN f -> T]
OBVIOUS

\* A reset row is a row, pending and with no attempt used.
LEMMA ResetType ==
  ASSUME NEW row \in Row, NEW text \in Texts
  PROVE  /\ Reset(row, text) \in Row
         /\ Reset(row, text).source = text /\ Reset(row, text).translation = NoText
         /\ Reset(row, text).status = "PENDING" /\ Reset(row, text).attempts = 0
         /\ Reset(row, text).last = Never
<1> DEFINE a == [row EXCEPT !.source = text]
           b == [a EXCEPT !.translation = NoText]
           c == [b EXCEPT !.status = "PENDING"]
           d == [c EXCEPT !.attempts = 0]
           e == [d EXCEPT !.last = Never]
<1>1. b \in Row
  BY DEF Row
<1>2. c \in Row /\ 0 \in 0 .. MaxAttempts
  <2>1. 0 \in 0 .. MaxAttempts
    BY NumbersAssumption
  <2>. QED
    BY <1>1, <2>1 DEF Row
<1>3. d \in Row
  BY <1>2 DEF Row
<1>4. e \in Row
  BY <1>3 DEF Row
<1>. QED
  BY <1>4 DEF Reset, Row

\* So is a new row.
LEMMA NewRowType ==
  ASSUME NEW text \in Texts
  PROVE  /\ NewRow(text) \in Row
         /\ NewRow(text).status = "PENDING" /\ NewRow(text).attempts = 0
BY NumbersAssumption DEF NewRow, Row

\* The columns of a flushed row: each is the new one where it differs from the
\* loaded one.
LEMMA FlushedRow ==
  ASSUME NEW loaded \in Row, NEW stored \in Row, NEW text \in Texts
  PROVE  LET new == Flushed(loaded, Reset(loaded, text), stored) IN
         /\ new \in Row
         /\ new.status = IF loaded.status # "PENDING" THEN "PENDING" ELSE stored.status
         /\ new.attempts = IF loaded.attempts # 0 THEN 0 ELSE stored.attempts
         /\ loaded = stored => new.status = "PENDING"
<1> DEFINE reset == Reset(loaded, text)
           new == Flushed(loaded, reset, stored)
<1>1. /\ reset \in Row
      /\ reset.status = "PENDING" /\ reset.attempts = 0
  BY ResetType
<1>2. new = [c \in DOMAIN reset |-> IF reset[c] # loaded[c] THEN reset[c] ELSE stored[c]]
  BY DEF Flushed
<1>3. new = [source |-> IF reset.source # loaded.source THEN reset.source ELSE stored.source,
             translation |-> IF reset.translation # loaded.translation
                             THEN reset.translation ELSE stored.translation,
             status |-> IF reset.status # loaded.status THEN reset.status ELSE stored.status,
             attempts |-> IF reset.attempts # loaded.attempts
                          THEN reset.attempts ELSE stored.attempts,
             last |-> IF reset.last # loaded.last THEN reset.last ELSE stored.last]
  <2> HIDE DEF reset
  <2>. QED
    BY <1>1, <1>2 DEF Row
<1>4. new \in Row
  <2> HIDE DEF reset, new
  <2>. QED
    BY <1>1, <1>3 DEF Row
<1>. QED
  <2> HIDE DEF reset, new
  <2>1. new.status = IF loaded.status # "PENDING" THEN "PENDING" ELSE stored.status
    BY <1>1, <1>3
  <2>2. new.attempts = IF loaded.attempts # 0 THEN 0 ELSE stored.attempts
    BY <1>1, <1>3
  <2>3. loaded = stored => new.status = "PENDING"
    BY <2>1
  <2>4. QED
    BY <1>4, <2>1, <2>2, <2>3 DEF new, reset

\* A tried row is a row, and if it is ready its translation is that of its text.
LEMMA TriedType ==
  ASSUME NEW row \in Row, row.attempts < MaxAttempts, clock \in Times
  PROVE  /\ Translated(row) \in Row /\ Failed(row) \in Row
         /\ Translated(row).source = row.source /\ Translated(row).translation = row.source
         /\ Translated(row).status = "READY" /\ Failed(row).status = "FAILED"
         /\ Translated(row).attempts = row.attempts + 1
         /\ Failed(row).attempts = row.attempts + 1
<1>1. row.attempts + 1 \in 0 .. MaxAttempts
  BY NumbersAssumption DEF Row
<1>2. /\ Tried(row) \in Row
      /\ Tried(row).source = row.source /\ Tried(row).attempts = row.attempts + 1
  BY <1>1 DEF Tried, Row
<1>3. /\ Translated(row) \in Row
      /\ Translated(row).source = row.source /\ Translated(row).translation = row.source
      /\ Translated(row).status = "READY" /\ Translated(row).attempts = row.attempts + 1
  <2> HIDE DEF Tried
  <2>. QED
    BY <1>2 DEF Translated, Row
<1>4. Failed(row) \in Row /\ Failed(row).status = "FAILED"
      /\ Failed(row).attempts = row.attempts + 1
  BY <1>2 DEF Failed, Row
<1>. QED
  BY <1>3, <1>4

-----------------------------------------------------------------------------
(* The inductive invariant *)

\* PendingHasAllAttempts and ShownIsOfItsSource for one row.
AllAttempts(row) == row.status = "PENDING" <=> row.attempts = 0
OfItsText(row) == row.status = "READY" => row.translation = row.source

\* The committed rows.
RowsInv == \A a \in Assets : rows[a] # NoRow =>
             AllAttempts(rows[a]) /\ (~overtaken[a] => OfItsText(rows[a]))

\* A capture goes on with the sources that are new or changed; the rows it loaded are
\* still there, and were consistent when it loaded them.
SyncInv ==
  \A s \in Syncs :
    /\ sync[s].written \subseteq DOMAIN sync[s].answer
    /\ DOMAIN sync[s].loaded = DOMAIN sync[s].answer
    /\ \A a \in DOMAIN sync[s].answer : Changed(sync[s].loaded[a], sync[s].answer[a])
    /\ \A a \in DOMAIN sync[s].loaded : sync[s].loaded[a] # NoRow =>
          rows[a] # NoRow /\ AllAttempts(sync[s].loaded[a])

\* A batch holds rows that are consistent, and those left have an attempt left.
WorkerInv ==
  \A w \in Workers :
    /\ worker[w].left \subseteq DOMAIN worker[w].rows
    /\ \A a \in DOMAIN worker[w].rows :
          AllAttempts(worker[w].rows[a]) /\ OfItsText(worker[w].rows[a])
    /\ \A a \in worker[w].left : worker[w].rows[a].attempts < MaxAttempts

IInv == TypeOK /\ RowsInv /\ SyncInv /\ WorkerInv

\* Releasing locks keeps their type.
LEMMA ReleaseType ==
  ASSUME TypeOK, NEW who, Release(who)
  PROVE  lock' \in [Assets -> Syncs \cup Workers \cup {Free}]
BY DEF TypeOK, Release

\* The idle records have their types.
LEMMA IdleType == IdleSync \in SyncState /\ IdleWorker \in WorkerState
<1>1. /\ <<>> \in UNION {[A -> Texts] : A \in SUBSET Assets}
      /\ <<>> \in UNION {[A -> Row \cup {NoRow}] : A \in SUBSET Assets}
      /\ <<>> \in UNION {[A -> Row] : A \in SUBSET Assets}
  <2>1. \A T : <<>> \in [{} -> T]
    OBVIOUS
  <2>2. {} \in SUBSET Assets
    OBVIOUS
  <2>3. \A T : <<>> \in UNION {[A -> T] : A \in SUBSET Assets}
    BY <2>1, <2>2
  <2>. QED
    BY <2>3
<1>. QED
  BY <1>1 DEF IdleSync, IdleWorker, SyncState, WorkerState

LEMMA InitIInv == Init => IInv
<1> SUFFICES ASSUME Init PROVE IInv
  OBVIOUS
<1>1. TypeOK
  BY IdleType, NumbersAssumption DEF Init, TypeOK, Times
<1>2. RowsInv /\ SyncInv /\ WorkerInv
  BY DEF Init, RowsInv, SyncInv, WorkerInv, IdleSync, IdleWorker
<1>. QED
  BY <1>1, <1>2 DEF IInv

-----------------------------------------------------------------------------
(* The steps of a capture *)

LEMMA ReadRowsIInv ==
  ASSUME IInv, NEW s \in Syncs, ReadRows(s)
  PROVE  IInv'
<1>10. PICK B \in SUBSET Assets : \E given \in [B -> Texts] :
        LET changed == {a \in B : Changed(rows[a], given[a])}
        IN sync' = [sync EXCEPT ![s] =
             [pc |-> "read", answer |-> Restrict(given, changed),
              loaded |-> Restrict(rows, changed), written |-> {}]]
  BY DEF ReadRows
<1>1. PICK given \in [B -> Texts] :
        LET changed == {a \in B : Changed(rows[a], given[a])}
        IN sync' = [sync EXCEPT ![s] =
             [pc |-> "read", answer |-> Restrict(given, changed),
              loaded |-> Restrict(rows, changed), written |-> {}]]
  BY <1>10
<1> DEFINE A == {a \in B : Changed(rows[a], given[a])}
           answer == Restrict(given, A)
           new == [pc |-> "read", answer |-> answer,
                   loaded |-> Restrict(rows, A), written |-> {}]
<1>2. sync' = [sync EXCEPT ![s] = new]
  BY <1>1
<1>3. A \in SUBSET Assets /\ A \subseteq B
  OBVIOUS
<1>4. /\ Restrict(rows, A) = [a \in A |-> rows[a]]
      /\ answer = [a \in A |-> given[a]]
  BY DEF Restrict
<1>5. Restrict(rows, A) \in [A -> Row \cup {NoRow}] /\ answer \in [A -> Texts]
  BY <1>3, <1>4 DEF IInv, TypeOK
<1>11. \A a \in A : Changed(rows[a], answer[a])
  BY <1>4
<1> HIDE DEF A, answer
<1>6. new \in SyncState
  <2>1. /\ answer \in UNION {[C -> Texts] : C \in SUBSET Assets}
        /\ Restrict(rows, A) \in UNION {[C -> Row \cup {NoRow}] : C \in SUBSET Assets}
    BY <1>3, <1>5, PartialFunction
  <2>. QED
    BY <2>1 DEF SyncState
<1>7. TypeOK'
  BY <1>2, <1>6 DEF IInv, TypeOK, ReadRows
<1>8. SyncInv'
  <2>1. \A a \in A : rows[a] # NoRow => AllAttempts(rows[a])
    BY <1>3 DEF IInv, RowsInv
  <2>2. sync'[s] = new /\ \A t \in Syncs \ {s} : sync'[t] = sync[t]
    BY <1>2 DEF IInv, TypeOK
  <2>3. rows' = rows
    BY DEF ReadRows
  <2>. QED
    BY <2>1, <2>2, <2>3, <1>4, <1>11 DEF IInv, SyncInv, Changed
<1>9. RowsInv' /\ WorkerInv'
  BY DEF IInv, RowsInv, WorkerInv, ReadRows
<1>. QED
  BY <1>7, <1>8, <1>9 DEF IInv

LEMMA WriteRowIInv ==
  ASSUME IInv, NEW s \in Syncs, NEW a \in Assets, WriteRow(s, a)
  PROVE  IInv'
<1>1. /\ sync' = [sync EXCEPT ![s].written = @ \cup {a}]
      /\ a \in DOMAIN sync[s].answer
  BY DEF WriteRow, ToWrite
<1>2. sync[s] \in SyncState
  BY DEF IInv, TypeOK
<1>3. /\ sync'[s] = [sync[s] EXCEPT !.written = @ \cup {a}]
      /\ \A t \in Syncs \ {s} : sync'[t] = sync[t]
      /\ DOMAIN sync' = Syncs
  BY <1>1 DEF IInv, TypeOK
<1>4. /\ sync'[s] \in SyncState
      /\ sync'[s].written = sync[s].written \cup {a}
      /\ sync'[s].answer = sync[s].answer /\ sync'[s].loaded = sync[s].loaded
  BY <1>2, <1>3 DEF SyncState
<1>5. TypeOK'
  <2>1. sync' \in [Syncs -> SyncState]
    BY <1>1, <1>3, <1>4 DEF IInv, TypeOK
  <2>. QED
    BY <2>1 DEF IInv, TypeOK, WriteRow
<1>6. SyncInv'
  BY <1>1, <1>3, <1>4 DEF IInv, SyncInv, WriteRow
<1>7. RowsInv' /\ WorkerInv'
  BY DEF IInv, RowsInv, WorkerInv, WriteRow
<1>. QED
  BY <1>5, <1>6, <1>7 DEF IInv

\* A capture that stops without a commit leaves the rows as they are.
LEMMA StopIInv ==
  ASSUME IInv, NEW s \in Syncs, Stop(s), UNCHANGED <<clock, rows, worker, overtaken>>
  PROVE  IInv'
<1>1. sync' = [sync EXCEPT ![s] = IdleSync]
  BY DEF Stop
<1>2. TypeOK'
  BY <1>1, ReleaseType, IdleType DEF IInv, TypeOK, Stop
<1>3. SyncInv'
  BY <1>1 DEF IInv, TypeOK, SyncInv, IdleSync
<1>4. RowsInv' /\ WorkerInv'
  BY DEF IInv, RowsInv, WorkerInv
<1>. QED
  BY <1>2, <1>3, <1>4 DEF IInv

\* The commit of a capture: each row it writes is new, or the update of a row
\* that is still there.
LEMMA CommitSyncIInv ==
  ASSUME IInv, NEW s \in Syncs, CommitSync(s)
  PROVE  IInv'
<1> DEFINE loaded == sync[s].loaded
           text(a) == sync[s].answer[a]
<1>1. /\ sync[s] \in SyncState
      /\ DOMAIN sync[s].answer \in SUBSET Assets /\ DOMAIN loaded = DOMAIN sync[s].answer
      /\ sync[s].written \subseteq DOMAIN loaded
  <2>1. sync[s] \in SyncState
    BY DEF IInv, TypeOK
  <2>2. sync[s].answer \in UNION {[A -> Texts] : A \in SUBSET Assets}
    BY <2>1 DEF SyncState
  <2>3. DOMAIN sync[s].answer \in SUBSET Assets
    BY <2>2, PartialDomain
  <2>. QED
    BY <2>1, <2>3 DEF IInv, SyncInv
<1>2. ASSUME NEW a \in sync[s].written
      PROVE  /\ text(a) \in Texts /\ loaded[a] \in Row \cup {NoRow}
             /\ a \in Assets
             /\ rows[a] \in Row \cup {NoRow} /\ (loaded[a] # NoRow => rows[a] # NoRow)
  <2>1. /\ sync[s].answer \in [DOMAIN sync[s].answer -> Texts]
        /\ loaded \in [DOMAIN loaded -> Row \cup {NoRow}]
    <3>1. /\ sync[s].answer \in UNION {[A -> Texts] : A \in SUBSET Assets}
          /\ loaded \in UNION {[A -> Row \cup {NoRow}] : A \in SUBSET Assets}
      BY <1>1 DEF SyncState
    <3>. QED
      BY <3>1, PartialDomain
  <2>2. a \in DOMAIN loaded /\ a \in DOMAIN sync[s].answer /\ a \in Assets
    BY <1>1
  <2>. QED
    BY <2>1, <2>2 DEF IInv, TypeOK, SyncInv
<1>3. /\ \A a \in Assets \ sync[s].written : rows'[a] = rows[a] /\ overtaken'[a] = overtaken[a]
      /\ \A a \in sync[s].written : overtaken'[a] = (rows[a] # loaded[a])
      /\ \A a \in sync[s].written : loaded[a] = NoRow => rows'[a] = NewRow(text(a))
      /\ \A a \in sync[s].written : loaded[a] # NoRow =>
            rows'[a] = Flushed(loaded[a], Reset(loaded[a], text(a)), rows[a])
      /\ DOMAIN rows' = Assets /\ DOMAIN overtaken' = Assets
  BY <1>2 DEF CommitSync
<1>4. ASSUME NEW a \in Assets
      PROVE  /\ rows'[a] \in Row \cup {NoRow}
             /\ rows[a] # NoRow => rows'[a] # NoRow
             /\ rows'[a] # NoRow =>
                  AllAttempts(rows'[a]) /\ (~overtaken'[a] => OfItsText(rows'[a]))
  <2>1. CASE a \notin sync[s].written
    BY <2>1, <1>3 DEF IInv, TypeOK, RowsInv
  <2>2. CASE a \in sync[s].written /\ loaded[a] = NoRow
    BY <2>2, <1>2, <1>3, NewRowType, RowAssumption DEF AllAttempts, OfItsText
  <2>3. CASE a \in sync[s].written /\ loaded[a] # NoRow
    <3>1. loaded[a] \in Row /\ rows[a] \in Row /\ text(a) \in Texts
      BY <2>3, <1>2
    <3>2. /\ rows'[a] \in Row
          /\ rows'[a].status = IF loaded[a].status # "PENDING" THEN "PENDING" ELSE rows[a].status
          /\ rows'[a].attempts = IF loaded[a].attempts # 0 THEN 0 ELSE rows[a].attempts
          /\ loaded[a] = rows[a] => rows'[a].status = "PENDING"
      <4> DEFINE flushed == Flushed(loaded[a], Reset(loaded[a], text(a)), rows[a])
      <4>1. rows'[a] = flushed
        BY <2>3, <1>3
      <4>2. /\ flushed \in Row
            /\ flushed.status = IF loaded[a].status # "PENDING" THEN "PENDING" ELSE rows[a].status
            /\ flushed.attempts = IF loaded[a].attempts # 0 THEN 0 ELSE rows[a].attempts
            /\ loaded[a] = rows[a] => flushed.status = "PENDING"
        BY <3>1, FlushedRow
      <4> HIDE DEF flushed
      <4>. QED
        BY <4>1, <4>2
    <3>3. AllAttempts(loaded[a]) /\ AllAttempts(rows[a])
      BY <2>3, <1>1, <1>2 DEF IInv, SyncInv, RowsInv
    <3>4. AllAttempts(rows'[a])
      BY <3>2, <3>3 DEF AllAttempts
    <3>5. ~overtaken'[a] => OfItsText(rows'[a])
      BY <2>3, <3>2, <1>3 DEF OfItsText
    <3>. QED
      BY <3>2, <3>4, <3>5, RowAssumption
  <2>. QED
    BY <2>1, <2>2, <2>3
<1>5. TypeOK'
  <2>1. rows' \in [Assets -> Row \cup {NoRow}]
    BY <1>3, <1>4 DEF CommitSync
  <2>2. overtaken' \in [Assets -> BOOLEAN]
    BY DEF CommitSync, IInv, TypeOK
  <2>3. Release(s) /\ sync' = [sync EXCEPT ![s] = IdleSync]
    BY DEF CommitSync, Stop
  <2>. QED
    BY <2>1, <2>2, <2>3, ReleaseType, IdleType DEF CommitSync, IInv, TypeOK
<1>6. SyncInv'
  <2>1. \A t \in Syncs : sync'[t] = sync[t] \/ sync'[t] = IdleSync
    BY DEF CommitSync, Stop, IInv, TypeOK
  <2>2. ASSUME NEW t \in Syncs, NEW a \in DOMAIN sync[t].loaded, sync[t].loaded[a] # NoRow
        PROVE  rows'[a] # NoRow
    <3>1. a \in Assets
      <4>1. sync[t].loaded \in UNION {[A -> Row \cup {NoRow}] : A \in SUBSET Assets}
        BY DEF IInv, TypeOK, SyncState
      <4>. QED
        BY <4>1, PartialDomain
    <3>. QED
      BY <2>2, <3>1, <1>4 DEF IInv, SyncInv
  <2>. QED
    BY <2>1, <2>2 DEF IInv, SyncInv, IdleSync
<1>7. RowsInv'
  BY <1>4 DEF RowsInv
<1>8. WorkerInv'
  BY DEF CommitSync, IInv, WorkerInv
<1>. QED
  BY <1>5, <1>6, <1>7, <1>8 DEF IInv

-----------------------------------------------------------------------------
(* The steps of a worker *)

LEMMA TakeIInv ==
  ASSUME IInv, NEW w \in Workers, Take(w)
  PROVE  IInv'
<1>1. PICK T \in SUBSET Assets :
        /\ \A a \in T : Due(rows[a])
        /\ worker' = [worker EXCEPT ![w] = [pc |-> "translating", left |-> T,
                                            rows |-> Restrict(rows, T)]]
        /\ lock' = [a \in Assets |-> IF a \in T THEN w ELSE lock[a]]
  BY DEF Take
<1> DEFINE batch == Restrict(rows, T)
           new == [pc |-> "translating", left |-> T, rows |-> batch]
<1>2. batch = [a \in T |-> rows[a]]
  BY DEF Restrict
<1>3. \A a \in T : rows[a] \in Row
  BY <1>1 DEF Due, IInv, TypeOK
<1>4. new \in WorkerState
  <2>1. batch \in [T -> Row]
    BY <1>2, <1>3
  <2>2. batch \in UNION {[A -> Row] : A \in SUBSET Assets}
    BY <2>1, PartialFunction
  <2>. QED
    BY <2>2 DEF WorkerState
<1>5. TypeOK'
  BY <1>1, <1>4 DEF Take, IInv, TypeOK
<1>6. WorkerInv'
  <2>1. worker'[w] = new /\ \A v \in Workers \ {w} : worker'[v] = worker[v]
    BY <1>1 DEF IInv, TypeOK
  <2>2. \A a \in T : /\ AllAttempts(rows[a]) /\ OfItsText(rows[a])
                     /\ rows[a].attempts < MaxAttempts
    BY <1>1 DEF Due, IInv, RowsInv, OfItsText
  <2>. QED
    BY <2>1, <2>2, <1>2 DEF IInv, WorkerInv
<1>7. RowsInv' /\ SyncInv'
  BY DEF Take, IInv, RowsInv, SyncInv
<1>. QED
  BY <1>5, <1>6, <1>7 DEF IInv

LEMMA TranslateIInv ==
  ASSUME IInv, NEW w \in Workers, NEW a \in Assets, Translate(w, a)
  PROVE  IInv'
<1> DEFINE batch == worker[w].rows
<1>1. /\ worker[w] \in WorkerState
      /\ batch \in UNION {[A -> Row] : A \in SUBSET Assets}
  BY DEF IInv, TypeOK, WorkerState
<1>2. /\ a \in worker[w].left /\ a \in DOMAIN batch
      /\ batch[a] \in Row /\ batch[a].attempts < MaxAttempts
  <2>1. batch \in [DOMAIN batch -> Row]
    BY <1>1, PartialDomain
  <2>. QED
    BY <2>1 DEF Translate, IInv, WorkerInv
<1>3. PICK row \in {Translated(batch[a]), Failed(batch[a])} :
        worker' = [worker EXCEPT ![w].left = @ \ {a}, ![w].rows[a] = row]
  BY DEF Translate
<1>4. row \in Row /\ AllAttempts(row) /\ OfItsText(row)
  <2>1. clock \in Times /\ batch[a].attempts \in Nat
    BY <1>2, NumbersAssumption DEF IInv, TypeOK, Row
  <2>2. CASE row = Translated(batch[a])
    BY <2>1, <2>2, <1>2, TriedType DEF AllAttempts, OfItsText
  <2>3. CASE row = Failed(batch[a])
    BY <2>1, <2>3, <1>2, TriedType DEF AllAttempts, OfItsText
  <2>. QED
    BY <2>2, <2>3, <1>3
<1>5. /\ worker'[w].pc = worker[w].pc
      /\ worker'[w].left = worker[w].left \ {a}
      /\ worker'[w].rows = [batch EXCEPT ![a] = row]
      /\ worker'[w] \in WorkerState
      /\ \A v \in Workers \ {w} : worker'[v] = worker[v]
      /\ worker' \in [Workers -> WorkerState]
  <2> DEFINE new == [worker[w] EXCEPT !.left = @ \ {a}, !.rows = [batch EXCEPT ![a] = row]]
  <2>1. worker' = [worker EXCEPT ![w] = new]
    BY <1>3
  <2>2. [batch EXCEPT ![a] = row] \in UNION {[A -> Row] : A \in SUBSET Assets}
    <3>1. DOMAIN batch \in SUBSET Assets /\ batch \in [DOMAIN batch -> Row]
      BY <1>1, PartialDomain
    <3>2. [batch EXCEPT ![a] = row] \in [DOMAIN batch -> Row]
      BY <3>1, <1>4
    <3>. QED
      BY <3>1, <3>2, PartialFunction
  <2>3. /\ new \in WorkerState
        /\ new.pc = worker[w].pc /\ new.left = worker[w].left \ {a}
        /\ new.rows = [batch EXCEPT ![a] = row]
    BY <1>1, <2>2 DEF WorkerState
  <2> HIDE DEF new
  <2>4. worker' \in [Workers -> WorkerState] /\ worker'[w] = new
    BY <2>1, <2>3 DEF IInv, TypeOK
  <2>. QED
    BY <2>1, <2>3, <2>4 DEF IInv, TypeOK
<1>6. TypeOK'
  BY <1>5 DEF Translate, IInv, TypeOK
<1>7. WorkerInv'
  <2>1. DOMAIN worker'[w].rows = DOMAIN batch
    BY <1>5
  <2>2. worker'[w].rows[a] = row
    BY <1>5, <1>2
  <2>3. \A b \in DOMAIN batch \ {a} : worker'[w].rows[b] = batch[b]
    BY <1>5
  <2>. QED
    BY <2>1, <2>2, <2>3, <1>4, <1>5 DEF IInv, WorkerInv
<1>8. RowsInv' /\ SyncInv'
  BY DEF Translate, IInv, RowsInv, SyncInv
<1>. QED
  BY <1>6, <1>7, <1>8 DEF IInv

LEMMA CommitBatchIInv ==
  ASSUME IInv, NEW w \in Workers, CommitBatch(w)
  PROVE  IInv'
<1> DEFINE batch == worker[w].rows
<1>1. batch \in [DOMAIN batch -> Row]
  <2>1. batch \in UNION {[A -> Row] : A \in SUBSET Assets}
    BY DEF IInv, TypeOK, WorkerState
  <2>. QED
    BY <2>1, PartialDomain
<1>2. ASSUME NEW a \in Assets
      PROVE  /\ rows'[a] \in Row \cup {NoRow}
             /\ rows[a] # NoRow => rows'[a] # NoRow
             /\ rows'[a] # NoRow =>
                  AllAttempts(rows'[a]) /\ (~overtaken[a] => OfItsText(rows'[a]))
  <2>1. CASE a \in DOMAIN batch
    <3>1. rows'[a] = batch[a] /\ batch[a] \in Row
      BY <2>1, <1>1 DEF CommitBatch
    <3>2. AllAttempts(batch[a]) /\ OfItsText(batch[a])
      BY <2>1 DEF IInv, WorkerInv
    <3>. QED
      BY <3>1, <3>2, RowAssumption
  <2>2. CASE a \notin DOMAIN batch
    <3>1. rows'[a] = rows[a]
      BY <2>2 DEF CommitBatch
    <3>. QED
      BY <3>1 DEF IInv, TypeOK, RowsInv
  <2>. QED
    BY <2>1, <2>2
<1>3. TypeOK'
  <2>1. rows' \in [Assets -> Row \cup {NoRow}]
    BY <1>2 DEF CommitBatch
  <2>. QED
    BY <2>1, ReleaseType, IdleType DEF CommitBatch, IInv, TypeOK
<1>4. RowsInv'
  BY <1>2 DEF RowsInv, CommitBatch
<1>5. SyncInv'
  <2>1. ASSUME NEW s \in Syncs, NEW a \in DOMAIN sync[s].loaded, sync[s].loaded[a] # NoRow
        PROVE  rows'[a] # NoRow
    <3>1. a \in Assets
      <4>1. sync[s].loaded \in UNION {[A -> Row \cup {NoRow}] : A \in SUBSET Assets}
        BY DEF IInv, TypeOK, SyncState
      <4>. QED
        BY <4>1, PartialDomain
    <3>. QED
      BY <2>1, <3>1, <1>2 DEF IInv, SyncInv
  <2>. QED
    BY <2>1 DEF CommitBatch, IInv, SyncInv
<1>6. WorkerInv'
  BY DEF CommitBatch, IInv, TypeOK, WorkerInv, IdleWorker
<1>. QED
  BY <1>3, <1>4, <1>5, <1>6 DEF IInv

LEMMA FailBatchIInv ==
  ASSUME IInv, NEW w \in Workers, FailBatch(w)
  PROVE  IInv'
<1>1. TypeOK'
  BY ReleaseType, IdleType DEF FailBatch, IInv, TypeOK
<1>2. WorkerInv'
  BY DEF FailBatch, IInv, TypeOK, WorkerInv, IdleWorker
<1>3. RowsInv' /\ SyncInv'
  BY DEF FailBatch, IInv, RowsInv, SyncInv
<1>. QED
  BY <1>1, <1>2, <1>3 DEF IInv

-----------------------------------------------------------------------------
(* The theorems *)

\* Every step keeps the invariant.
LEMMA NextIInv == IInv /\ [Next]_vars => IInv'
<1> SUFFICES ASSUME IInv, [Next]_vars PROVE IInv'
  OBVIOUS
<1>1. CASE Tick
  BY <1>1, NumbersAssumption DEF Tick, IInv, TypeOK, Times, RowsInv, SyncInv, WorkerInv
<1>2. CASE \E s \in Syncs : ReadRows(s) \/ Capture(s)
  <2>1. ASSUME NEW s \in Syncs, ReadRows(s) PROVE IInv'
    BY <2>1, ReadRowsIInv
  <2>2. ASSUME NEW s \in Syncs, CommitSync(s) PROVE IInv'
    BY <2>2, CommitSyncIInv
  <2>3. ASSUME NEW s \in Syncs, NEW a \in Assets, WriteRow(s, a) PROVE IInv'
    BY <2>3, WriteRowIInv
  <2>4. ASSUME NEW s \in Syncs, NEW a \in Assets, DuplicateKey(s, a) PROVE IInv'
    BY <2>4, StopIInv DEF DuplicateKey
  <2>. QED
    BY <1>2, <2>1, <2>2, <2>3, <2>4 DEF Capture
<1>3. CASE \E w \in Workers : Work(w)
  <2>1. ASSUME NEW w \in Workers, NEW a \in Assets, Translate(w, a) PROVE IInv'
    BY <2>1, TranslateIInv
  <2>. QED
    BY <1>3, <2>1, TakeIInv, CommitBatchIInv DEF Work
<1>4. CASE Fault
  <2>1. ASSUME NEW s \in Syncs, FailSync(s) PROVE IInv'
    BY <2>1, StopIInv DEF FailSync
  <2>. QED
    BY <1>4, <2>1, FailBatchIInv DEF Fault
<1>5. CASE UNCHANGED vars
  BY <1>5 DEF vars, IInv, TypeOK, RowsInv, SyncInv, WorkerInv
<1>. QED
  BY <1>1, <1>2, <1>3, <1>4, <1>5 DEF Next, Calm

\* The rows and the local variables have their types, and attempts stop at the
\* limit.
THEOREM SpecTypeOK == Spec => []TypeOK
<1>1. IInv => TypeOK
  BY DEF IInv
<1>. QED
  BY InitIInv, NextIInv, <1>1, PTL DEF Spec

\* Pending rows are exactly those with no attempt used, however stale the row was
\* that a capture loaded.
THEOREM SpecPendingHasAllAttempts == Spec => []PendingHasAllAttempts
<1>1. IInv => PendingHasAllAttempts
  BY DEF IInv, RowsInv, AllAttempts, PendingHasAllAttempts
<1>. QED
  BY InitIInv, NextIInv, <1>1, PTL DEF Spec

\* What the API shows of a row whose last capture was not overtaken is its text or
\* the translation of it.
THEOREM SpecShownIsOfItsSource == Spec => []ShownIsOfItsSource
<1>1. IInv => ShownIsOfItsSource
  BY DEF IInv, RowsInv, OfItsText, ShownIsOfItsSource, Shown
<1>. QED
  BY InitIInv, NextIInv, <1>1, PTL DEF Spec

-----------------------------------------------------------------------------
(* Who holds a lock *)

\* A capture keeps what it has written locked, a worker what it translates; and
\* what is being translated is not translated yet.
LockInv ==
  /\ IInv
  /\ \A s \in Syncs : \A a \in sync[s].written : lock[a] = s
  /\ \A w \in Workers : \A a \in DOMAIN worker[w].rows :
        lock[a] = w /\ rows[a] # NoRow /\ rows[a].status # "READY"

\* What is written or translated are assets.
LEMMA LockedAssets ==
  ASSUME IInv
  PROVE  /\ \A s \in Syncs : sync[s].written \subseteq Assets
         /\ \A w \in Workers : DOMAIN worker[w].rows \subseteq Assets
<1>1. \A s \in Syncs : sync[s].written \subseteq Assets
  BY DEF IInv, TypeOK, SyncState
<1>2. ASSUME NEW w \in Workers PROVE DOMAIN worker[w].rows \subseteq Assets
  <2>1. worker[w].rows \in UNION {[A -> Row] : A \in SUBSET Assets}
    BY DEF IInv, TypeOK, WorkerState
  <2>. QED
    BY <2>1, PartialDomain
<1>. QED
  BY <1>1, <1>2

\* A transaction that ends and releases its locks leaves those of the others; the
\* rows it wrote were its own.
LEMMA SyncEnds ==
  ASSUME LockInv, IInv', NEW s \in Syncs, Stop(s), worker' = worker,
         \A a \in Assets : a \notin sync[s].written => rows'[a] = rows[a]
  PROVE  LockInv'
<1>1. /\ \A a \in Assets : lock'[a] = IF lock[a] = s THEN Free ELSE lock[a]
      /\ sync'[s] = IdleSync /\ \A t \in Syncs \ {s} : sync'[t] = sync[t]
      /\ \A t \in Syncs : sync[t].written \subseteq Assets
      /\ \A w \in Workers : DOMAIN worker[w].rows \subseteq Assets
  BY LockedAssets DEF LockInv, Stop, Release, IInv, TypeOK
<1>2. \A t \in Syncs : \A a \in sync'[t].written : lock'[a] = t
  BY <1>1 DEF LockInv, IdleSync
<1>3. ASSUME NEW w \in Workers, NEW a \in DOMAIN worker[w].rows
      PROVE  lock'[a] = w /\ rows'[a] # NoRow /\ rows'[a].status # "READY"
  <2>1. a \in Assets /\ lock[a] = w /\ w # s
    BY <1>1, NamesAssumption DEF LockInv
  <2>2. a \notin sync[s].written
    BY <2>1 DEF LockInv
  <2>. QED
    BY <1>1, <2>1, <2>2 DEF LockInv
<1>. QED
  BY <1>2, <1>3 DEF LockInv

LEMMA WorkerEnds ==
  ASSUME LockInv, IInv', NEW w \in Workers, Release(w), sync' = sync,
         worker' = [worker EXCEPT ![w] = IdleWorker],
         \A a \in Assets : a \notin DOMAIN worker[w].rows => rows'[a] = rows[a]
  PROVE  LockInv'
<1>1. /\ \A a \in Assets : lock'[a] = IF lock[a] = w THEN Free ELSE lock[a]
      /\ worker'[w] = IdleWorker /\ \A v \in Workers \ {w} : worker'[v] = worker[v]
      /\ \A t \in Syncs : sync[t].written \subseteq Assets
      /\ \A v \in Workers : DOMAIN worker[v].rows \subseteq Assets
  BY LockedAssets DEF LockInv, Release, IInv, TypeOK
<1>2. \A t \in Syncs : \A a \in sync'[t].written : lock'[a] = t
  BY <1>1, NamesAssumption DEF LockInv
<1>3. ASSUME NEW v \in Workers, NEW a \in DOMAIN worker'[v].rows
      PROVE  lock'[a] = v /\ rows'[a] # NoRow /\ rows'[a].status # "READY"
  <2>1. v # w /\ worker'[v] = worker[v]
    BY <1>1, <1>3 DEF IdleWorker
  <2>2. a \in Assets /\ lock[a] = v /\ a \notin DOMAIN worker[w].rows
    BY <1>1, <1>3, <2>1 DEF LockInv
  <2>. QED
    BY <1>1, <1>3, <2>1, <2>2 DEF LockInv
<1>. QED
  BY <1>2, <1>3 DEF LockInv

LEMMA InitLockInv == Init => LockInv
BY InitIInv DEF Init, LockInv, IdleSync, IdleWorker

LEMMA NextLockInv == LockInv /\ [Next]_vars => LockInv'
<1> SUFFICES ASSUME LockInv, [Next]_vars PROVE LockInv'
  OBVIOUS
<1>1. IInv /\ IInv'
  BY NextIInv DEF LockInv
<1>2. /\ \A t \in Syncs : sync[t].written \subseteq Assets
      /\ \A v \in Workers : DOMAIN worker[v].rows \subseteq Assets
  BY <1>1, LockedAssets
<1>3. CASE Tick \/ UNCHANGED vars
  BY <1>1, <1>3 DEF Tick, vars, LockInv
<1>4. ASSUME NEW s \in Syncs, ReadRows(s) PROVE LockInv'
  <2>1. /\ \A t \in Syncs : sync'[t].written \subseteq sync[t].written
        /\ UNCHANGED <<rows, lock, worker>>
    BY <1>1, <1>4 DEF ReadRows, IInv, TypeOK
  <2>. QED
    BY <1>1, <2>1 DEF LockInv
<1>5. ASSUME NEW s \in Syncs, NEW a \in Assets, WriteRow(s, a) PROVE LockInv'
  <2>1. /\ lock[a] = Free /\ lock'[a] = s
        /\ \A b \in Assets \ {a} : lock'[b] = lock[b]
        /\ UNCHANGED <<rows, worker>>
    BY <1>1, <1>5 DEF WriteRow, IInv, TypeOK
  <2>2. /\ sync'[s].written = sync[s].written \cup {a}
        /\ \A t \in Syncs \ {s} : sync'[t] = sync[t]
    BY <1>1, <1>5 DEF WriteRow, IInv, TypeOK, SyncState
  <2>. QED
    BY <1>1, <1>2, <2>1, <2>2, NamesAssumption DEF LockInv
<1>6. ASSUME NEW s \in Syncs, CommitSync(s) PROVE LockInv'
  <2>1. \A a \in Assets : a \notin sync[s].written => rows'[a] = rows[a]
    BY <1>6 DEF CommitSync
  <2>. QED
    BY <1>1, <1>6, <2>1, SyncEnds DEF CommitSync
<1>7. ASSUME NEW s \in Syncs, FailSync(s) \/ \E a \in Assets : DuplicateKey(s, a)
      PROVE  LockInv'
  BY <1>1, <1>7, SyncEnds DEF FailSync, DuplicateKey
<1>8. ASSUME NEW w \in Workers, Take(w) PROVE LockInv'
  <2>1. PICK T \in SUBSET Assets :
          /\ \A a \in T : Due(rows[a]) /\ lock[a] = Free
          /\ worker' = [worker EXCEPT ![w] = [pc |-> "translating", left |-> T,
                                              rows |-> Restrict(rows, T)]]
          /\ lock' = [a \in Assets |-> IF a \in T THEN w ELSE lock[a]]
    BY <1>8 DEF Take
  <2>2. /\ DOMAIN worker'[w].rows = T
        /\ \A v \in Workers \ {w} : worker'[v] = worker[v]
        /\ UNCHANGED <<rows, sync>>
    BY <1>1, <1>8, <2>1 DEF Take, Restrict, IInv, TypeOK
  <2>3. \A a \in T : rows[a] # NoRow /\ rows[a].status # "READY"
    BY <2>1 DEF Due
  <2>4. \A t \in Syncs : \A a \in sync'[t].written : lock'[a] = t
    BY <1>2, <2>1, <2>2, NamesAssumption DEF LockInv
  <2>5. ASSUME NEW v \in Workers, NEW a \in DOMAIN worker'[v].rows
        PROVE  lock'[a] = v /\ rows'[a] # NoRow /\ rows'[a].status # "READY"
    <3>1. CASE v = w
      BY <2>1, <2>2, <2>3, <2>5, <3>1
    <3>2. CASE v # w
      BY <1>2, <2>1, <2>2, <2>5, <3>2, NamesAssumption DEF LockInv
    <3>. QED
      BY <3>1, <3>2
  <2>. QED
    BY <1>1, <2>4, <2>5 DEF LockInv
<1>9. ASSUME NEW w \in Workers, NEW a \in Assets, Translate(w, a) PROVE LockInv'
  <2>1. PICK row \in {Translated(worker[w].rows[a]), Failed(worker[w].rows[a])} :
          worker' = [worker EXCEPT ![w].left = @ \ {a}, ![w].rows[a] = row]
    BY <1>9 DEF Translate
  <2>2. \A v \in Workers : DOMAIN worker'[v].rows = DOMAIN worker[v].rows
    BY <1>1, <2>1 DEF IInv, TypeOK, WorkerState
  <2>. QED
    BY <1>1, <1>9, <2>2 DEF Translate, LockInv
<1>10. ASSUME NEW w \in Workers, CommitBatch(w) PROVE LockInv'
  <2>1. \A a \in Assets : a \notin DOMAIN worker[w].rows => rows'[a] = rows[a]
    BY <1>10 DEF CommitBatch
  <2>. QED
    BY <1>1, <1>10, <2>1, WorkerEnds DEF CommitBatch
<1>11. ASSUME NEW w \in Workers, FailBatch(w) PROVE LockInv'
  BY <1>1, <1>11, WorkerEnds DEF FailBatch
<1>. QED
  BY <1>3, <1>4, <1>5, <1>6, <1>7, <1>8, <1>9, <1>10, <1>11
     DEF Next, Calm, Capture, Work, Fault

\* A row that is ready stays ready as long as its text stays: a worker's batch
\* holds no such row, since nobody writes a row while the worker has it locked,
\* and a capture that was not overtaken writes only a row whose text it changes.
THEOREM SpecNotTranslatedAgain == Spec => NotTranslatedAgain
<1> DEFINE Reused ==
       \A a \in Assets :
         rows[a] # NoRow /\ rows[a].status = "READY" /\ ~overtaken'[a]
         /\ rows'[a].source = rows[a].source => rows'[a].status = "READY"
<1>1. LockInv /\ [Next]_vars => [Reused]_vars
  <2> SUFFICES ASSUME LockInv, [Next]_vars, NEW a \in Assets,
                      rows[a] # NoRow, rows[a].status = "READY", ~overtaken'[a],
                      rows'[a].source = rows[a].source
               PROVE  rows'[a] = rows[a]
    BY DEF Reused
  <2>1. ASSUME NEW s \in Syncs, CommitSync(s) PROVE rows'[a] = rows[a]
    <3>1. CASE a \notin sync[s].written
      BY <2>1, <3>1 DEF CommitSync
    <3>2. CASE a \in sync[s].written
      <4>1. rows[a] = sync[s].loaded[a]
        BY <2>1, <3>2 DEF CommitSync
      <4>2. /\ a \in DOMAIN sync[s].answer
            /\ rows[a].source # sync[s].answer[a]
        BY <2>1, <3>2, <4>1 DEF CommitSync, LockInv, IInv, SyncInv, Changed
      <4>3. rows[a] \in Row /\ sync[s].answer[a] \in Texts
        <5>1. sync[s].answer \in UNION {[A -> Texts] : A \in SUBSET Assets}
          BY DEF LockInv, IInv, TypeOK, SyncState
        <5>2. sync[s].answer \in [DOMAIN sync[s].answer -> Texts]
          BY <5>1, PartialDomain
        <5>. QED
          BY <4>2, <5>2 DEF LockInv, IInv, TypeOK
      <4> DEFINE reset == Reset(rows[a], sync[s].answer[a])
      <4>4. reset \in Row /\ reset.source = sync[s].answer[a]
        BY <4>3, ResetType
      <4>5. rows'[a] = [c \in DOMAIN reset |->
                          IF reset[c] # rows[a][c] THEN reset[c] ELSE rows[a][c]]
        BY <2>1, <3>2, <4>1 DEF CommitSync, Flushed
      <4>6. rows'[a].source = reset.source
        <5> HIDE DEF reset
        <5>. QED
          BY <4>2, <4>4, <4>5 DEF Row
      <4>. QED
        BY <4>2, <4>4, <4>6
    <3>. QED
      BY <3>1, <3>2
  <2>2. ASSUME NEW w \in Workers, CommitBatch(w) PROVE rows'[a] = rows[a]
    <3>1. a \notin DOMAIN worker[w].rows
      BY DEF LockInv
    <3>. QED
      BY <2>2, <3>1 DEF CommitBatch
  <2>3. CASE UNCHANGED rows
    BY <2>3
  <2>. QED
    BY <2>1, <2>2, <2>3 DEF Next, Calm, Fault, Capture, Work, Tick, ReadRows,
       WriteRow, DuplicateKey, FailSync, Take, Translate, FailBatch, vars
<1>. QED
  BY <1>1, InitLockInv, NextLockInv, PTL DEF Spec, NotTranslatedAgain
=============================================================================
