---------------------------- MODULE Translation ----------------------------
(***************************************************************************)
(* The translations of Polymarket titles (polymarket_translation.py): a    *)
(* synchronisation captures the text of each outcome it sees, a background  *)
(* worker translates what is pending, and the API shows the result.  Both   *)
(* write the same rows of polymarket_translations in transactions of their  *)
(* own; the worker keeps its rows locked while it waits for the service.    *)
(*                                                                         *)
(* A text is a model value and a translation is named by the text it is the *)
(* translation of.  source_hash says no more than source_display does.      *)
(***************************************************************************)
EXTENDS Integers, FiniteSets, Functions

CONSTANTS Assets,      \* outcome tokens, the key of a row
          Texts,       \* "market title . outcome" as the exchange returns it
          NoText,      \* translated_display IS NULL
          NoRow,       \* there is no row for the asset
          Free,        \* nobody has locked the row
          Never,       \* last_attempt_at IS NULL
          Syncs,       \* synchronisations of Polymarket accounts
          Workers,     \* the translation job, and the script that does the same
          Shows,       \* the texts an account may be shown for an asset: none if it
                       \* never holds it
          CreatedAt,   \* created_at of the row of an asset, which is never deleted
          MaxAttempts, \* attempt_count < 5
          RetryAfter,  \* the 15 minutes between attempts
          Batch,       \* baidu_translation_batch_size
          MaxTime      \* the bound on the clock

ASSUME NumbersAssumption ==
  /\ MaxAttempts \in Nat \ {0} /\ RetryAfter \in Nat /\ Batch \in Nat \ {0}
  /\ MaxTime \in Nat
ASSUME ShowsAssumption == Shows \in [Syncs -> [Assets -> SUBSET Texts]]
ASSUME CreatedAtAssumption == CreatedAt \in [Assets -> Int]
ASSUME NamesAssumption ==
  /\ NoText \notin Texts /\ Never \notin Int
  /\ Free \notin Syncs \cup Workers /\ Syncs \cap Workers = {}

VARIABLES clock,
          rows,      \* the committed rows
          lock,      \* the transaction that has locked a row or inserted its key
          sync,      \* the local variables of capture_polymarket_translation_sources
          worker,    \* those of process_pending_polymarket_translations
          overtaken  \* history: the last capture wrote over a row it had not seen

vars == <<clock, rows, lock, sync, worker, overtaken>>

Times == 0 .. MaxTime
Row == [source : Texts, translation : Texts \cup {NoText},
        status : {"PENDING", "READY", "FAILED"}, attempts : 0 .. MaxAttempts,
        last : Times \cup {Never}]
ASSUME RowAssumption == NoRow \notin Row

IdleSync == [pc |-> "idle", answer |-> <<>>, loaded |-> <<>>, written |-> {}]
IdleWorker == [pc |-> "idle", rows |-> <<>>, left |-> {}]

Init == /\ clock = 0
        /\ rows = [a \in Assets |-> NoRow]
        /\ lock = [a \in Assets |-> Free]
        /\ sync = [s \in Syncs |-> IdleSync]
        /\ worker = [w \in Workers |-> IdleWorker]
        /\ overtaken = [a \in Assets |-> FALSE]

Release(who) == lock' = [a \in Assets |-> IF lock[a] = who THEN Free ELSE lock[a]]

-----------------------------------------------------------------------------
(* The exchange and the clock *)

Tick == /\ clock < MaxTime
        /\ clock' = clock + 1
        /\ UNCHANGED <<rows, lock, sync, worker, overtaken>>

-----------------------------------------------------------------------------
(* Capture, inside sync_account *)

\* Mutant: the hashes are not compared.
ChangedAlways(row, text) == TRUE

\* What the loop over the sources has to write.
Changed(row, text) == row = NoRow \/ row.source # text

\* The adapter has answered with positions; items without asset, title or outcome
\* have no source and are left out.  Any text can be in the answer: titles are
\* edited, the legs of a combo get the title of their event, and an answer may be
\* older than what another synchronisation has captured since.  The query for the
\* existing rows takes no lock; the loop compares what it returned with the answer,
\* and goes on with the sources that are new or changed.
ReadRows(s) ==
  /\ sync[s].pc = "idle"
  /\ \E A \in SUBSET Assets : \E answer \in [A -> Texts] :
        LET changed == {a \in A : Changed(rows[a], answer[a])}
        IN /\ \A a \in A : answer[a] \in Shows[s][a]
           /\ changed # {}
           /\ sync' = [sync EXCEPT ![s] =
                [pc |-> "read", answer |-> Restrict(answer, changed),
                 loaded |-> Restrict(rows, changed), written |-> {}]]
  /\ UNCHANGED <<clock, rows, lock, worker, overtaken>>

\* What the session has still to flush.
ToWrite(s) == DOMAIN sync[s].answer \ sync[s].written

NewRow(text) == [source |-> text, translation |-> NoText, status |-> "PENDING",
                 attempts |-> 0, last |-> Never]

\* Mutant: a new text keeps the attempts of the old one.
ResetKeepingAttempts(row, text) ==
  [row EXCEPT !.source = text, !.translation = NoText, !.status = "PENDING", !.last = Never]
\* Mutant: a new text keeps the translation of the old one.
ResetTextOnly(row, text) == [row EXCEPT !.source = text]

Reset(row, text) == [row EXCEPT !.source = text, !.translation = NoText,
                                !.status = "PENDING", !.attempts = 0, !.last = Never]

\* The UPDATE of the unit of work: only columns that differ from those loaded.
Flushed(loaded, new, stored) ==
  [c \in DOMAIN new |-> IF new[c] # loaded[c] THEN new[c] ELSE stored[c]]

\* The next query flushes: an UPDATE waits for whoever has locked the row, an
\* INSERT for whoever has inserted the key.
WriteRow(s, a) ==
  /\ sync[s].pc = "read" /\ a \in ToWrite(s)
  /\ lock[a] = Free
  /\ sync[s].loaded[a] = NoRow => rows[a] = NoRow
  /\ lock' = [lock EXCEPT ![a] = s]
  /\ sync' = [sync EXCEPT ![s].written = @ \cup {a}]
  /\ UNCHANGED <<clock, rows, worker, overtaken>>

Stop(s) == /\ sync' = [sync EXCEPT ![s] = IdleSync]
           /\ Release(s)

\* The commit at the end of sync_account.
CommitSync(s) ==
  /\ sync[s].pc = "read" /\ ToWrite(s) = {}
  /\ rows' = [a \in Assets |->
       IF a \notin sync[s].written THEN rows[a]
       ELSE IF sync[s].loaded[a] = NoRow THEN NewRow(sync[s].answer[a])
       ELSE Flushed(sync[s].loaded[a],
                    Reset(sync[s].loaded[a], sync[s].answer[a]), rows[a])]
  /\ overtaken' = [a \in Assets |->
       IF a \in sync[s].written THEN rows[a] # sync[s].loaded[a] ELSE overtaken[a]]
  /\ Stop(s)
  /\ UNCHANGED <<clock, worker>>

\* The synchronisation fails, its process ends, or PostgreSQL ends one of two that
\* insert the same keys in different orders; its transaction is undone.
FailSync(s) == /\ sync[s].pc # "idle"
               /\ Stop(s)
               /\ UNCHANGED <<clock, rows, worker, overtaken>>

\* Another account's synchronisation committed the same new row first.
DuplicateKey(s, a) ==
  /\ sync[s].pc = "read" /\ a \in ToWrite(s)
  /\ lock[a] = Free /\ sync[s].loaded[a] = NoRow /\ rows[a] # NoRow
  /\ Stop(s)
  /\ UNCHANGED <<clock, rows, worker, overtaken>>

-----------------------------------------------------------------------------
(* The worker *)

\* Mutant: whatever is not translated, without pause or limit.
DueUnlessReady(row) == row # NoRow /\ row.status # "READY"

Due(row) ==
  /\ row # NoRow
  /\ row.attempts < MaxAttempts
  /\ \/ row.status = "PENDING"
     \/ row.status = "FAILED" /\ row.last # Never /\ row.last < clock - RetryAfter

\* Mutant: ORDER BY created_at DESC.
NewestFirst(a, b) == CreatedAt[b] <= CreatedAt[a]

\* ORDER BY created_at: a does not come after b.
NotAfter(a, b) == CreatedAt[a] <= CreatedAt[b]

\* SELECT ... ORDER BY ... LIMIT n FOR UPDATE SKIP LOCKED: the first of the rows that
\* are due and that nobody has locked, as many as a batch holds.
Take(w) ==
  LET due == {a \in Assets : Due(rows[a]) /\ lock[a] = Free}
  IN /\ worker[w].pc = "idle"
     /\ \E T \in SUBSET due :
          /\ T # {}
          /\ Cardinality(T) <= Batch
          /\ Cardinality(T) < Batch => T = due
          /\ \A a \in T, b \in due \ T : NotAfter(a, b)
          /\ worker' = [worker EXCEPT ![w] = [pc |-> "translating", left |-> T,
                                              rows |-> Restrict(rows, T)]]
          /\ lock' = [a \in Assets |-> IF a \in T THEN w ELSE lock[a]]
     /\ UNCHANGED <<clock, rows, sync, overtaken>>

Tried(row) == [row EXCEPT !.attempts = @ + 1, !.last = clock]
Translated(row) == [Tried(row) EXCEPT !.translation = row.source, !.status = "READY"]
Failed(row) == [Tried(row) EXCEPT !.status = "FAILED"]

\* The service answers for one row, or fails.
Translate(w, a) ==
  /\ worker[w].pc = "translating" /\ a \in worker[w].left
  /\ \E row \in {Translated(worker[w].rows[a]), Failed(worker[w].rows[a])} :
        worker' = [worker EXCEPT ![w].left = @ \ {a}, ![w].rows[a] = row]
  /\ UNCHANGED <<clock, rows, lock, sync, overtaken>>

\* One commit for the whole batch.
CommitBatch(w) ==
  /\ worker[w].pc = "translating" /\ worker[w].left = {}
  /\ rows' = [a \in Assets |-> IF a \in DOMAIN worker[w].rows THEN worker[w].rows[a]
                                                              ELSE rows[a]]
  /\ worker' = [worker EXCEPT ![w] = IdleWorker]
  /\ Release(w)
  /\ UNCHANGED <<clock, sync, overtaken>>

\* The process ends, or the commit fails: the attempts are not counted.
FailBatch(w) == /\ worker[w].pc = "translating"
                /\ worker' = [worker EXCEPT ![w] = IdleWorker]
                /\ Release(w)
                /\ UNCHANGED <<clock, rows, sync, overtaken>>

-----------------------------------------------------------------------------
Capture(s) == \/ CommitSync(s)
              \/ \E a \in Assets : WriteRow(s, a) \/ DuplicateKey(s, a)
Work(w) == Take(w) \/ CommitBatch(w) \/ \E a \in Assets : Translate(w, a)
Fault == \/ \E s \in Syncs : FailSync(s)
         \/ \E w \in Workers : FailBatch(w)
Calm == \/ Tick
        \/ \E s \in Syncs : ReadRows(s) \/ Capture(s)
        \/ \E w \in Workers : Work(w)

Next == Calm \/ Fault

Spec == Init /\ [][Next]_vars

\* Coroutines are resumed, the worker's job is rescheduled and its requests have a
\* timeout.  Captures may keep a row locked again and again, so that SKIP LOCKED misses
\* it, but not at every run of the job.  Which rows such a run then chooses is the
\* query's affair, not an assumption.  Faults stop.
RunFinds(w, a) == worker[w].pc = "idle" /\ lock[a] = Free
Fairness == /\ \A s \in Syncs : WF_vars(Capture(s))
            /\ \A w \in Workers : WF_vars(Work(w))
            /\ \A w \in Workers, a \in Assets :
                 []<>RunFinds(w, a) /\ SF_vars(RunFinds(w, a) /\ Take(w))
            /\ <>[][Calm]_vars
LiveSpec == Spec /\ Fairness

-----------------------------------------------------------------------------
(* Properties *)

\* _translation_fields: what the API shows for a row
Shown(row) == IF row.status = "READY" /\ row.translation # NoText
              THEN row.translation ELSE row.source

\* What the variables hold: rows as the table declares them, and attempts that
\* stop at the limit of the worker's query.
SyncState ==
  [pc : {"idle", "read"}, answer : UNION {[A -> Texts] : A \in SUBSET Assets},
   loaded : UNION {[A -> Row \cup {NoRow}] : A \in SUBSET Assets}, written : SUBSET Assets]
WorkerState ==
  [pc : {"idle", "translating"}, left : SUBSET Assets,
   rows : UNION {[A -> Row] : A \in SUBSET Assets}]
TypeOK == /\ clock \in Times
          /\ rows \in [Assets -> Row \cup {NoRow}]
          /\ lock \in [Assets -> Syncs \cup Workers \cup {Free}]
          /\ sync \in [Syncs -> SyncState]
          /\ worker \in [Workers -> WorkerState]
          /\ overtaken \in [Assets -> BOOLEAN]

\* A row that is pending has all its attempts before it, and a row with none used is
\* pending: whatever a capture loaded and whatever the worker did meanwhile, it
\* writes both columns or neither, so no new text is given up early.
PendingHasAllAttempts ==
  \A a \in Assets : rows[a] # NoRow =>
    (rows[a].status = "PENDING" <=> rows[a].attempts = 0)

\* Unless the last capture of a row was overtaken by the worker, what the API shows is
\* the captured text or its translation: a new text discards the old translation,
\* and a row under translation cannot change its text.
ShownIsOfItsSource ==
  \A a \in Assets : rows[a] # NoRow /\ ~overtaken[a] => Shown(rows[a]) = rows[a].source

\* The document says that the backend translates "title . outcome" and caches that
\* under the outcome token: what is shown is always of the text in the row.
ShownIsOfSource ==
  \A a \in Assets : rows[a] # NoRow => Shown(rows[a]) = rows[a].source

\* A translation is reused: as long as the text stays, a row that is ready stays
\* ready, through every synchronisation that sees the position open or closed.
NotTranslatedAgain ==
  [][\A a \in Assets :
       rows[a] # NoRow /\ rows[a].status = "READY" /\ ~overtaken'[a]
       /\ rows'[a].source = rows[a].source => rows'[a].status = "READY"]_vars

\* Every captured text is tried: a pending row does not stay pending, however the
\* batch limit, the failures and retries of older rows and the locks of captures
\* interleave, unless the texts of rows as old or older are edited for ever, which
\* puts those before it again and again.
Pending(a) == rows[a] # NoRow /\ rows[a].status = "PENDING"
Text(row) == IF row = NoRow THEN NoText ELSE row.source
Before(a) == {b \in Assets \ {a} : CreatedAt[b] <= CreatedAt[a]}
EditsBefore(a) == \E b \in Before(a) : Text(rows'[b]) # Text(rows[b])
NewSourceIsTried ==
  \A a \in Assets : <>[][~EditsBefore(a)]_vars => (Pending(a) ~> ~Pending(a))
=============================================================================
