----------------------------- MODULE FillCycles -----------------------------
(***************************************************************************)
(* Closed positions that the exchange does not report and the adapters     *)
(* rebuild from fills: adapters/binance.py in one-way and hedge mode,      *)
(* adapters/hyperliquid.py, and the scripts that repair Binance rows. One  *)
(* symbol; an order may be filled in several pieces that pay their fees in *)
(* different assets, and a synchronisation may read between two of them.   *)
(* Moments are counted in fills: n is the time between fill n and n + 1.   *)
(***************************************************************************)
EXTENDS Integers, FiniteSets, Sequences, FiniteSetsExt

CONSTANTS
    Venues,    \* a subset of ONE_WAY, HEDGE and HYPERLIQUID
    MaxFills,  \* bound on the number of fills
    MaxLong,   \* bound on a long position's size
    MaxShort,  \* bound on a short position's size
    Held,      \* by venue, positions that may be held before the first fill
    Overlap    \* what a cursor is moved back, in fills

ASSUME FillConstants ==
    /\ Venues \subseteq {"ONE_WAY", "HEDGE", "HYPERLIQUID"}
    /\ {MaxFills, Overlap} \subseteq Nat
    /\ {MaxLong, MaxShort} \subseteq Nat \ {0}
    /\ Held \in [Venues -> SUBSET (-MaxShort .. MaxLong)]

VARIABLES
    venue,     \* the account's exchange and position mode
    initial,   \* the positions held before the first fill that is returned
    book,      \* exchange: the fills
    readTo,    \* history variable: the latest fill some session has read
    stored,    \* database: the rows of closed_positions
    cursor,    \* database: closed_positions cursor, in fills
    pc,        \* where a session stands
    answer     \* what its adapter call rebuilt, and up to which fill

vars == <<venue, initial, book, readTo, stored, cursor, pc, answer>>

Keys     == IF venue = "HEDGE" THEN {"LONG", "SHORT"} ELSE {"BOTH"}
Workers  == {"sync", "script"}
NoAnswer == [rows |-> {}, from |-> 0, to |-> 0]
Deltas   == -(MaxLong + MaxShort) .. MaxLong + MaxShort \ {0}

Sign(n)     == IF n > 0 THEN 1 ELSE IF n < 0 THEN -1 ELSE 0
Abs(n)      == IF n < 0 THEN -n ELSE n
Least(m, n) == IF m < n THEN m ELSE n
Most(m, n)  == IF m < n THEN n ELSE m
SideOf(n)   == IF n > 0 THEN "LONG" ELSE "SHORT"

\* a trade: the fills of an order that pay their fees in one asset
FillsOf(trade) == {i \in DOMAIN book : book[i].trade = trade}
FillsIn(k)     == {i \in DOMAIN book : book[i].key = k}

\* the position under key k now, and after fill i
After(i) == book[i].before + book[i].delta

Position(k) == IF FillsIn(k) = {} THEN initial[k] ELSE After(Max(FillsIn(k)))

Init ==
    /\ venue \in Venues
    /\ initial \in [Keys -> Held[venue]]
    /\ \A k \in Keys : IF k = "SHORT" THEN initial[k] <= 0 ELSE initial[k] >= 0
    /\ book = <<>>
    /\ readTo = 0
    /\ stored = {}
    /\ cursor = 0
    /\ pc = [w \in Workers |-> "idle"]
    /\ answer = [w \in Workers |-> NoAnswer]

(***************************************************************************)
(* The exchange: external. A fill belongs to a new order or to an earlier  *)
(* one of the same direction, whose fees it pays in an asset the order has *)
(* paid in before or in another; in hedge mode it cannot cross zero. An    *)
(* order and a trade are named by their first fill.                        *)
(***************************************************************************)
Fill(k, delta, order, trade) ==
    LET n == Len(book) + 1
        after == Position(k) + delta
    IN
    /\ Len(book) < MaxFills
    /\ after \in -MaxShort .. MaxLong
    /\ k = "LONG" => after >= 0
    /\ k = "SHORT" => after <= 0
    /\ \/ order = n /\ trade = n
       \/ \E i \in DOMAIN book :
              /\ book[i].key = k /\ Sign(book[i].delta) = Sign(delta)
              /\ order = book[i].order
              /\ \/ trade = book[i].trade
                 \/ venue # "HYPERLIQUID" /\ trade = n
    /\ book' = Append(book, [key |-> k, delta |-> delta, order |-> order, trade |-> trade,
                             before |-> Position(k), read |-> readTo])
    /\ UNCHANGED <<venue, initial, readTo, stored, cursor, pc, answer>>

(***************************************************************************)
(* A cycle while it is rebuilt, and the row a finished one becomes.        *)
(* `complete': its opening was seen. Only Hyperliquid stores that.         *)
(***************************************************************************)
NoCycle == [side |-> "NONE", complete |-> FALSE, size |-> 0, max |-> 0, closed |-> 0]

NewCycle(side, complete, size) ==
    [NoCycle EXCEPT !.side = side, !.complete = complete, !.size = size, !.max = size]

\* _add_binance_open
Grown(cycle, quantity) ==
    [cycle EXCEPT !.size = @ + quantity, !.max = Most(@, cycle.size + quantity)]

\* _add_binance_close
Shrunk(cycle, quantity) ==
    [cycle EXCEPT !.size = @ - quantity, !.closed = @ + quantity]

\* the fill, or the last fill of the trade, that closes it names the row
Finished(cycle, id) ==
    [id |-> id, side |-> cycle.side, complete |-> cycle.complete,
     max |-> cycle.max, closed |-> cycle.closed]

Start == [position |-> 0, cycle |-> NoCycle, rows |-> {}]

Close(state, cycle, id) ==
    [state EXCEPT !.cycle = NoCycle, !.rows = @ \cup {Finished(cycle, id)}]

(***************************************************************************)
(* Binance. Every call reads the whole history and forgets what it rebuilt *)
(* for cycles that closed before its window.                               *)
(***************************************************************************)
\* the last fills of the trades, as far as they are known at `to'
LastFills(to) ==
    {i \in 1 .. to : \A j \in FillsOf(book[i].trade) : j <= i \/ j > to}

\* f[1] + ... + f[n]
SumTo(f, n) ==
    LET sum[m \in 0 .. n] == IF m = 0 THEN 0 ELSE sum[m - 1] + f[m] IN sum[n]

\* the part of a trade that is filled at `to'
Quantity(trade, to) ==
    SumTo([i \in 1 .. to |-> IF book[i].trade = trade THEN book[i].delta ELSE 0], to)

\* mutant: the fills are not aggregated
FillRows(k, to) == [i \in FillsIn(k) \cap 1 .. to |-> [id |-> i, delta |-> book[i].delta]]

\* _aggregate_order_fills: one row per trade, in the order of the last fills
OrderRows(k, to) ==
    [i \in FillsIn(k) \cap LastFills(to) |->
        [id |-> i, delta |-> Quantity(book[i].trade, to)]]

\* mutant: the part of a reversal that opens is lost
OneWayWithoutFlip(state, row) ==
    LET p == state.position
        less == Shrunk(state.cycle, Least(Abs(p), Abs(row.delta)))
    IN IF p * row.delta >= 0
       THEN [state EXCEPT !.position = p + row.delta,
                          !.cycle = Grown(IF state.cycle = NoCycle
                                          THEN NewCycle(SideOf(row.delta), TRUE, 0)
                                          ELSE state.cycle, Abs(row.delta))]
       ELSE IF p * (p + row.delta) <= 0
            THEN [Close(state, less, row.id) EXCEPT !.position = 0]
            ELSE [state EXCEPT !.position = p + row.delta, !.cycle = less]

\* _closed_cycles_from_one_way_trades: a reversal ends one cycle, opens another
OneWayStep(state, row) ==
    LET p == state.position
        q == p + row.delta
        less == Shrunk(state.cycle, Least(Abs(p), Abs(row.delta)))
        ended == [Close(state, less, row.id) EXCEPT !.position = q]
    IN IF p * row.delta >= 0
       THEN [state EXCEPT !.position = q,
                          !.cycle = Grown(IF state.cycle = NoCycle
                                          THEN NewCycle(SideOf(row.delta), TRUE, 0)
                                          ELSE state.cycle, Abs(row.delta))]
       ELSE IF p * q > 0 THEN [state EXCEPT !.position = q, !.cycle = less]
       ELSE IF q = 0 THEN ended
       ELSE [ended EXCEPT !.cycle = NewCycle(SideOf(q), TRUE, Abs(q))]

\* mutant: the size of an unseen position is not set
HedgeStepUnsized(k, state, row) ==
    LET opens == SideOf(row.delta) = k
        cycle == IF state.cycle # NoCycle THEN state.cycle ELSE NewCycle(k, opens, 0)
        less == Shrunk(cycle, Least(Abs(row.delta), cycle.size))
    IN IF opens THEN [state EXCEPT !.cycle = Grown(cycle, Abs(row.delta))]
       ELSE IF less.size > 0 THEN [state EXCEPT !.cycle = less]
       ELSE Close(state, less, row.id)

\* _closed_cycles_from_hedge_trades: a reduction of an unseen position is taken
\* for a cycle of its own size
HedgeStep(k, state, row) ==
    LET quantity == Abs(row.delta)
        opens == SideOf(row.delta) = k
        cycle == IF state.cycle # NoCycle THEN state.cycle
                 ELSE NewCycle(k, opens, IF opens THEN 0 ELSE quantity)
        less == Shrunk(cycle, Least(quantity, cycle.size))
    IN IF opens THEN [state EXCEPT !.cycle = Grown(cycle, quantity)]
       ELSE IF less.size > 0 THEN [state EXCEPT !.cycle = less]
       ELSE Close(state, less, row.id)

(***************************************************************************)
(* Hyperliquid: the fills of the window only; a fill says what the         *)
(* position was before it, so a cycle can be joined in its middle.         *)
(***************************************************************************)
\* mutant: a cycle that is joined in its middle is dropped
HyperliquidStepWhole(state, fill) ==
    LET p == fill.before
        q == p + fill.delta
        less == Shrunk(state.cycle, Least(Abs(p), Abs(fill.delta)))
    IN IF p # 0 /\ state.cycle = NoCycle THEN state
       ELSE IF p * fill.delta < 0
       THEN IF p * q > 0 THEN [state EXCEPT !.cycle = less] ELSE Close(state, less, fill.id)
       ELSE [state EXCEPT !.cycle = Grown(IF p = 0 THEN NewCycle(SideOf(q), TRUE, 0)
                                          ELSE @, Abs(fill.delta))]

\* _closed_cycles_from_fills
HyperliquidStep(state, fill) ==
    LET p == fill.before
        q == p + fill.delta
        unseen == \/ state.cycle = NoCycle
                  \/ p * fill.delta < 0 /\ state.cycle.side # SideOf(p)
        seen == IF p # 0 /\ unseen
                THEN NewCycle(SideOf(p), FALSE, Abs(p)) ELSE state.cycle
        less == [Shrunk(seen, Least(Abs(p), Abs(fill.delta))) EXCEPT
                    !.max = Most(@, Abs(p))]
        ended == Close(state, less, fill.id)
        opened == IF seen.side = SideOf(q) THEN seen ELSE NewCycle(SideOf(q), TRUE, 0)
        more == [opened EXCEPT !.max = Most(@, Abs(q)), !.size = Abs(q)]
    IN IF p * fill.delta >= 0 THEN [state EXCEPT !.cycle = more]
       ELSE IF p * q > 0 THEN [state EXCEPT !.cycle = less]
       ELSE IF q = 0 THEN ended ELSE [ended EXCEPT !.cycle = more]

FillRow(i) == [id |-> i, before |-> book[i].before, delta |-> book[i].delta]

\* mutant: the window begins one fill late
WindowFillsLate(from, to) == [i \in from + 2 .. to |-> FillRow(i)]

WindowFills(from, to) == [i \in from + 1 .. to |-> FillRow(i)]

(***************************************************************************)
(* An adapter call: the rows of each key, one after the other.             *)
(***************************************************************************)
Trades(k, from, to) ==
    IF venue = "HYPERLIQUID" THEN WindowFills(from, to) ELSE OrderRows(k, to)

Step(mode, k, state, row) ==
    CASE mode = "ONE_WAY"     -> OneWayStep(state, row)
      [] mode = "HEDGE"       -> HedgeStep(k, state, row)
      [] mode = "HYPERLIQUID" -> HyperliquidStep(state, row)

\* what the reconstruction has become after the trades until `to'
Replay(mode, k, trades, to) ==
    LET state[n \in 0 .. to] ==
            IF n = 0 THEN Start
            ELSE IF n \in DOMAIN trades THEN Step(mode, k, state[n - 1], trades[n])
            ELSE state[n - 1]
    IN state[to]

\* get_closed_positions between the moments `from' and `to'
Rebuilt(from, to) ==
    {row \in UNION {Replay(venue, k, Trades(k, from, to), to).rows : k \in Keys} :
        from < row.id}

(***************************************************************************)
(* Sessions. The synchronisation reads from its cursor minus the overlap   *)
(* (these two adapters report no open_time of a position that would extend *)
(* the window), a script everything; each applies its answer in one        *)
(* transaction. One script runs at a time: the one that rebuilds or the    *)
(* one that cleans up.                                                     *)
(***************************************************************************)
Read(w) ==
    LET from == IF w = "sync" THEN Most(cursor - Overlap, 0) ELSE 0
        to == Len(book)
    IN /\ pc[w] = "idle"
       /\ w = "sync" \/ venue # "HYPERLIQUID"
       /\ answer' = [answer EXCEPT ![w] = [rows |-> Rebuilt(from, to), from |-> from, to |-> to]]
       /\ pc' = [pc EXCEPT ![w] = "read"]
       /\ readTo' = to
       /\ UNCHANGED <<venue, initial, book, stored, cursor>>

\* _upsert_closed_positions for an exchange whose records have one identity
Upserted(rows, items) ==
    {row \in rows : \A item \in items : item.id # row.id} \cup items

Done(w) ==
    /\ pc' = [pc EXCEPT ![w] = "idle"]
    /\ answer' = [answer EXCEPT ![w] = NoAnswer]
    /\ UNCHANGED <<venue, initial, book, readTo>>

CommitSync ==
    /\ pc["sync"] = "read"
    /\ stored' = Upserted(stored, answer["sync"].rows)
    /\ cursor' = answer["sync"].to
    /\ Done("sync")

\* rebuild_binance_closed_positions.py: nothing is deleted
CommitRebuild ==
    /\ pc["script"] = "read"
    /\ stored' = Upserted(stored, answer["script"].rows)
    /\ UNCHANGED cursor
    /\ Done("script")

\* the stored rows of one closing order, among the fills the script has read
Fragments(side, order, to) ==
    {row \in stored : row.id <= to /\ row.side = side /\ book[row.id].order = order}

Groups(to) ==
    {g \in {Fragments(row.side, book[row.id].order, to) : row \in {r \in stored : r.id <= to}} :
        Cardinality(g) > 1}

Matches(group) == {item \in answer["script"].rows : \E row \in group : row.id = item.id}

\* mutant: the oldest row of a group stays, whatever was rebuilt
OldestStays(group) == {row \in group : \E other \in group : other.id < row.id}

Surplus(group) == {row \in group : \A item \in Matches(group) : item.id # row.id}

\* cleanup_binance_fill_fragments; a group without one match ends it
CommitCleanup ==
    LET groups == Groups(answer["script"].to) IN
    /\ pc["script"] = "read"
    /\ \A g \in groups : Cardinality(Matches(g)) = 1
    /\ stored' = Upserted(stored \ UNION {Surplus(g) : g \in groups}, answer["script"].rows)
    /\ UNCHANGED cursor
    /\ Done("script")

\* the adapter or the transaction fails
GiveUp(w) ==
    /\ pc[w] = "read"
    /\ UNCHANGED <<stored, cursor>>
    /\ Done(w)

Next ==
    \/ /\ Len(book) < MaxFills
       /\ \E k \in Keys, delta \in Deltas, order, trade \in 1 .. MaxFills :
              Fill(k, delta, order, trade)
    \/ \E w \in Workers : Read(w) \/ GiveUp(w)
    \/ CommitSync
    \/ CommitRebuild
    \/ CommitCleanup

Spec == Init /\ [][Next]_vars

(***************************************************************************)
(* What really happened: the cycles of the book, fill by fill.             *)
(***************************************************************************)
Closes(i) == book[i].before # 0 /\ book[i].before * After(i) <= 0

\* the fills of the cycle that fill i closes, without one that opened it
CycleOf(i) ==
    LET earlier == {j \in FillsIn(book[i].key) : j < i /\ book[j].before * After(j) <= 0}
    IN {j \in FillsIn(book[i].key) : j <= i /\ \A e \in earlier : e < j}

\* the fill that opened it, 0 for one before the first: a reversal opens the next cycle
OpenedBy(i) == Min(CycleOf(i)) - 1

\* what a fill takes from the position before it
Reduction(j) ==
    IF book[j].before * book[j].delta < 0 THEN Least(Abs(book[j].before), Abs(book[j].delta)) ELSE 0

Closed(i) == SumTo([j \in 1 .. i |-> IF j \in CycleOf(i) THEN Reduction(j) ELSE 0], i)

Peak(i) == Max({Abs(book[j].before) : j \in CycleOf(i)})

TrueRow(i, id) == [id |-> id, side |-> SideOf(book[i].before), max |-> Peak(i), closed |-> Closed(i)]

Facts(rows) == {[id |-> r.id, side |-> r.side, max |-> r.max, closed |-> r.closed] : r \in rows}

\* the last fill of i's trade that is known at `to'
LastKnown(i, to) == Max({j \in FillsOf(book[i].trade) : j <= to})

\* Binance's history begins with no position, and no trade is filled around another
Reconstructible ==
    /\ \A k \in Keys : initial[k] = 0
    /\ \A i, j \in DOMAIN book : \A n \in i .. j :
           book[i].trade = book[j].trade /\ book[n].key = book[i].key
               => book[n].trade = book[i].trade

-----------------------------------------------------------------------------
(***************************************************************************)
(* Properties.                                                             *)
(***************************************************************************)
\* Types; a row is named by a fill of the book that some session has read, and
\* closes something (_normalize_binance_cycles, get_closed_positions).
TypeOK ==
    LET size == Most(MaxLong, MaxShort) IN
    /\ venue \in Venues
    /\ initial \in [Keys -> -size .. size]
    /\ book \in Seq([key : Keys, delta : Deltas, order : 1 .. MaxFills, trade : 1 .. MaxFills,
                    before : -size .. size, read : 0 .. MaxFills])
    /\ cursor <= readTo /\ readTo <= Len(book)
    /\ stored \subseteq [id : 1 .. readTo, side : {"LONG", "SHORT"}, complete : BOOLEAN,
                        max : Nat \ {0}, closed : Nat \ {0}]
    /\ pc \in [Workers -> {"idle", "read"}]
    /\ \A w \in Workers : answer[w].from <= answer[w].to /\ answer[w].to <= readTo

\* What an adapter call answers are the cycles that really closed in its
\* window, with their direction, largest size and closed quantity, however the
\* orders were filled and wherever the call cut them: for Binance when its
\* history begins flat and trades are not filled around each other, each cycle
\* under the last fill of the order that paid its fee like the closing one
\* (_aggregate_order_fills and the two reconstructions), for Hyperliquid the
\* rows it calls complete (_closed_cycles_from_fills).
RowsAreCycles ==
    \A w \in Workers : pc[w] = "read" =>
        LET a == answer[w]
            closings == {i \in 1 .. a.to : Closes(i)}
        IN IF venue = "HYPERLIQUID"
           THEN Facts({row \in a.rows : row.complete}) \subseteq
                    {TrueRow(i, i) : i \in closings}
           ELSE Reconstructible =>
                    Facts(a.rows) = {TrueRow(i, LastKnown(i, a.to)) :
                                     i \in {c \in closings : LastKnown(c, a.to) > a.from}}

\* Every position that was closed before the cursor has a row: for Hyperliquid
\* that of its closing fill, for Binance one of its closing order, which a later
\* read or the cleanup of fragments may have put under another fill
\* (sync_account with the cursor's overlap; cleanup_binance_fill_fragments).
ClosesAreStored ==
    \A i \in 1 .. cursor :
        Closes(i) /\ (venue = "HYPERLIQUID" \/ Reconstructible) =>
            \E row \in stored :
                /\ row.side = SideOf(book[i].before)
                /\ IF venue = "HYPERLIQUID" THEN row.id = i
                   ELSE book[row.id].order = book[i].order

\* An order that closes a position has one row, unless the rows stand for fills
\* that paid their fees in different assets, or some session had read a part of
\* those that paid in the same one (_aggregate_order_fills; the fragments
\* cleanup_binance_fill_fragments exists for).
OneRowPerOrder ==
    venue # "HYPERLIQUID" =>
        \A r, s \in stored :
            r.id # s.id /\ r.side = s.side /\ book[r.id].order = book[s.id].order =>
                \/ book[r.id].trade # book[s.id].trade
                \/ \E i \in FillsOf(book[r.id].trade) :
                       i # book[i].trade /\ book[i].read >= book[i].trade

\* Of the rows it found for one order the cleanup leaves one, which is the one a
\* synchronisation would write, and it writes all it has rebuilt
\* (cleanup_binance_fill_fragments).
CleanupMerges ==
    [][CommitCleanup =>
        LET a == answer["script"]
            kept == {r.id : r \in stored} \cap {r.id : r \in stored'}
        IN /\ a.rows \subseteq stored'
           /\ \A r, s \in stored' :
                  r.id \in kept /\ s.id \in kept /\ r.id <= a.to /\ s.id <= a.to
                  /\ r.side = s.side /\ book[r.id].order = book[s.id].order => r.id = s.id]_vars

\* A closed position is a fact: no row that was complete is replaced by one that
\* knows less of its cycle, except by a synchronisation whose window begins
\* after the fill that opened the cycle (docs/exchange-integration-lessons.md:251,
\* _closed_cycles_from_fills: such a row is PARTIAL and overwrites the other).
CompleteRowsStay ==
    [][venue = "HYPERLIQUID" =>
        \A r \in stored : r.complete =>
            \/ \E s \in stored' : s.id = r.id /\ s.complete /\ s.closed >= r.closed
            \/ /\ pc["sync"] = "read" /\ pc'["sync"] = "idle"
               /\ OpenedBy(r.id) <= answer["sync"].from]_vars
=============================================================================
