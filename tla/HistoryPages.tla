---------------------------- MODULE HistoryPages ----------------------------
(***************************************************************************)
(* How the adapters (backend/app/adapters) read a history of the exchange  *)
(* page by page, while it goes on publishing records and changing those    *)
(* that are cumulative, and what the bundle made of the pages says of its  *)
(* completeness. One call of one adapter; every page is a request of its   *)
(* own.                                                                    *)
(***************************************************************************)
EXTENDS Integers, FiniteSets, FiniteSetsExt

CONSTANTS
    Endpoints,   \* the endpoints that are called
    Records,     \* records of the exchange, numbered as it numbers them
    MaxTime,     \* bound on the time of a record
    MaxLate,     \* bound on the records that are published after the start
    Contents,    \* what each record may hold: functions on Records
    Limit,       \* rows of a page
    MaxPages,    \* requests after which an adapter stops asking
    SliceLength  \* the seven days Bybit and Binance's trades allow a query

Time    == 1 .. MaxTime
Bundles == {"BINANCE_INCOME", "OKX_BILLS", "BITGET_BILLS", "BYBIT_LOG", "HYPERLIQUID_BUNDLE"}
Sliced  == {"BYBIT_LOG", "BINANCE_TRADES"}
ByTime  == {"OKX_POSITIONS", "HYPERLIQUID_FILLS"}
Cumulative == {"OKX_POSITIONS", "POLYMARKET_CLOSED"}

\* an amount the adapter knows, one of an unknown type, one under an unknown
\* name, a leg of a conversion between stablecoins, or none; a fee; whether the
\* asset is one it counts in; and whether the contract is a USDC one
Content == [amount : {"none", "known", "unknown", "untold", "converted"}, fee : BOOLEAN,
            stable : BOOLEAN, usdc : BOOLEAN]

ASSUME PageConstants ==
    /\ Endpoints \subseteq Bundles \cup Sliced \cup ByTime \cup Cumulative
    /\ Records \subseteq Nat \ {0} /\ IsFiniteSet(Records)
    /\ {MaxTime, Limit, MaxPages, SliceLength} \subseteq Nat \ {0} /\ MaxLate \in Nat
    /\ Contents \subseteq [Records -> Content]

VARIABLES
    endpoint, \* the endpoint this call reads
    time,     \* exchange: the time of each record
    content,  \* exchange: what it holds
    visible,  \* exchange: the records it returns
    pc,       \* where the call stands
    from, to, \* the window asked for
    slice,    \* beginning of the part of it that is read
    cursor,   \* where the next page begins, 0: not known yet
    pages,    \* pages read of this part
    read,     \* the rows collected, with their time when they were read
    atStart,  \* history variable: what was visible when the call began
    capped    \* history variable: parts that more pages might have followed

exchangeVars == <<time, content, visible>>
callVars     == <<endpoint, from, to, atStart>>
vars         == <<exchangeVars, callVars, pc, slice, cursor, pages, read, capped>>

Precedes(r, s) == time[r] < time[s] \/ (time[r] = time[s] /\ r < s)

Oldest(n, rows) == {r \in rows : Cardinality({q \in rows : Precedes(q, r)}) < n}
Newest(n, rows) == {r \in rows : Cardinality({q \in rows : Precedes(r, q)}) < n}

SliceEnd(first) ==
    IF endpoint \in Sliced THEN Min({to, first + SliceLength - 1}) ELSE to

InSlice == {r \in visible : time[r] \in slice .. SliceEnd(slice)}

\* what the rows of other endpoints hold is not read here
NothingOfInterest ==
    [r \in Records |-> [amount |-> "none", fee |-> FALSE, stable |-> TRUE, usdc |-> FALSE]]

\* Binance lists a fee as a record of its own; what Hyperliquid's ledger calls
\* an amount depends on the type of the entry; OKX has subtypes for conversions,
\* and Bitget product types whose bills are asked for one by one
Plausible(c) ==
    /\ endpoint = "BINANCE_INCOME" => ~c.fee
    /\ c.amount = "untold" => endpoint = "HYPERLIQUID_BUNDLE" /\ ~c.fee
    /\ c.amount = "converted" => endpoint = "OKX_BILLS"
    /\ c.usdc => endpoint = "BITGET_BILLS"

\* numbers are given in the order of time
Numbered == \A r, s \in Records : r < s => time[r] <= time[s]

\* late records happened, but are not returned yet
Init ==
    /\ endpoint \in Endpoints
    /\ time \in [Records -> Time] /\ Numbered
    /\ content \in IF endpoint \in Bundles THEN Contents ELSE {NothingOfInterest}
    /\ \A r \in Records : Plausible(content[r])
    /\ visible \in SUBSET Records /\ Cardinality(Records \ visible) <= MaxLate
    /\ pc = "idle"
    /\ from = 0 /\ to = 0 /\ slice = 0 /\ cursor = 0 /\ pages = 0
    /\ read = {} /\ atStart = {} /\ capped = {}

(***************************************************************************)
(* The exchange: external. A record is returned late; a position that is   *)
(* reduced again, or a settlement that is corrected, gets a later time.    *)
(***************************************************************************)
Publish(r) ==
    /\ r \notin visible
    /\ visible' = visible \cup {r}
    /\ UNCHANGED <<time, content, callVars, pc, slice, cursor, pages, read, capped>>

Change(r) ==
    /\ endpoint \in Cumulative
    /\ pc = "paging"
    /\ r \in visible
    /\ \E t \in to + 1 .. MaxTime :
         /\ t > time[r]
         /\ time' = [time EXCEPT ![r] = t]
    /\ UNCHANGED <<content, visible, callVars, pc, slice, cursor, pages, read, capped>>

(***************************************************************************)
(* The call. A window ends at the present and is never empty.              *)
(***************************************************************************)
Begin ==
    /\ pc \in {"idle", "done"}
    /\ \E first, last \in Time :
         /\ first < last
         /\ from' = first /\ to' = last /\ slice' = first
    /\ pc' = "paging"
    /\ cursor' = 0 /\ pages' = 0 /\ read' = {} /\ capped' = {}
    /\ atStart' = visible
    /\ UNCHANGED <<endpoint, exchangeVars>>

\* _windows of Bybit asks for no part that would begin at the end
LastSlice ==
    IF endpoint = "BYBIT_LOG" THEN SliceEnd(slice) + 1 >= to ELSE SliceEnd(slice) >= to

\* a page was read: `kept' is collected, `more' is the adapter's reason to go
\* on at `next', which MaxPages may overrule
Take(kept, more, next) ==
    LET again == more /\ pages + 1 < MaxPages IN
    /\ pc = "paging"
    /\ read' = read \cup {[id |-> r, time |-> time[r]] : r \in kept}
    /\ capped' = IF more /\ ~again THEN capped \cup {slice} ELSE capped
    /\ pages' = IF again THEN pages + 1 ELSE 0
    /\ cursor' = IF again THEN next ELSE 0
    /\ slice' = IF again \/ LastSlice THEN slice ELSE SliceEnd(slice) + 1
    /\ pc' = IF again \/ ~LastSlice THEN "paging" ELSE "done"
    /\ UNCHANGED <<exchangeVars, callVars>>

Full(page) == Cardinality(page) = Limit

\* _income_rows, _funding_rows: numbered pages, oldest first
BinanceIncome ==
    LET page == Oldest((pages + 1) * Limit, InSlice) \ Oldest(pages * Limit, InSlice) IN
    /\ endpoint = "BINANCE_INCOME"
    /\ Take(page, Full(page), 0)

\* mutant: rows beyond the part are kept
BinanceTradesUnfiltered ==
    LET page == IF pages = 0 THEN Oldest(Limit, InSlice)
                ELSE Oldest(Limit, {r \in visible : r >= cursor}) IN
    /\ endpoint = "BINANCE_TRADES"
    /\ Take(page, Full(page), IF page = {} THEN 0 ELSE Max(page) + 1)

\* _trade_rows: after the first page by the number of the trade, which runs on
\* beyond the part
BinanceTrades ==
    LET page == IF pages = 0 THEN Oldest(Limit, InSlice)
                ELSE Oldest(Limit, {r \in visible : r >= cursor})
        kept == page \cap InSlice
    IN /\ endpoint = "BINANCE_TRADES"
       /\ Take(kept, Full(page) /\ kept = page, IF page = {} THEN 0 ELSE Max(page) + 1)

\* _bill_rows of Bitget: productType is USDT-FUTURES, and no other is asked for
OfProduct(r) == endpoint = "BITGET_BILLS" => ~content[r].usdc

\* numbered rows below a cursor, newest first
NumberedPage == Newest(Limit, {r \in InSlice : OfProduct(r) /\ (cursor = 0 \/ r < cursor)})

TakeNumbered ==
    Take(NumberedPage, Full(NumberedPage), IF NumberedPage = {} THEN 0 ELSE Min(NumberedPage))

\* _bill_rows: after = the last billId
OkxBills == endpoint = "OKX_BILLS" /\ TakeNumbered

\* _position_history_rows, _order_history_rows, _bill_rows: idLessThan = endId
BitgetBills == endpoint = "BITGET_BILLS" /\ TakeNumbered

\* _paged in _transaction_rows and get_closed_positions: nextPageCursor
BybitLog == endpoint = "BYBIT_LOG" /\ TakeNumbered

\* _position_history_rows: no window in the request; after = the oldest uTime
OkxPositions ==
    LET page == Newest(Limit, {r \in visible : cursor = 0 \/ time[r] < cursor})
        oldest == Min({time[r] : r \in page})
    IN /\ endpoint = "OKX_POSITIONS"
       /\ Take({r \in page : time[r] \in from .. to},
               Full(page) /\ oldest >= from, IF page = {} THEN 0 ELSE oldest)

\* mutant: the next page begins two milliseconds after the latest row
HyperliquidFillsSkipping ==
    LET page == Oldest(Limit, {r \in visible : time[r] \in Max({from, cursor}) .. to})
        latest == Max({time[r] : r \in page})
    IN /\ endpoint = "HYPERLIQUID_FILLS"
       /\ Take(page, page # {} /\ latest < to, IF page = {} THEN 0 ELSE latest + 2)

\* _time_paginated_info: the next page begins a millisecond after the latest row
HyperliquidFills ==
    LET page == Oldest(Limit, {r \in visible : time[r] \in Max({from, cursor}) .. to})
        latest == Max({time[r] : r \in page})
    IN /\ endpoint = "HYPERLIQUID_FILLS"
       /\ Take(page, page # {} /\ latest < to, IF page = {} THEN 0 ELSE latest + 1)

\* get_history_bundle of Hyperliquid: one request, whatever it leaves out
HyperliquidBundle ==
    LET page == Oldest(Limit, InSlice) IN
    /\ endpoint = "HYPERLIQUID_BUNDLE"
    /\ pc = "paging"
    /\ read' = {[id |-> r, time |-> time[r]] : r \in page}
    /\ capped' = IF Full(page) THEN {slice} ELSE {}
    /\ pc' = "done"
    /\ UNCHANGED <<exchangeVars, callVars, slice, cursor, pages>>

\* get_closed_positions: offsets into a list that moves, newest first, until a
\* row is older than the window
PolymarketClosed ==
    LET page == Newest((pages + 1) * Limit, visible) \ Newest(pages * Limit, visible) IN
    /\ endpoint = "POLYMARKET_CLOSED"
    /\ Take({r \in page : time[r] \in from .. to},
            Full(page) /\ \A r \in page : time[r] >= from, 0)

\* a failing request fails the call; no row of it is returned
Fail ==
    /\ pc = "paging"
    /\ pc' = "idle"
    /\ slice' = 0 /\ cursor' = 0 /\ pages' = 0 /\ read' = {} /\ capped' = {}
    /\ UNCHANGED <<exchangeVars, callVars>>

Next ==
    \/ \E r \in Records : Publish(r) \/ Change(r)
    \/ Begin
    \/ BinanceIncome \/ BinanceTrades
    \/ OkxBills \/ OkxPositions
    \/ BitgetBills
    \/ BybitLog
    \/ HyperliquidFills \/ HyperliquidBundle
    \/ PolymarketClosed
    \/ Fail

Spec == Init /\ [][Next]_vars

(***************************************************************************)
(* get_history_bundle: what is booked of a record, and whether the bundle  *)
(* may still call itself complete.                                         *)
(***************************************************************************)
Nothing(whole) == [books |-> {}, whole |-> whole]

Amount(c) == IF c.amount = "known" THEN {"amount"} ELSE {}
Fee(c)    == IF c.fee THEN {"fee"} ELSE {}

BinanceBundle(c) ==
    IF ~c.stable THEN Nothing(FALSE)
    ELSE [books |-> Amount(c), whole |-> c.amount # "unknown"]

\* mutant: another asset is left out without a word
OkxBundleStableOnly(c) ==
    IF ~c.stable THEN Nothing(TRUE)
    ELSE [books |-> Amount(c) \cup Fee(c), whole |-> c.amount # "unknown" \/ c.fee]

\* a bill with a fee is recognised, whatever else it changes, and so is a leg of a
\* conversion (subtypes 318 and 319), of which nothing is booked
OkxBundle(c) ==
    IF ~c.stable THEN Nothing(FALSE)
    ELSE [books |-> Amount(c) \cup Fee(c), whole |-> c.amount # "unknown" \/ c.fee]

BitgetBundle(c) ==
    IF ~c.stable THEN Nothing(FALSE)
    ELSE LET books == Amount(c) \cup Fee(c) IN
         [books |-> books, whole |-> c.amount = "unknown" => books # {}]

BybitBundle(c) ==
    IF ~c.stable THEN Nothing(FALSE)
    ELSE [books |-> Amount(c) \cup Fee(c), whole |-> c.amount # "unknown"]

\* only fees come in other tokens; a ledger entry without a known field for its
\* amount is passed over
HyperliquidBooks(c) ==
    [books |-> Amount(c) \cup IF c.stable THEN Fee(c) ELSE {},
     whole |-> (c.fee => c.stable) /\ c.amount # "unknown"]

Booking(r) ==
    CASE endpoint = "BINANCE_INCOME"     -> BinanceBundle(content[r])
      [] endpoint = "OKX_BILLS"          -> OkxBundle(content[r])
      [] endpoint = "BITGET_BILLS"       -> BitgetBundle(content[r])
      [] endpoint = "BYBIT_LOG"          -> BybitBundle(content[r])
      [] endpoint = "HYPERLIQUID_BUNDLE" -> HyperliquidBooks(content[r])

\* "complete" of the bundle
Complete == \A row \in read : Booking(row.id).whole

(***************************************************************************)
(* Properties.                                                             *)
(***************************************************************************)
\* Types; the rows collected are of the window, also where the requests are not
\* (_trade_rows, _position_history_rows, get_closed_positions).
TypeOK ==
    /\ endpoint \in Endpoints
    /\ time \in [Records -> Time] /\ content \in [Records -> Content]
    /\ visible \subseteq Records /\ atStart \subseteq visible
    /\ pc \in {"idle", "paging", "done"}
    /\ pages \in 0 .. MaxPages - 1
    /\ cursor \in Nat
    /\ \A row \in read : row.id \in visible /\ row.time \in from .. to
    /\ \A first \in capped : first \in from .. to

\* the records of the window that were there when the call began and did not leave
\* it. Bybit's last millisecond may be a part of its own, which is left to the
\* next call's overlap.
InWindow ==
    {r \in atStart : time[r] \in from .. to /\ (endpoint = "BYBIT_LOG" => time[r] < to)}

\* those a finished call should have returned
Expected == {r \in InWindow : OfProduct(r)}

Returned == {row.id : row \in read}

PartOf(t) == IF endpoint \in Sliced THEN (t - from) \div SliceLength ELSE 0

\* r comes behind the row in the order the endpoint is read
Behind(r, row) ==
    IF endpoint \in {"BINANCE_INCOME", "BINANCE_TRADES", "HYPERLIQUID_FILLS", "HYPERLIQUID_BUNDLE"}
    THEN row.time < time[r] \/ (row.time = time[r] /\ row.id < r)
    ELSE time[r] < row.time \/ (row.time = time[r] /\ r < row.id)

\* Every part of the window is paged to its end: although records are
\* published and changed between two pages, a finished call has returned what
\* was there when it began. What is missing lies behind all that was read of a
\* part whose pages ran out, never between, except that a page boundary within
\* one millisecond cuts off the rest of it where the cursor is a time
\* (docs/exchange-integration-lessons.md:227-228 and the loops of the adapters).
NoHoles ==
    pc = "done" =>
        \A r \in Expected \ Returned :
            \/ endpoint \in ByTime /\ \E row \in read : row.time = time[r]
            \/ /\ \E first \in capped : PartOf(first) = PartOf(time[r])
               /\ \A row \in read : PartOf(row.time) = PartOf(time[r]) => Behind(r, row)

Owed(c) == (IF c.amount = "none" THEN {} ELSE {"amount"}) \cup Fee(c)

\* COMPLETE means what it says: a bundle that calls itself complete and did
\* not run out of pages has booked every amount and fee of its window, except
\* for what the adapters take for nothing: an unknown amount beside a fee (OKX,
\* Bitget), one under an unknown name (Hyperliquid), a leg of a conversion
\* between stablecoins (OKX), and the bills of Bitget's USDC contracts, for which
\* nobody asks (docs/exchange-integration-lessons.md:33-34, get_history_bundle).
CompleteMeansBooked ==
    pc = "done" /\ endpoint \in Bundles /\ Complete /\ capped = {} =>
        \A r \in InWindow :
            LET c == content[r] IN
            \/ Owed(c) \subseteq Booking(r).books
            \/ c.amount = "unknown" /\ c.fee /\ endpoint \in {"OKX_BILLS", "BITGET_BILLS"}
            \/ c.amount = "untold"
            \/ c.amount = "converted" /\ Fee(c) \subseteq Booking(r).books
            \/ ~OfProduct(r)
=============================================================================
