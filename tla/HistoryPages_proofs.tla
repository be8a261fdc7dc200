------------------------ MODULE HistoryPages_proofs ------------------------
(***************************************************************************)
(* Theorems about HistoryPages: what a call has returned when it ends, for *)
(* any records, times, limits and lengths of a part.                       *)
(***************************************************************************)
EXTENDS HistoryPages, FiniteSetTheorems, WellFoundedInduction, TLAPS

(***************************************************************************)
(* Pages. A page is made of the first n rows of a strict order: one that   *)
(* is not among them comes after all of them, and they are n.              *)
(***************************************************************************)
Orders(R, S) ==
    /\ \A q, r \in S : <<q, r>> \in R => <<r, q>> \notin R
    /\ \A p, q, r \in S : <<p, q>> \in R /\ <<q, r>> \in R => <<p, r>> \in R
    /\ \A q, r \in S : q = r \/ <<q, r>> \in R \/ <<r, q>> \in R

Before(R, S, r) == {q \in S : <<q, r>> \in R}
First(R, S, n)  == {r \in S : Cardinality(Before(R, S, r)) < n}

LEMMA OneIsFirst ==
  ASSUME NEW R, NEW S, IsFiniteSet(S), S # {}, Orders(R, S)
  PROVE  \E r \in S : \A q \in S : <<q, r>> \notin R
  <1> DEFINE D == {Before(R, S, r) : r \in S}
  <1>1. D \subseteq SUBSET S /\ D # {}
    <2>1. \A r \in S : Before(R, S, r) \in SUBSET S
      BY DEF Before
    <2> QED
      BY <2>1
  <1>2. IsWellFoundedOn(StrictSubsetOrdering(S), SUBSET S)
    <2>1. FiniteSubsetsOf(S) = SUBSET S
      BY FS_FiniteSubsetsOfFinite
    <2> QED
      BY <2>1, FS_StrictSubsetOrderingWellFounded
  <1> HIDE DEF D
  <1>3. PICK x \in D : \A y \in D : ~ (<<y, x>> \in StrictSubsetOrdering(S))
    BY <1>1, <1>2, WFMin, Zenon
  <1>4. PICK r \in S : x = Before(R, S, r)
    BY DEF D
  <1>5. ASSUME NEW q \in S, <<q, r>> \in R PROVE FALSE
    <2>1. Before(R, S, q) \in D
      BY DEF D
    <2>2. Before(R, S, q) \subseteq x
      BY <1>4, <1>5 DEF Before, Orders
    <2>3. q \in x /\ q \notin Before(R, S, q)
      BY <1>4, <1>5 DEF Before, Orders
    <2>4. x \in SUBSET S /\ Before(R, S, q) \in SUBSET S
      BY <1>4 DEF Before
    <2> QED
      BY <1>3, <2>1, <2>2, <2>3, <2>4 DEF StrictSubsetOrdering
  <1> QED
    BY <1>5

LEMMA FirstCount ==
  ASSUME NEW R, NEW S, IsFiniteSet(S), Orders(R, S), NEW n \in Nat
  PROVE  \A r \in S \ First(R, S, n) :
             /\ Cardinality(First(R, S, n)) = n
             /\ \A q \in First(R, S, n) : <<q, r>> \in R
  <1> DEFINE F == First(R, S, n)
  <1>1. F \subseteq S /\ IsFiniteSet(F)
    BY FS_Subset DEF First
  <1>2. \A r \in S : Before(R, S, r) \in SUBSET S /\ IsFiniteSet(Before(R, S, r))
                     /\ Cardinality(Before(R, S, r)) \in Nat
    <2>1. \A r \in S : Before(R, S, r) \in SUBSET S
      BY DEF Before
    <2> QED
      BY <2>1, FS_Subset, FS_CardinalityType
  <1>3. ASSUME NEW q \in S, NEW r \in S, <<q, r>> \in R, r \in F PROVE q \in F
    <2>1. Before(R, S, q) \in SUBSET Before(R, S, r)
      BY <1>3 DEF Before, Orders
    <2>2. Cardinality(Before(R, S, q)) <= Cardinality(Before(R, S, r))
      BY <1>2, <2>1, FS_Subset
    <2> QED
      BY <1>2, <1>3, <2>2 DEF First
  <1>4. \A r \in S \ F : \A q \in F : <<q, r>> \in R
    BY <1>1, <1>3 DEF Orders
  <1>5. ASSUME NEW r \in S \ F PROVE Cardinality(F) = n
    <2>1. PICK s \in S \ F : \A q \in S \ F : <<q, s>> \notin R
      <3>1. IsFiniteSet(S \ F)
        BY FS_Difference
      <3>2. Orders(R, S \ F)
        BY DEF Orders
      <3> QED
        BY <1>5, <3>1, <3>2, OneIsFirst
    <2>2. Before(R, S, s) = F
      BY <1>1, <1>4, <2>1 DEF Before
    <2>3. Cardinality(F) >= n
      <3>1. s \in S /\ ~(Cardinality(Before(R, S, s)) < n)
        BY <2>1 DEF First
      <3> QED
        BY <1>2, <2>2, <3>1
    <2>4. CASE F = {}
      BY <2>3, <2>4, FS_EmptySet
    <2>5. CASE F # {}
      <3> DEFINE Q == {p \in F \X F : <<p[2], p[1]>> \in R}
      <3>1. Orders(Q, F)
        BY <1>1 DEF Orders
      <3>2. PICK last \in F : \A q \in F : <<q, last>> \notin Q
        BY <1>1, <2>5, <3>1, OneIsFirst
      <3>3. F \subseteq Before(R, S, last) \cup {last}
        BY <1>1, <3>2 DEF Before, Orders
      <3>4. IsFiniteSet(Before(R, S, last)) /\ Cardinality(Before(R, S, last)) \in Nat
        BY <1>1, <1>2
      <3>5. /\ IsFiniteSet(Before(R, S, last) \cup {last})
            /\ Cardinality(Before(R, S, last) \cup {last}) <= Cardinality(Before(R, S, last)) + 1
        <4>1. /\ IsFiniteSet(Before(R, S, last) \cup {last})
              /\ Cardinality(Before(R, S, last) \cup {last}) =
                     IF last \in Before(R, S, last) THEN Cardinality(Before(R, S, last))
                     ELSE Cardinality(Before(R, S, last)) + 1
          BY <3>4, FS_AddElement, Zenon
        <4> QED
          BY <3>4, <4>1
      <3>6. Cardinality(F) <= Cardinality(Before(R, S, last) \cup {last})
        BY <3>3, <3>5, FS_Subset
      <3>7. Cardinality(Before(R, S, last)) < n
        BY DEF First
      <3>8. Cardinality(F) \in Nat /\ Cardinality(Before(R, S, last) \cup {last}) \in Nat
        BY <1>1, <3>5, FS_CardinalityType
      <3> QED
        BY <2>3, <3>4, <3>5, <3>6, <3>7, <3>8
    <2> QED
      BY <2>4, <2>5
  <1> QED
    BY <1>4, <1>5

\* one that is not among the first n is not when the order is longer before it
LEMMA FirstGrows ==
  ASSUME NEW S, IsFiniteSet(S), NEW B \in SUBSET S, NEW n \in Nat, ~(Cardinality(B) < n),
         NEW C \in SUBSET S, B \subseteq C
  PROVE  ~(Cardinality(C) < n)
  <1>1. IsFiniteSet(B) /\ IsFiniteSet(C)
    BY FS_Subset
  <1>2. Cardinality(B) <= Cardinality(C)
    BY <1>1, FS_Subset
  <1> QED
    BY <1>1, <1>2, FS_CardinalityType
(***************************************************************************)
(* The same of the rows as the exchange orders them.                       *)
(***************************************************************************)
Timed == time \in [Records -> Time] /\ IsFiniteSet(Records) /\ Records \subseteq Nat

LEMMA OldestPage ==
  ASSUME Timed, NEW V \in SUBSET Records, NEW n \in Nat
  PROVE  /\ Oldest(n, V) \in SUBSET V
         /\ \A r \in V \ Oldest(n, V) :
                /\ Cardinality(Oldest(n, V)) = n
                /\ \A q \in Oldest(n, V) : Precedes(q, r)
  <1> DEFINE R == {p \in V \X V : Precedes(p[1], p[2])}
  <1>1. IsFiniteSet(V)
    BY FS_Subset DEF Timed
  <1>2. \A q, r \in V : <<q, r>> \in R <=> Precedes(q, r)
    OBVIOUS
  <1> HIDE DEF R
  <1>3. \A q, r \in V : q \in Nat /\ r \in Nat /\ time[q] \in Nat /\ time[r] \in Nat
    BY DEF Timed, Time
  <1>4. Orders(R, V)
    BY <1>2, <1>3 DEF Orders, Precedes
  <1>5. \A r \in V : Before(R, V, r) = {q \in V : Precedes(q, r)}
    BY <1>2 DEF Before
  <1>6. First(R, V, n) = Oldest(n, V)
    BY <1>5 DEF First, Oldest
  <1>7. Oldest(n, V) \in SUBSET V
    BY DEF Oldest
  <1>8. \A r \in V \ First(R, V, n) :
             /\ Cardinality(First(R, V, n)) = n
             /\ \A q \in First(R, V, n) : <<q, r>> \in R
    BY <1>1, <1>4, FirstCount
  <1>9. ASSUME NEW r \in V \ Oldest(n, V), NEW q \in Oldest(n, V) PROVE Precedes(q, r)
    BY <1>2, <1>6, <1>7, <1>8, <1>9
  <1> QED
    BY <1>6, <1>7, <1>8, <1>9

LEMMA NewestPage ==
  ASSUME Timed, NEW V \in SUBSET Records, NEW n \in Nat
  PROVE  /\ Newest(n, V) \in SUBSET V
         /\ \A r \in V \ Newest(n, V) :
                /\ Cardinality(Newest(n, V)) = n
                /\ \A q \in Newest(n, V) : Precedes(r, q)
  <1> DEFINE R == {p \in V \X V : Precedes(p[2], p[1])}
  <1>1. IsFiniteSet(V)
    BY FS_Subset DEF Timed
  <1>2. \A q, r \in V : <<q, r>> \in R <=> Precedes(r, q)
    OBVIOUS
  <1> HIDE DEF R
  <1>3. \A q, r \in V : q \in Nat /\ r \in Nat /\ time[q] \in Nat /\ time[r] \in Nat
    BY DEF Timed, Time
  <1>4. Orders(R, V)
    BY <1>2, <1>3 DEF Orders, Precedes
  <1>5. \A r \in V : Before(R, V, r) = {q \in V : Precedes(r, q)}
    BY <1>2 DEF Before
  <1>6. First(R, V, n) = Newest(n, V)
    BY <1>5 DEF First, Newest
  <1>7. Newest(n, V) \in SUBSET V
    BY DEF Newest
  <1>8. \A r \in V \ First(R, V, n) :
             /\ Cardinality(First(R, V, n)) = n
             /\ \A q \in First(R, V, n) : <<q, r>> \in R
    BY <1>1, <1>4, FirstCount
  <1>9. ASSUME NEW r \in V \ Newest(n, V), NEW q \in Newest(n, V) PROVE Precedes(r, q)
    BY <1>2, <1>6, <1>7, <1>8, <1>9
  <1> QED
    BY <1>6, <1>7, <1>8, <1>9

LEMMA Ranks ==
  ASSUME Timed, NEW V \in SUBSET Records, NEW r \in V
  PROVE  /\ Cardinality({q \in V : Precedes(q, r)}) \in Nat
         /\ Cardinality({q \in V : Precedes(r, q)}) \in Nat
  <1>1. IsFiniteSet(V)
    BY FS_Subset DEF Timed
  <1>2. {q \in V : Precedes(q, r)} \in SUBSET V /\ {q \in V : Precedes(r, q)} \in SUBSET V
    OBVIOUS
  <1>3. IsFiniteSet({q \in V : Precedes(q, r)}) /\ IsFiniteSet({q \in V : Precedes(r, q)})
    BY <1>1, <1>2, FS_Subset
  <1> QED
    BY <1>3, FS_CardinalityType

\* a page is what n more rows add to the first m
LEMMA PageSize ==
  ASSUME NEW A, NEW B, A \subseteq B, IsFiniteSet(B), NEW m \in Nat, NEW n \in Nat,
         Cardinality(A) = m, Cardinality(B) = m + n
  PROVE  Cardinality(B \ A) = n
  <1>1. B \cap A = A
    OBVIOUS
  <1>2. Cardinality(B \ A) = Cardinality(B) - Cardinality(B \cap A)
    BY FS_Difference
  <1> QED
    BY <1>1, <1>2

LEMMA OldestNumbered ==
  ASSUME Timed, NEW V \in SUBSET Records, NEW p \in Nat, NEW n \in Nat,
         NEW r \in V, r \notin Oldest(p * n, V), r \notin Oldest((p + 1) * n, V)
  PROVE  Cardinality(Oldest((p + 1) * n, V) \ Oldest(p * n, V)) = n
  <1>1. p * n \in Nat /\ (p + 1) * n \in Nat /\ (p + 1) * n = p * n + n
    OBVIOUS
  <1>2. Cardinality(Oldest(p * n, V)) = p * n
    BY <1>1, OldestPage
  <1>3. Cardinality(Oldest((p + 1) * n, V)) = p * n + n
    BY <1>1, OldestPage
  <1>4. Oldest(p * n, V) \subseteq Oldest((p + 1) * n, V)
    <2>1. \A q \in V : Cardinality({x \in V : Precedes(x, q)}) \in Nat
      BY Ranks
    <2> QED
      BY <1>1, <2>1 DEF Oldest
  <1>5. IsFiniteSet(Oldest((p + 1) * n, V))
    <2>1. Oldest((p + 1) * n, V) \in SUBSET Records
      BY DEF Oldest
    <2> QED
      BY <2>1, FS_Subset DEF Timed
  <1> QED
    BY <1>1, <1>2, <1>3, <1>4, <1>5, PageSize

LEMMA NewestNumbered ==
  ASSUME Timed, NEW V \in SUBSET Records, NEW p \in Nat, NEW n \in Nat,
         NEW r \in V, r \notin Newest(p * n, V), r \notin Newest((p + 1) * n, V)
  PROVE  Cardinality(Newest((p + 1) * n, V) \ Newest(p * n, V)) = n
  <1>1. p * n \in Nat /\ (p + 1) * n \in Nat /\ (p + 1) * n = p * n + n
    OBVIOUS
  <1>2. Cardinality(Newest(p * n, V)) = p * n
    BY <1>1, NewestPage
  <1>3. Cardinality(Newest((p + 1) * n, V)) = p * n + n
    BY <1>1, NewestPage
  <1>4. Newest(p * n, V) \subseteq Newest((p + 1) * n, V)
    <2>1. \A q \in V : Cardinality({x \in V : Precedes(q, x)}) \in Nat
      BY Ranks
    <2> QED
      BY <1>1, <2>1 DEF Newest
  <1>5. IsFiniteSet(Newest((p + 1) * n, V))
    <2>1. Newest((p + 1) * n, V) \in SUBSET Records
      BY DEF Newest
    <2> QED
      BY <2>1, FS_Subset DEF Timed
  <1> QED
    BY <1>1, <1>2, <1>3, <1>4, <1>5, PageSize

\* Max and Min are of their set and bound it
LEMMA Extremes ==
  ASSUME NEW S \in SUBSET Nat, IsFiniteSet(S), S # {}
  PROVE  /\ Max(S) \in S /\ \A x \in S : x <= Max(S)
         /\ Min(S) \in S /\ \A x \in S : Min(S) <= x
  <1> DEFINE Less == {p \in S \X S : p[1] < p[2]}
             More == {p \in S \X S : p[1] > p[2]}
  <1>1. \A x, y \in S : (<<x, y>> \in Less <=> x < y) /\ (<<x, y>> \in More <=> x > y)
    OBVIOUS
  <1> HIDE DEF Less, More
  <1>2. Orders(Less, S) /\ Orders(More, S)
    BY <1>1 DEF Orders
  <1>3. \E x \in S : \A y \in S : x <= y
    <2>1. PICK x \in S : \A y \in S : <<y, x>> \notin Less
      BY <1>2, OneIsFirst
    <2>2. \A y \in S : ~(y < x)
      BY <1>1, <2>1, Zenon
    <2> QED
      BY <2>2
  <1>4. \E x \in S : \A y \in S : x >= y
    <2>1. PICK x \in S : \A y \in S : <<y, x>> \notin More
      BY <1>2, OneIsFirst
    <2>2. \A y \in S : ~(y > x)
      BY <1>1, <2>1, Zenon
    <2> QED
      BY <2>2
  <1>5. Max(S) \in S /\ \A y \in S : Max(S) >= y
    BY <1>4 DEF Max
  <1>6. Min(S) \in S /\ \A y \in S : Min(S) <= y
    BY <1>3 DEF Min
  <1> QED
    BY <1>5, <1>6

(***************************************************************************)
(* Parts of a window.                                                      *)
(***************************************************************************)
LEMMA Division ==
  ASSUME NEW d \in Nat \ {0}, NEW x \in Nat
  PROVE  x \div d \in Nat /\ d * (x \div d) <= x /\ x < d * (x \div d) + d
  OBVIOUS

LEMMA Multiples ==
  ASSUME NEW d \in Nat \ {0}, NEW j \in Nat, NEW k \in Nat, j < k
  PROVE  d * j + d <= d * k
  <1>1. PICK m \in Nat : k = j + 1 + m
    <2>1. k - j - 1 \in Nat /\ k = j + 1 + (k - j - 1)
      OBVIOUS
    <2> QED
      BY <2>1
  <1>2. d * k = d * j + d + d * m /\ d * m >= 0 /\ d * j \in Nat /\ d * k \in Nat
    BY <1>1
  <1> QED
    BY <1>2

LEMMA InPart ==
  ASSUME NEW d \in Nat \ {0}, NEW k \in Nat, NEW x \in Nat
  PROVE  x \div d = k <=> d * k <= x /\ x < d * k + d
  <1> DEFINE j == x \div d
  <1>1. j \in Nat /\ d * j <= x /\ x < d * j + d /\ d * j \in Nat /\ d * k \in Nat
    BY Division
  <1>2. CASE j = k
    BY <1>1, <1>2
  <1>3. CASE j < k
    <2>1. d * j + d <= d * k
      BY <1>1, <1>3, Multiples
    <2> QED
      BY <1>1, <1>3, <2>1
  <1>4. CASE k < j
    <2>1. d * k + d <= d * j
      BY <1>1, <1>4, Multiples
    <2> QED
      BY <1>1, <1>4, <2>1
  <1> QED
    BY <1>1, <1>2, <1>3, <1>4
(***************************************************************************)
(* What holds while pages are read. A record of the window that is not     *)
(* returned yet is in front of the call (Ahead), behind every row read of  *)
(* its part, or it is explained by a part whose pages ran out.             *)
(***************************************************************************)
Left(r) == r \in atStart /\ time[r] \in from .. to /\ r \notin Returned /\ OfProduct(r)

SameTime(r) == endpoint \in ByTime /\ \E row \in read : row.time = time[r]

Explained(r) ==
    \/ SameTime(r)
    \/ /\ \E first \in capped : PartOf(first) = PartOf(time[r])
       /\ \A row \in read : PartOf(row.time) = PartOf(time[r]) => Behind(r, row)

\* the pages from cursor c, or from number p, still hold r
Ahead(r, c, p) ==
    /\ OfProduct(r)
    /\ endpoint = "BINANCE_INCOME" => r \notin Oldest(p * Limit, InSlice)
    /\ endpoint = "BINANCE_TRADES" => r >= c
    /\ endpoint \in {"OKX_BILLS", "BITGET_BILLS", "BYBIT_LOG"} => c = 0 \/ r < c
    /\ endpoint = "OKX_POSITIONS" => c = 0 \/ time[r] < c
    /\ endpoint = "HYPERLIQUID_FILLS" => time[r] >= c
    /\ endpoint = "POLYMARKET_CLOSED" => r \notin Newest(p * Limit, visible)

WindowInv ==
    /\ \A r \in Records : Plausible(content[r])
    /\ endpoint \notin Cumulative => Numbered
    /\ pc \in {"paging", "done"} =>
           /\ from \in Time /\ to \in Time /\ slice \in from .. to
           /\ endpoint \notin Sliced => slice = from
           /\ endpoint \in Sliced =>
                  slice - from = SliceLength * ((slice - from) \div SliceLength)
           /\ \A row \in read : row.time <= SliceEnd(slice)
    /\ pc = "paging" /\ endpoint = "BINANCE_TRADES" /\ pages # 0 =>
           cursor - 1 \in Records /\ time[cursor - 1] >= slice

PagesInv ==
    pc = "paging" =>
        \A r \in Records : Left(r) =>
            /\ time[r] < slice => Explained(r)
            /\ time[r] \in slice .. SliceEnd(slice) =>
                   \/ SameTime(r)
                   \/ /\ Ahead(r, cursor, pages)
                      /\ \A row \in read : row.time >= slice => Behind(r, row)

\* of a page: what is kept is of the part, and a record in front of the call
\* that is not kept is behind it, and a reason to go on
GoodPage(kept, more, next) ==
    /\ more \in BOOLEAN /\ next \in Nat
    /\ \A k \in kept : k \in visible /\ time[k] \in slice .. SliceEnd(slice)
    /\ endpoint = "BINANCE_TRADES" /\ more => next - 1 \in Records /\ time[next - 1] >= slice
    /\ \A r \in visible :
           time[r] \in slice .. SliceEnd(slice) /\ Ahead(r, cursor, pages) /\ r \notin kept =>
               \/ endpoint \in ByTime /\ \E k \in kept : time[k] = time[r]
               \/ /\ more
                  /\ Ahead(r, next, pages + 1)
                  /\ \A k \in kept : Behind(r, [id |-> k, time |-> time[k]])

LEMMA Given ==
  ASSUME TypeOK
  PROVE  /\ Timed
         /\ visible \in SUBSET Records /\ InSlice \in SUBSET visible
         /\ pages \in Nat /\ cursor \in Nat /\ Limit \in Nat \ {0} /\ SliceLength \in Nat \ {0}
         /\ MaxPages \in Nat \ {0}
         /\ \A r \in Records : r \in Nat \ {0} /\ time[r] \in Nat
  BY PageConstants DEF TypeOK, Timed, InSlice, Time

LEMMA IncomePage ==
  ASSUME TypeOK, WindowInv, pc = "paging", endpoint = "BINANCE_INCOME"
  PROVE  LET page == Oldest((pages + 1) * Limit, InSlice) \ Oldest(pages * Limit, InSlice)
         IN  GoodPage(page, Full(page), 0)
  <1> DEFINE page == Oldest((pages + 1) * Limit, InSlice) \ Oldest(pages * Limit, InSlice)
  <1>1. InSlice \in SUBSET Records /\ (pages + 1) * Limit \in Nat
    BY Given
  <1>2. page \in SUBSET InSlice
    BY DEF Oldest
  <1>3. ASSUME NEW r \in visible, time[r] \in slice .. SliceEnd(slice),
               Ahead(r, cursor, pages), r \notin page
        PROVE  /\ Full(page)
               /\ Ahead(r, 0, pages + 1)
               /\ \A k \in page : Behind(r, [id |-> k, time |-> time[k]])
    <2>1. r \in InSlice /\ r \notin Oldest(pages * Limit, InSlice)
      BY <1>3 DEF InSlice, Ahead
    <2>2. r \notin Oldest((pages + 1) * Limit, InSlice)
      BY <1>3, <2>1
    <2>3. Full(page)
      BY <1>1, <2>1, <2>2, Given, OldestNumbered DEF Full
    <2>4. \A k \in Oldest((pages + 1) * Limit, InSlice) : Precedes(k, r)
      BY <1>1, <2>1, <2>2, Given, OldestPage
    <2>5. \A k \in page : Behind(r, [id |-> k, time |-> time[k]])
      BY <2>4 DEF Precedes, Behind
    <2> QED
      BY <1>3, <2>2, <2>3, <2>5 DEF Ahead
  <1>4. \A k \in page : k \in visible /\ time[k] \in slice .. SliceEnd(slice)
    BY <1>2 DEF InSlice
  <1>5. Full(page) \in BOOLEAN
    BY DEF Full
  <1> HIDE DEF page
  <1>6. GoodPage(page, Full(page), 0)
    BY <1>3, <1>4, <1>5 DEF GoodPage
  <1> QED
    BY <1>6 DEF page

LEMMA NumberedRows ==
  ASSUME TypeOK, WindowInv, pc = "paging", endpoint \in {"OKX_BILLS", "BITGET_BILLS", "BYBIT_LOG"}
  PROVE  GoodPage(NumberedPage, Full(NumberedPage),
                  IF NumberedPage = {} THEN 0 ELSE Min(NumberedPage))
  <1> DEFINE rows == {r \in InSlice : OfProduct(r) /\ (cursor = 0 \/ r < cursor)}
             page == NumberedPage
             next == IF page = {} THEN 0 ELSE Min(page)
  <1>1. rows \in SUBSET Records /\ rows \subseteq InSlice
    BY Given
  <1>2. page = Newest(Limit, rows)
    BY DEF NumberedPage
  <1> HIDE DEF page, rows
  <1>3. page \in SUBSET rows /\ page \in SUBSET Records
    BY <1>1, <1>2, Given, NewestPage
  <1>4. page \in SUBSET Nat /\ IsFiniteSet(page)
    BY <1>3, Given, FS_Subset DEF Timed
  <1>5. page # {} => Min(page) \in page /\ \A k \in page : Min(page) <= k
    BY <1>4, Extremes
  <1>6. next \in Nat
    BY <1>4, <1>5
  <1>7. ASSUME NEW r \in visible, time[r] \in slice .. SliceEnd(slice),
               Ahead(r, cursor, pages), r \notin page
        PROVE  /\ Full(page)
               /\ Ahead(r, next, pages + 1)
               /\ \A k \in page : Behind(r, [id |-> k, time |-> time[k]])
    <2>1. r \in rows
      BY <1>7 DEF rows, Ahead, InSlice
    <2>2. Cardinality(page) = Limit /\ \A k \in page : Precedes(r, k)
      BY <1>1, <1>2, <1>7, <2>1, Given, NewestPage
    <2>3. \A k \in page : r < k
      <3> SUFFICES ASSUME NEW k \in page PROVE r < k
        OBVIOUS
      <3>1. Numbered
        BY DEF WindowInv, Cumulative
      <3>2. r \in Records /\ k \in Records /\ r \in Nat /\ k \in Nat /\ time[r] \in Nat /\ time[k] \in Nat
        BY <1>1, <1>3, <2>1, Given
      <3> QED
        BY <2>2, <3>1, <3>2 DEF Precedes, Numbered
    <2>4. next = 0 \/ r < next
      BY <1>5, <2>3
    <2>5. \A k \in page : Behind(r, [id |-> k, time |-> time[k]])
      BY <2>2 DEF Precedes, Behind
    <2> QED
      BY <1>7, <2>2, <2>4, <2>5 DEF Ahead, Full
  <1>8. \A k \in page : k \in visible /\ time[k] \in slice .. SliceEnd(slice)
    BY <1>1, <1>3 DEF InSlice
  <1>9. Full(page) \in BOOLEAN
    BY DEF Full
  <1> HIDE DEF next
  <1>10. GoodPage(page, Full(page), next)
    BY <1>6, <1>7, <1>8, <1>9 DEF GoodPage
  <1> QED
    BY <1>10 DEF page, next
\* the end of a part
LEMMA PartEndOf ==
  ASSUME NEW first \in Nat \ {0}, to \in Nat, first <= to
  PROVE  /\ SliceEnd(first) \in Nat /\ first <= SliceEnd(first) /\ SliceEnd(first) <= to
         /\ endpoint \notin Sliced => SliceEnd(first) = to
         /\ endpoint \in Sliced =>
                /\ SliceEnd(first) <= first + SliceLength - 1
                /\ SliceEnd(first) = to \/ SliceEnd(first) = first + SliceLength - 1
  <1>1. SliceLength \in Nat \ {0}
    BY PageConstants
  <1>2. CASE endpoint \notin Sliced
    BY <1>2 DEF SliceEnd
  <1>3. CASE endpoint \in Sliced
    <2> DEFINE last == first + SliceLength - 1
               E == {to, last}
    <2>1. last \in Nat /\ last >= first
      BY <1>1
    <2> HIDE DEF last
    <2>2. E \in SUBSET Nat /\ E # {} /\ IsFiniteSet(E)
      <3>1. IsFiniteSet({to} \cup {last}) /\ E = {to} \cup {last}
        BY FS_Singleton, FS_AddElement
      <3> QED
        BY <2>1, <3>1
    <2>3. Min(E) \in E /\ Min(E) <= to /\ Min(E) <= last
      <3>1. to \in E /\ last \in E
        OBVIOUS
      <3> HIDE DEF E
      <3> QED
        BY <2>2, <3>1, Extremes
    <2>4. SliceEnd(first) = Min(E)
      BY <1>3 DEF SliceEnd, last
    <2> HIDE DEF E
    <2>5. SliceEnd(first) \in {to, last} /\ SliceEnd(first) <= to /\ SliceEnd(first) <= last
      BY <2>3, <2>4 DEF E
    <2> QED
      BY <1>3, <2>1, <2>5 DEF last
  <1> QED
    BY <1>2, <1>3

LEMMA PartEnd ==
  ASSUME WindowInv, pc \in {"paging", "done"}
  PROVE  /\ from \in Nat \ {0} /\ to \in Nat /\ slice \in Nat \ {0}
         /\ from <= slice /\ slice <= to
         /\ SliceEnd(slice) \in Nat /\ slice <= SliceEnd(slice) /\ SliceEnd(slice) <= to
         /\ endpoint \notin Sliced => SliceEnd(slice) = to
         /\ endpoint \in Sliced =>
                /\ SliceEnd(slice) <= slice + SliceLength - 1
                /\ SliceEnd(slice) = to \/ SliceEnd(slice) = slice + SliceLength - 1
  <1>1. from \in Nat \ {0} /\ to \in Nat /\ slice \in Nat \ {0} /\ from <= slice /\ slice <= to
    BY PageConstants DEF WindowInv, Time
  <1> QED
    BY <1>1, PartEndOf

LEMMA TradesPage ==
  ASSUME TypeOK, WindowInv, pc = "paging", endpoint = "BINANCE_TRADES"
  PROVE  LET page == IF pages = 0 THEN Oldest(Limit, InSlice)
                     ELSE Oldest(Limit, {r \in visible : r >= cursor})
             kept == page \cap InSlice
         IN  GoodPage(kept, Full(page) /\ kept = page, IF page = {} THEN 0 ELSE Max(page) + 1)
  <1> DEFINE rows == IF pages = 0 THEN InSlice ELSE {r \in visible : r >= cursor}
             page == IF pages = 0 THEN Oldest(Limit, InSlice)
                     ELSE Oldest(Limit, {r \in visible : r >= cursor})
             kept == page \cap InSlice
             next == IF page = {} THEN 0 ELSE Max(page) + 1
  <1>1. rows \in SUBSET Records /\ rows \subseteq visible
    BY Given
  <1>2. page = Oldest(Limit, rows)
    OBVIOUS
  <1>3. (pages = 0 => rows = InSlice) /\ (pages # 0 => rows = {r \in visible : r >= cursor})
    OBVIOUS
  <1> HIDE DEF page, rows
  <1>4. page \in SUBSET rows /\ page \in SUBSET Records
    BY <1>1, <1>2, Given, OldestPage
  <1>5. page \in SUBSET Nat /\ IsFiniteSet(page)
    BY <1>4, Given, FS_Subset DEF Timed
  <1>6. page # {} => Max(page) \in page /\ \A k \in page : k <= Max(page)
    BY <1>5, Extremes
  <1>7. page # {} => Max(page) \in Nat
    BY <1>5, <1>6
  <1>8. IF page = {} THEN next = 0 ELSE next = Max(page) + 1
    OBVIOUS
  <1> HIDE DEF next
  <1>9. next \in Nat
    BY <1>7, <1>8
  <1>10. ASSUME NEW r \in visible, time[r] \in slice .. SliceEnd(slice),
               Ahead(r, cursor, pages), r \notin kept
        PROVE  /\ Full(page) /\ kept = page
               /\ Ahead(r, next, pages + 1)
               /\ \A k \in kept : Behind(r, [id |-> k, time |-> time[k]])
    <2>1. r \in InSlice /\ r \in rows /\ r \notin page
      BY <1>10, <1>3 DEF Ahead, InSlice
    <2>2. Cardinality(page) = Limit /\ \A k \in page : Precedes(k, r)
      BY <1>1, <1>2, <2>1, Given, OldestPage
    <2>3. Numbered
      BY DEF WindowInv, Cumulative
    <2>4. \A k \in page : k < r /\ time[k] <= time[r]
      <3> SUFFICES ASSUME NEW k \in page PROVE k < r /\ time[k] <= time[r]
        OBVIOUS
      <3>1. r \in Records /\ k \in Records /\ r \in Nat /\ k \in Nat /\ time[r] \in Nat /\ time[k] \in Nat
        BY <1>1, <1>4, <2>1, Given
      <3> QED
        BY <2>2, <2>3, <3>1 DEF Precedes, Numbered
    <2>5. page \subseteq InSlice
      <3>1. CASE pages = 0
        BY <1>4, <1>3, <3>1
      <3>2. CASE pages # 0
        <4> SUFFICES ASSUME NEW k \in page PROVE time[k] \in slice .. SliceEnd(slice)
          BY <1>1, <1>4 DEF InSlice
        <4>1. cursor - 1 \in Records /\ time[cursor - 1] >= slice
          BY <3>2 DEF WindowInv
        <4>2. k >= cursor
          BY <1>4, <1>3, <3>2
        <4>3. /\ k \in Records /\ k \in Nat /\ time[k] \in Nat /\ cursor \in Nat
              /\ time[r] \in Nat /\ time[cursor - 1] \in Nat
          BY <1>1, <1>4, <2>1, <4>1, Given
        <4>4. time[cursor - 1] <= time[k]
          BY <2>3, <4>1, <4>2, <4>3 DEF Numbered
        <4>5. slice \in Nat /\ SliceEnd(slice) \in Nat
          BY PartEnd
        <4> QED
          BY <1>10, <2>4, <4>1, <4>3, <4>4, <4>5
      <3> QED
        BY <3>1, <3>2
    <2>6. kept = page
      BY <2>5
    <2>7. r >= next
      <3>1. r \in Nat
        BY Given
      <3> QED
        BY <1>6, <1>7, <1>8, <2>4, <3>1
    <2>8. \A k \in kept : Behind(r, [id |-> k, time |-> time[k]])
      BY <2>2 DEF Precedes, Behind
    <2> QED
      BY <1>10, <2>2, <2>6, <2>7, <2>8 DEF Ahead, Full
  <1>11. \A k \in kept : k \in visible /\ time[k] \in slice .. SliceEnd(slice)
    BY <1>1, <1>4 DEF InSlice
  <1>12. (Full(page) /\ kept = page) \in BOOLEAN
    BY DEF Full
  <1>13. Full(page) /\ kept = page => next - 1 \in Records /\ time[next - 1] >= slice
    <2> SUFFICES ASSUME Full(page), kept = page PROVE next - 1 \in Records /\ time[next - 1] >= slice
      OBVIOUS
    <2>1. page # {}
      BY Given, FS_EmptySet DEF Full
    <2>2. next - 1 = Max(page) /\ Max(page) \in page /\ Max(page) \in Nat
      BY <1>6, <1>7, <1>8, <2>1
    <2> QED
      BY <1>4, <1>11, <2>2
  <1> HIDE DEF next, kept
  <1>14. GoodPage(kept, Full(page) /\ kept = page, next)
    BY <1>9, <1>10, <1>11, <1>12, <1>13 DEF GoodPage
  <1> QED
    BY <1>14 DEF page, kept, next

LEMMA WholeWindow ==
  ASSUME WindowInv, pc = "paging", endpoint \notin Sliced
  PROVE  slice = from /\ SliceEnd(slice) = to /\ from \in Nat \ {0} /\ to \in Nat
  BY PageConstants DEF WindowInv, SliceEnd, Time

LEMMA Times ==
  ASSUME TypeOK, NEW page \in SUBSET Records
  PROVE  /\ {time[r] : r \in page} \in SUBSET Nat
         /\ IsFiniteSet({time[r] : r \in page})
  <1>1. IsFiniteSet(page)
    BY Given, FS_Subset DEF Timed
  <1> DEFINE f == [r \in page |-> time[r]]
             T == {time[r] : r \in page}
  <1>2. f \in Surjection(page, T)
    BY DEF Surjection
  <1>3. IsFiniteSet(T)
    BY <1>1, <1>2, FS_Surjection, Zenon
  <1>4. T \in SUBSET Nat
    BY Given
  <1> QED
    BY <1>3, <1>4

LEMMA PositionsPage ==
  ASSUME TypeOK, WindowInv, pc = "paging", endpoint = "OKX_POSITIONS"
  PROVE  LET page == Newest(Limit, {r \in visible : cursor = 0 \/ time[r] < cursor})
             oldest == Min({time[r] : r \in page})
         IN  GoodPage({r \in page : time[r] \in from .. to},
                      Full(page) /\ oldest >= from, IF page = {} THEN 0 ELSE oldest)
  <1> DEFINE rows == {r \in visible : cursor = 0 \/ time[r] < cursor}
             page == Newest(Limit, rows)
             oldest == Min({time[r] : r \in page})
             kept == {r \in page : time[r] \in from .. to}
             next == IF page = {} THEN 0 ELSE oldest
  <1>1. rows \in SUBSET Records /\ rows \subseteq visible
    BY Given
  <1>2. slice = from /\ SliceEnd(slice) = to /\ from \in Nat \ {0} /\ to \in Nat
    BY WholeWindow DEF Sliced
  <1>3. page \in SUBSET rows /\ page \in SUBSET Records
    BY <1>1, Given, NewestPage
  <1>4. page # {} => oldest \in {time[r] : r \in page} /\ \A k \in page : oldest <= time[k]
    <2> HIDE DEF page
    <2>1. page # {} => {time[r] : r \in page} # {}
      OBVIOUS
    <2>2. {time[r] : r \in page} \in SUBSET Nat /\ IsFiniteSet({time[r] : r \in page})
      BY <1>3, Times
    <2> DEFINE T == {time[r] : r \in page}
    <2>3. T # {} => Min(T) \in T /\ \A x \in T : Min(T) <= x
      <3> HIDE DEF T
      <3> QED
        BY <2>2, Extremes DEF T
    <2> QED
      BY <2>1, <2>3
  <1>5. oldest \in Nat \/ page = {}
    BY <1>3, <1>4, Given
  <1>6. next \in Nat
    BY <1>5
  <1>7. ASSUME NEW r \in visible, time[r] \in slice .. SliceEnd(slice),
               Ahead(r, cursor, pages), r \notin kept, ~ \E k \in kept : time[k] = time[r]
        PROVE  /\ Full(page) /\ oldest >= from
               /\ Ahead(r, next, pages + 1)
               /\ \A k \in kept : Behind(r, [id |-> k, time |-> time[k]])
    <2>1. r \in rows /\ r \notin page /\ time[r] \in from .. to
      BY <1>2, <1>7 DEF Ahead
    <2>2. Cardinality(page) = Limit /\ \A k \in page : Precedes(r, k)
      <3> HIDE DEF rows
      <3> QED
        BY <1>1, <2>1, Given, NewestPage
    <2> HIDE DEF page
    <2>3. page # {}
      BY <2>2, Given, FS_EmptySet
    <2>4. PICK k \in page : oldest = time[k]
      BY <1>4, <2>3
    <2>5. /\ time[k] \in Nat /\ time[r] \in Nat
          /\ time[r] <= time[k]
      BY <1>1, <1>3, <2>1, <2>2, <2>4, Given DEF Precedes
    <2>6. time[k] # time[r]
      BY <1>7, <2>1
    <2>7. time[r] < oldest /\ oldest >= from
      BY <1>2, <2>1, <2>4, <2>5, <2>6
    <2>8. \A x \in kept : Behind(r, [id |-> x, time |-> time[x]])
      BY <2>2 DEF Precedes, Behind
    <2> QED
      BY <1>7, <2>2, <2>3, <2>7, <2>8 DEF Ahead, Full
  <1>8. \A k \in kept : k \in visible /\ time[k] \in slice .. SliceEnd(slice)
    BY <1>1, <1>2, <1>3
  <1>9. (Full(page) /\ oldest >= from) \in BOOLEAN
    BY DEF Full
  <1>10. endpoint \in ByTime /\ endpoint # "BINANCE_TRADES"
    BY DEF ByTime
  <1> HIDE DEF next, kept, page, oldest
  <1>11. GoodPage(kept, Full(page) /\ oldest >= from, next)
    BY <1>6, <1>7, <1>8, <1>9, <1>10 DEF GoodPage
  <1> QED
    BY <1>11 DEF page, kept, next, oldest
LEMMA FillsPage ==
  ASSUME TypeOK, WindowInv, pc = "paging", endpoint = "HYPERLIQUID_FILLS"
  PROVE  LET page == Oldest(Limit, {r \in visible : time[r] \in Max({from, cursor}) .. to})
             latest == Max({time[r] : r \in page})
         IN  GoodPage(page, page # {} /\ latest < to, IF page = {} THEN 0 ELSE latest + 1)
  <1> DEFINE rows == {r \in visible : time[r] \in Max({from, cursor}) .. to}
             page == Oldest(Limit, rows)
             latest == Max({time[r] : r \in page})
             next == IF page = {} THEN 0 ELSE latest + 1
  <1>1. rows \in SUBSET Records /\ rows \subseteq visible
    BY Given
  <1>2. slice = from /\ SliceEnd(slice) = to /\ from \in Nat \ {0} /\ to \in Nat
    BY WholeWindow DEF Sliced
  <1>3. page \in SUBSET rows /\ page \in SUBSET Records
    BY <1>1, Given, OldestPage
  <1>4. Max({from, cursor}) \in {from, cursor} /\ Max({from, cursor}) >= from
        /\ Max({from, cursor}) >= cursor
    <2> DEFINE E == {from, cursor}
    <2>1. E \in SUBSET Nat /\ E # {} /\ IsFiniteSet(E)
      <3>1. IsFiniteSet({from} \cup {cursor}) /\ E = {from} \cup {cursor}
        BY FS_Singleton, FS_AddElement
      <3> QED
        BY <1>2, <3>1, Given
    <2>2. from \in E /\ cursor \in E
      OBVIOUS
    <2> HIDE DEF E
    <2>3. Max(E) \in E /\ \A x \in E : x <= Max(E)
      BY <2>1, <2>2, Extremes
    <2>4. Max(E) \in {from, cursor} /\ from <= Max(E) /\ cursor <= Max(E)
      BY <2>2, <2>3 DEF E
    <2> QED
      BY <1>2, <2>4, Given DEF E
  <1>5. page # {} => latest \in {time[r] : r \in page} /\ \A k \in page : time[k] <= latest
    <2> HIDE DEF page
    <2>1. page # {} => {time[r] : r \in page} # {}
      OBVIOUS
    <2>2. {time[r] : r \in page} \in SUBSET Nat /\ IsFiniteSet({time[r] : r \in page})
      BY <1>3, Times
    <2> DEFINE T == {time[r] : r \in page}
    <2>3. T # {} => Max(T) \in T /\ \A x \in T : x <= Max(T)
      <3> HIDE DEF T
      <3> QED
        BY <2>2, Extremes DEF T
    <2> QED
      BY <2>1, <2>3
  <1>6. page # {} => latest \in Nat
    BY <1>3, <1>5, Given
  <1>7. IF page = {} THEN next = 0 ELSE next = latest + 1
    OBVIOUS
  <1>8. next \in Nat
    <2> HIDE DEF next, page, latest
    <2> QED
      BY <1>6, <1>7
  <1>9. ASSUME NEW r \in visible, time[r] \in slice .. SliceEnd(slice),
               Ahead(r, cursor, pages), r \notin page, ~ \E k \in page : time[k] = time[r]
        PROVE  /\ page # {} /\ latest < to
               /\ Ahead(r, next, pages + 1)
               /\ \A k \in page : Behind(r, [id |-> k, time |-> time[k]])
    <2>1. time[r] >= cursor /\ time[r] \in from .. to /\ time[r] \in Nat
      BY <1>2, <1>9, Given DEF Ahead
    <2>2. r \in rows
      BY <1>2, <1>4, <2>1, Given
    <2>3. Cardinality(page) = Limit /\ \A k \in page : Precedes(k, r)
      <3> HIDE DEF rows
      <3> QED
        BY <1>1, <1>9, <2>2, Given, OldestPage
    <2> HIDE DEF page
    <2>4. page # {}
      BY <2>3, Given, FS_EmptySet
    <2>5. PICK k \in page : latest = time[k]
      BY <1>5, <2>4
    <2>6. time[k] \in Nat /\ time[k] <= time[r] /\ time[k] # time[r]
      BY <1>3, <1>9, <2>1, <2>3, <2>5, Given DEF Precedes
    <2> HIDE DEF latest, next
    <2>7. latest < to /\ time[r] >= next
      BY <1>2, <1>7, <2>1, <2>4, <2>5, <2>6
    <2>8. \A x \in page : Behind(r, [id |-> x, time |-> time[x]])
      BY <2>3 DEF Precedes, Behind
    <2> QED
      BY <1>9, <2>4, <2>7, <2>8 DEF Ahead
  <1>10. \A k \in page : k \in visible /\ time[k] \in slice .. SliceEnd(slice)
    <2> SUFFICES ASSUME NEW k \in page PROVE k \in visible /\ time[k] \in slice .. SliceEnd(slice)
      OBVIOUS
    <2>1. k \in rows
      BY <1>3
    <2>2. time[k] \in Max({from, cursor}) .. to /\ time[k] \in Nat
      BY <1>1, <2>1, Given
    <2> QED
      BY <1>1, <1>2, <1>4, <2>1, <2>2, Given
  <1>11. endpoint \in ByTime /\ endpoint # "BINANCE_TRADES"
    BY DEF ByTime
  <1> HIDE DEF next, page, latest
  <1>12. GoodPage(page, page # {} /\ latest < to, next)
    BY <1>8, <1>9, <1>10, <1>11 DEF GoodPage
  <1> QED
    BY <1>12 DEF page, next, latest

LEMMA ClosedPage ==
  ASSUME TypeOK, WindowInv, pc = "paging", endpoint = "POLYMARKET_CLOSED"
  PROVE  LET page == Newest((pages + 1) * Limit, visible) \ Newest(pages * Limit, visible)
         IN  GoodPage({r \in page : time[r] \in from .. to},
                      Full(page) /\ \A r \in page : time[r] >= from, 0)
  <1> DEFINE page == Newest((pages + 1) * Limit, visible) \ Newest(pages * Limit, visible)
             kept == {r \in page : time[r] \in from .. to}
  <1>1. (pages + 1) * Limit \in Nat
    BY Given
  <1>2. slice = from /\ SliceEnd(slice) = to /\ from \in Nat \ {0} /\ to \in Nat
    BY WholeWindow DEF Sliced
  <1>3. page \in SUBSET visible
    BY DEF Newest
  <1>4. ASSUME NEW r \in visible, time[r] \in slice .. SliceEnd(slice),
               Ahead(r, cursor, pages), r \notin kept
        PROVE  /\ Full(page) /\ \A k \in page : time[k] >= from
               /\ Ahead(r, 0, pages + 1)
               /\ \A k \in kept : Behind(r, [id |-> k, time |-> time[k]])
    <2>1. time[r] \in from .. to /\ time[r] \in Nat /\ r \notin page
          /\ r \notin Newest(pages * Limit, visible)
      BY <1>2, <1>4, Given DEF Ahead
    <2>2. r \notin Newest((pages + 1) * Limit, visible)
      BY <2>1
    <2>3. Full(page)
      BY <2>1, <2>2, Given, NewestNumbered DEF Full
    <2>4. \A k \in Newest((pages + 1) * Limit, visible) : Precedes(r, k)
      BY <1>1, <2>1, <2>2, Given, NewestPage
    <2>5. \A k \in page : time[k] >= from
      <3> SUFFICES ASSUME NEW k \in page PROVE time[k] >= from
        OBVIOUS
      <3>1. Precedes(r, k) /\ time[k] \in Nat
        BY <1>3, <2>4, Given
      <3> QED
        BY <1>2, <2>1, <3>1 DEF Precedes
    <2>6. \A k \in kept : Behind(r, [id |-> k, time |-> time[k]])
      BY <2>4 DEF Precedes, Behind
    <2> QED
      BY <1>4, <2>2, <2>3, <2>5, <2>6 DEF Ahead
  <1>5. \A k \in kept : k \in visible /\ time[k] \in slice .. SliceEnd(slice)
    BY <1>2, <1>3
  <1>6. (Full(page) /\ \A r \in page : time[r] >= from) \in BOOLEAN
    OBVIOUS
  <1> HIDE DEF page, kept
  <1>7. GoodPage(kept, Full(page) /\ \A r \in page : time[r] >= from, 0)
    BY <1>4, <1>5, <1>6 DEF GoodPage
  <1> QED
    BY <1>7 DEF page, kept
(***************************************************************************)
(* Taking a page.                                                          *)
(***************************************************************************)
Again(more) == more /\ pages + 1 < MaxPages

LEMMA TakeMoves ==
  ASSUME TypeOK, WindowInv, NEW kept, NEW more, NEW next, Take(kept, more, next)
  PROVE  /\ pc = "paging"
         /\ read' = read \cup {[id |-> r, time |-> time[r]] : r \in kept}
         /\ endpoint' = endpoint /\ from' = from /\ to' = to /\ atStart' = atStart
         /\ time' = time /\ content' = content /\ visible' = visible
         /\ Again(more) =>
                /\ pc' = "paging" /\ slice' = slice /\ SliceEnd(slice)' = SliceEnd(slice)
                /\ cursor' = next /\ pages' = pages + 1 /\ capped' = capped
         /\ ~Again(more) =>
                /\ cursor' = 0 /\ pages' = 0
                /\ capped' = IF more THEN capped \cup {slice} ELSE capped
         /\ ~Again(more) /\ LastSlice =>
                pc' = "done" /\ slice' = slice /\ SliceEnd(slice)' = SliceEnd(slice)
         /\ ~Again(more) /\ ~LastSlice =>
                /\ pc' = "paging" /\ endpoint \in Sliced
                /\ slice' = slice + SliceLength /\ SliceEnd(slice) = slice' - 1
                /\ slice' <= to
                /\ SliceEnd(slice)' \in Nat /\ SliceEnd(slice)' >= slice'
  <1>1. /\ pc = "paging"
        /\ read' = read \cup {[id |-> r, time |-> time[r]] : r \in kept}
        /\ endpoint' = endpoint /\ from' = from /\ to' = to /\ atStart' = atStart
        /\ time' = time /\ content' = content /\ visible' = visible
    BY DEF Take, exchangeVars, callVars
  <1>2. slice' = slice => SliceEnd(slice)' = SliceEnd(slice)
    BY <1>1 DEF SliceEnd
  <1>3. ASSUME Again(more)
        PROVE  /\ pc' = "paging" /\ slice' = slice
               /\ cursor' = next /\ pages' = pages + 1 /\ capped' = capped
    BY <1>3 DEF Take, Again
  <1>4. ASSUME ~Again(more)
        PROVE  /\ cursor' = 0 /\ pages' = 0
               /\ capped' = IF more THEN capped \cup {slice} ELSE capped
               /\ LastSlice => pc' = "done" /\ slice' = slice
               /\ ~LastSlice => pc' = "paging" /\ slice' = SliceEnd(slice) + 1
    BY <1>4 DEF Take, Again
  <1>5. ASSUME ~Again(more), ~LastSlice
        PROVE  /\ endpoint \in Sliced
               /\ slice' = slice + SliceLength /\ SliceEnd(slice) = slice' - 1
               /\ slice' <= to
               /\ SliceEnd(slice)' \in Nat /\ SliceEnd(slice)' >= slice'
    <2>1. /\ slice \in Nat \ {0} /\ to \in Nat /\ SliceEnd(slice) \in Nat /\ SliceLength \in Nat \ {0}
          /\ endpoint \notin Sliced => SliceEnd(slice) = to
          /\ endpoint \in Sliced => SliceEnd(slice) = to \/ SliceEnd(slice) = slice + SliceLength - 1
          /\ SliceEnd(slice) >= slice
      BY <1>1, PartEnd, Given
    <2>2. SliceEnd(slice) + 1 <= to
      BY <1>5, <2>1 DEF LastSlice
    <2>3. endpoint \in Sliced /\ SliceEnd(slice) = slice + SliceLength - 1
      BY <2>1, <2>2
    <2>4. slice' = SliceEnd(slice) + 1
      BY <1>4, <1>5
    <2>5. slice' \in Nat \ {0} /\ slice' <= to
      BY <2>1, <2>2, <2>4
    <2>6. SliceEnd(slice') \in Nat /\ slice' <= SliceEnd(slice')
      BY <2>1, <2>5, PartEndOf
    <2>7. SliceEnd(slice)' = SliceEnd(slice')
      BY <1>1 DEF SliceEnd
    <2> QED
      BY <2>1, <2>2, <2>3, <2>4, <2>5, <2>6, <2>7
  <1> QED
    BY <1>1, <1>2, <1>3, <1>4, <1>5

LEMMA TakeTypes ==
  ASSUME TypeOK, WindowInv, NEW kept, NEW more, NEW next,
         GoodPage(kept, more, next), Take(kept, more, next)
  PROVE  TypeOK'
  <1>1. /\ endpoint' \in Endpoints
        /\ time' \in [Records -> Time] /\ content' \in [Records -> Content]
        /\ visible' \subseteq Records /\ atStart' \subseteq visible'
        /\ pc' \in {"idle", "paging", "done"}
    <2>1. pc' \in {"paging", "done"}
      BY TakeMoves
    <2> QED
      BY <2>1, TakeMoves DEF TypeOK
  <1>2. pages' \in 0 .. MaxPages - 1 /\ cursor' \in Nat
    <2>1. CASE Again(more)
      <3>1. pages' = pages + 1 /\ cursor' = next /\ pages + 1 < MaxPages
        BY <2>1, TakeMoves DEF Again
      <3> QED
        BY <3>1, Given DEF GoodPage
    <2>2. CASE ~Again(more)
      BY <2>2, TakeMoves, Given
    <2> QED
      BY <2>1, <2>2
  <1>3. \A row \in read' : row.id \in visible' /\ row.time \in from' .. to'
    <2> SUFFICES ASSUME NEW row \in read' PROVE row.id \in visible' /\ row.time \in from' .. to'
      OBVIOUS
    <2>1. row \in read \/ \E k \in kept : row = [id |-> k, time |-> time[k]]
      BY TakeMoves
    <2>2. CASE row \in read
      BY <2>2, TakeMoves DEF TypeOK
    <2>3. CASE \E k \in kept : row = [id |-> k, time |-> time[k]]
      <3>1. PICK k \in kept : row = [id |-> k, time |-> time[k]]
        BY <2>3
      <3>2. k \in visible /\ time[k] \in slice .. SliceEnd(slice) /\ time[k] \in Nat
        BY Given DEF GoodPage
      <3>3. /\ slice \in Nat /\ SliceEnd(slice) \in Nat /\ from \in Nat /\ to \in Nat
            /\ from <= slice /\ SliceEnd(slice) <= to
        BY TakeMoves, PartEnd
      <3>4. visible' = visible /\ from' = from /\ to' = to
        BY TakeMoves
      <3> QED
        BY <3>1, <3>2, <3>3, <3>4
    <2> QED
      BY <2>1, <2>2, <2>3
  <1>4. \A first \in capped' : first \in from' .. to'
    <2>1. capped' \subseteq capped \cup {slice} /\ from' = from /\ to' = to
      BY TakeMoves
    <2>2. slice \in from .. to
      BY TakeMoves DEF WindowInv
    <2> QED
      BY <2>1, <2>2 DEF TypeOK
  <1> QED
    BY <1>1, <1>2, <1>3, <1>4 DEF TypeOK

LEMMA TakeWindow ==
  ASSUME TypeOK, WindowInv, NEW kept, NEW more, NEW next,
         GoodPage(kept, more, next), Take(kept, more, next)
  PROVE  WindowInv'
  <1>1. /\ \A r \in Records : Plausible(content[r])'
        /\ (endpoint \notin Cumulative => Numbered)'
    BY TakeMoves DEF WindowInv, Plausible, Numbered
  <1>2. from' \in Time /\ to' \in Time
    BY TakeMoves DEF WindowInv
  <1>3. /\ from \in Nat \ {0} /\ to \in Nat /\ slice \in Nat \ {0}
        /\ from <= slice /\ slice <= to /\ SliceLength \in Nat \ {0}
        /\ SliceEnd(slice) \in Nat /\ slice <= SliceEnd(slice)
    BY TakeMoves, PartEnd, Given
  <1>4. slice' = slice \/ /\ endpoint \in Sliced /\ slice' = slice + SliceLength
                          /\ slice' <= to /\ SliceEnd(slice) = slice' - 1
                          /\ SliceEnd(slice)' \in Nat /\ SliceEnd(slice)' >= slice'
    BY TakeMoves
  <1>5. slice' \in from' .. to'
    BY <1>3, <1>4, TakeMoves
  <1>6. (endpoint \notin Sliced => slice = from)'
    BY <1>4, TakeMoves DEF WindowInv
  <1>7. endpoint' \in Sliced =>
            slice' - from' = SliceLength * ((slice' - from') \div SliceLength)
    <2> SUFFICES ASSUME endpoint \in Sliced
                 PROVE  slice' - from = SliceLength * ((slice' - from) \div SliceLength)
      BY TakeMoves
    <2> DEFINE k == (slice - from) \div SliceLength
    <2>1. slice - from = SliceLength * k /\ slice - from \in Nat
      BY <1>3, TakeMoves DEF WindowInv
    <2>2. k \in Nat
      BY <1>3, <2>1, Division
    <2>3. CASE slice' = slice
      BY <2>1, <2>3
    <2>4. CASE slice' = slice + SliceLength
      <3> HIDE DEF k
      <3>1. slice' - from = SliceLength * (k + 1) /\ slice' - from \in Nat /\ k + 1 \in Nat
        BY <1>3, <2>1, <2>2, <2>4
      <3>2. (slice' - from) \div SliceLength = k + 1
        <4>1. SliceLength * (k + 1) <= slice' - from
              /\ slice' - from < SliceLength * (k + 1) + SliceLength
          BY <1>3, <3>1
        <4> QED
          BY <1>3, <3>1, <4>1, InPart
      <3> QED
        BY <3>1, <3>2
    <2> QED
      BY <1>4, <2>3, <2>4
  <1>8. \A row \in read' : row.time <= SliceEnd(slice)'
    <2> SUFFICES ASSUME NEW row \in read' PROVE row.time <= SliceEnd(slice)'
      OBVIOUS
    <2>1. row \in read \/ \E k \in kept : row = [id |-> k, time |-> time[k]]
      BY TakeMoves
    <2>2. row.time <= SliceEnd(slice) /\ row.time \in Int
      <3>1. CASE row \in read
        <4>1. row.time \in from .. to
          BY <3>1 DEF TypeOK
        <4> QED
          BY <1>3, <3>1, <4>1, TakeMoves DEF WindowInv
      <3>2. CASE \E k \in kept : row = [id |-> k, time |-> time[k]]
        <4>1. PICK k \in kept : row = [id |-> k, time |-> time[k]]
          BY <3>2
        <4> QED
          BY <1>3, <4>1 DEF GoodPage
      <3> QED
        BY <2>1, <3>1, <3>2
    <2>3. \/ SliceEnd(slice)' = SliceEnd(slice)
          \/ SliceEnd(slice)' \in Nat /\ SliceEnd(slice)' >= SliceEnd(slice)
      <3>1. slice' = slice => SliceEnd(slice)' = SliceEnd(slice)
        BY TakeMoves DEF SliceEnd
      <3> QED
        BY <1>3, <1>4, <3>1
    <2> QED
      BY <1>3, <2>2, <2>3
  <1>9. pc' = "paging" /\ endpoint' = "BINANCE_TRADES" /\ pages' # 0 =>
            cursor' - 1 \in Records /\ time'[cursor' - 1] >= slice'
    <2> SUFFICES ASSUME endpoint = "BINANCE_TRADES", pages' # 0
                 PROVE  cursor' - 1 \in Records /\ time'[cursor' - 1] >= slice'
      BY TakeMoves
    <2>1. Again(more) /\ more
      BY TakeMoves DEF Again
    <2> QED
      BY <2>1, TakeMoves DEF GoodPage
  <1> QED
    BY <1>1, <1>2, <1>5, <1>6, <1>7, <1>8, <1>9 DEF WindowInv
\* records of a part are of the same part as its beginning, earlier ones are not
LEMMA Parts ==
  ASSUME WindowInv, pc \in {"paging", "done"}, NEW x \in from .. to
  PROVE  /\ x \in slice .. SliceEnd(slice) => PartOf(slice) = PartOf(x)
         /\ \A y \in from .. to : x < slice /\ slice <= y => PartOf(y) # PartOf(x)
  <1>1. /\ from \in Nat \ {0} /\ to \in Nat /\ slice \in Nat \ {0} /\ from <= slice /\ slice <= to
        /\ SliceEnd(slice) \in Nat /\ slice <= SliceEnd(slice) /\ SliceEnd(slice) <= to
        /\ endpoint \in Sliced => SliceEnd(slice) <= slice + SliceLength - 1
    BY PartEnd
  <1>2. SliceLength \in Nat \ {0}
    BY PageConstants
  <1>3. CASE endpoint \notin Sliced
    <2>1. slice = from /\ \A y : PartOf(y) = 0
      BY <1>3 DEF WindowInv, PartOf
    <2> QED
      BY <1>1, <2>1
  <1>4. CASE endpoint \in Sliced
    <2> DEFINE k == (slice - from) \div SliceLength
               j == (x - from) \div SliceLength
    <2>1. slice - from = SliceLength * k /\ slice - from \in Nat
      BY <1>1, <1>4 DEF WindowInv
    <2>2. k \in Nat /\ x - from \in Nat
      BY <1>1, <1>2, <2>1, Division
    <2>3. \A y : PartOf(y) = (y - from) \div SliceLength
      BY <1>4 DEF PartOf
    <2>4. PartOf(slice) = k /\ PartOf(x) = j
      BY <2>3
    <2> HIDE DEF k, j
    <2>5. ASSUME x \in slice .. SliceEnd(slice) PROVE PartOf(x) = k
      <3>1. SliceLength * k <= x - from /\ x - from < SliceLength * k + SliceLength
        BY <1>1, <1>2, <1>4, <2>1, <2>5
      <3> QED
        BY <1>2, <2>2, <2>3, <3>1, InPart
    <2>6. ASSUME NEW y \in from .. to, x < slice, slice <= y, PartOf(y) = PartOf(x) PROVE FALSE
      <3>1. j = (x - from) \div SliceLength /\ j = (y - from) \div SliceLength
        BY <2>3, <2>4, <2>6
      <3>2. y - from \in Nat
        BY <1>1
      <3>3. j \in Nat
        BY <1>2, <2>2, <3>1, Division
      <3>4. SliceLength * j <= x - from /\ y - from < SliceLength * j + SliceLength
        BY <1>2, <2>2, <3>1, <3>2, <3>3, InPart
      <3>5. CASE j < k
        <4>1. SliceLength * j + SliceLength <= SliceLength * k
          BY <1>2, <2>2, <3>3, <3>5, Multiples
        <4>2. SliceLength * j \in Nat /\ SliceLength * k \in Nat
          BY <1>2, <2>2, <3>3
        <4> QED
          BY <1>1, <1>2, <2>1, <2>6, <3>2, <3>4, <4>1, <4>2
      <3>6. CASE k = j
        BY <1>1, <2>1, <2>2, <2>6, <3>4, <3>6
      <3>7. CASE k < j
        <4>1. SliceLength * k + SliceLength <= SliceLength * j
          BY <1>2, <2>2, <3>3, <3>7, Multiples
        <4>2. SliceLength * j \in Nat /\ SliceLength * k \in Nat
          BY <1>2, <2>2, <3>3
        <4> QED
          BY <1>1, <1>2, <2>1, <2>2, <2>6, <3>4, <4>1, <4>2
      <3> QED
        BY <2>2, <3>3, <3>5, <3>6, <3>7
    <2> QED
      BY <2>4, <2>5, <2>6
  <1> QED
    BY <1>3, <1>4

\* nothing the order of the pages depends on has moved
LEMMA AheadStays ==
  ASSUME time' = time, content' = content, visible' = visible, endpoint' = endpoint,
         slice' = slice, SliceEnd(slice)' = SliceEnd(slice),
         NEW r, Ahead(r, cursor', pages')
  PROVE  Ahead(r, cursor, pages)'
  <1>1. InSlice' = InSlice
    BY DEF InSlice
  <1>2. \A q, s : Precedes(q, s)' <=> Precedes(q, s)
    BY DEF Precedes
  <1>3. Oldest(pages * Limit, InSlice)' = Oldest(pages' * Limit, InSlice)
    <2>1. \A s : {q \in InSlice' : Precedes(q, s)'} = {q \in InSlice : Precedes(q, s)}
      BY <1>1, <1>2
    <2> QED
      BY <1>1, <2>1 DEF Oldest
  <1>4. Newest(pages * Limit, visible)' = Newest(pages' * Limit, visible)
    <2>1. \A s : {q \in visible' : Precedes(s, q)'} = {q \in visible : Precedes(s, q)}
      BY <1>2
    <2> QED
      BY <2>1 DEF Newest
  <1>5. OfProduct(r)' <=> OfProduct(r)
    BY DEF OfProduct
  <1> QED
    BY <1>3, <1>4, <1>5 DEF Ahead
LEMMA TakeRows ==
  ASSUME TypeOK, WindowInv, NEW kept, NEW more, NEW next,
         GoodPage(kept, more, next), Take(kept, more, next)
  PROVE  /\ \A row \in read' : \/ row \in read /\ row.time \in from .. SliceEnd(slice)
                               \/ \E k \in kept : /\ row = [id |-> k, time |-> time[k]]
                                                  /\ row.time \in slice .. SliceEnd(slice)
         /\ \A r : Left(r)' => Left(r) /\ r \notin kept
         /\ \A r, row : Behind(r, row)' <=> Behind(r, row)
         /\ \A t : PartOf(t)' = PartOf(t)
         /\ \A r : SameTime(r) => SameTime(r)'
  <1>0. \A r : OfProduct(r)' <=> OfProduct(r)
    BY TakeMoves DEF OfProduct
  <1>1. /\ endpoint' = endpoint /\ from' = from /\ to' = to /\ atStart' = atStart /\ time' = time
        /\ read' = read \cup {[id |-> r, time |-> time[r]] : r \in kept}
    BY TakeMoves
  <1>2. ASSUME NEW row \in read'
        PROVE  \/ row \in read /\ row.time \in from .. SliceEnd(slice)
               \/ \E k \in kept : /\ row = [id |-> k, time |-> time[k]]
                                  /\ row.time \in slice .. SliceEnd(slice)
    <2>1. CASE row \in read
      <3>1. row.time \in from .. to /\ row.time <= SliceEnd(slice) /\ from \in Nat /\ to \in Nat
            /\ SliceEnd(slice) \in Nat
        BY <2>1, TakeMoves, PartEnd DEF TypeOK, WindowInv
      <3> QED
        BY <2>1, <3>1
    <2>2. CASE row \notin read
      <3>1. PICK k \in kept : row = [id |-> k, time |-> time[k]]
        BY <1>1, <2>2
      <3> QED
        BY <3>1 DEF GoodPage
    <2> QED
      BY <2>1, <2>2
  <1>3. ASSUME NEW r, Left(r)' PROVE Left(r) /\ r \notin kept
    <2>1. r \in atStart /\ time[r] \in from .. to /\ r \notin {row.id : row \in read'}
      BY <1>1, <1>3 DEF Left, Returned
    <2>2. r \notin {row.id : row \in read}
      BY <1>1, <2>1
    <2>3. r \notin kept
      <3> SUFFICES ASSUME r \in kept PROVE FALSE
        OBVIOUS
      <3>1. [id |-> r, time |-> time[r]] \in read'
        BY <1>1
      <3>2. [id |-> r, time |-> time[r]].id = r
        OBVIOUS
      <3> QED
        BY <2>1, <3>1, <3>2, Zenon
    <2>4. OfProduct(r)
      BY <1>0, <1>3 DEF Left
    <2> QED
      BY <2>1, <2>2, <2>3, <2>4 DEF Left, Returned
  <1>4. \A r, row : Behind(r, row)' <=> Behind(r, row)
    BY <1>1 DEF Behind
  <1>5. \A t : PartOf(t)' = PartOf(t)
    BY <1>1 DEF PartOf
  <1>6. \A r : SameTime(r) => SameTime(r)'
    BY <1>1 DEF SameTime
  <1> QED
    BY <1>2, <1>3, <1>4, <1>5, <1>6

\* a record of the part that is still missing
LEMMA StillLeft ==
  ASSUME TypeOK, WindowInv, PagesInv, NEW kept, NEW more, NEW next,
         GoodPage(kept, more, next), Take(kept, more, next),
         NEW r \in Records, Left(r)', time[r] \in slice .. SliceEnd(slice)
  PROVE  \/ SameTime(r)'
         \/ /\ more
            /\ Ahead(r, next, pages + 1)
            /\ \A row \in read' : row.time >= slice => Behind(r, row)
  <1> SUFFICES ASSUME ~SameTime(r)'
               PROVE  /\ more
                      /\ Ahead(r, next, pages + 1)
                      /\ \A row \in read' : row.time >= slice => Behind(r, row)
    OBVIOUS
  <1>1. Left(r) /\ r \notin kept /\ ~SameTime(r)
    BY TakeRows
  <1>2. r \in visible
    BY <1>1 DEF Left, TypeOK
  <1>3. Ahead(r, cursor, pages) /\ \A row \in read : row.time >= slice => Behind(r, row)
    BY <1>1, TakeMoves DEF PagesInv
  <1>4. ~(endpoint \in ByTime /\ \E k \in kept : time[k] = time[r])
    <2> SUFFICES ASSUME endpoint \in ByTime, NEW k \in kept, time[k] = time[r] PROVE FALSE
      OBVIOUS
    <2>1. [id |-> k, time |-> time[k]] \in read' /\ time' = time /\ endpoint' = endpoint
      BY TakeMoves
    <2>2. [id |-> k, time |-> time[k]].time = time'[r]
      BY <2>1
    <2> QED
      BY <2>1, <2>2 DEF SameTime
  <1>5. more /\ Ahead(r, next, pages + 1) /\ \A k \in kept : Behind(r, [id |-> k, time |-> time[k]])
    BY <1>1, <1>2, <1>3, <1>4 DEF GoodPage
  <1>6. \A row \in read' : row.time >= slice => Behind(r, row)
    <2> SUFFICES ASSUME NEW row \in read', row.time >= slice PROVE Behind(r, row)
      OBVIOUS
    <2>1. row \in read \/ \E k \in kept : row = [id |-> k, time |-> time[k]]
      BY TakeRows
    <2> QED
      BY <1>3, <1>5, <2>1
  <1> QED
    BY <1>5, <1>6

\* what was explained stays explained
LEMMA StaysExplained ==
  ASSUME TypeOK, WindowInv, PagesInv, NEW kept, NEW more, NEW next,
         GoodPage(kept, more, next), Take(kept, more, next),
         NEW r \in Records, Left(r)', time[r] < slice
  PROVE  Explained(r)'
  <1>1. Left(r) /\ pc = "paging"
    BY TakeRows, TakeMoves
  <1>2. Explained(r)
    BY <1>1 DEF PagesInv
  <1>3. CASE SameTime(r)
    BY <1>3, TakeRows DEF Explained
  <1>4. CASE ~SameTime(r)
    <2>1. time[r] \in from .. to /\ time' = time
      BY <1>1, TakeMoves DEF Left
    <2>2. PICK first \in capped : PartOf(first) = PartOf(time[r])
      BY <1>2, <1>4 DEF Explained
    <2>3. first \in capped' /\ PartOf(first)' = PartOf(time[r])'
      <3>1. capped \subseteq capped'
        BY TakeMoves
      <3> QED
        BY <2>1, <2>2, <3>1, TakeMoves DEF PartOf
    <2>4. ASSUME NEW row \in read', PartOf(row.time)' = PartOf(time[r])' PROVE Behind(r, row)'
      <3>1. PartOf(row.time) = PartOf(time[r])
        BY <2>1, <2>4, TakeMoves DEF PartOf
      <3>2. CASE row \in read
        BY <1>2, <1>4, <3>1, <3>2, TakeRows DEF Explained
      <3>3. CASE row \notin read
        <4>1. row.time \in slice .. SliceEnd(slice)
          BY <3>3, TakeRows
        <4>2. slice \in Nat /\ SliceEnd(slice) \in Nat /\ SliceEnd(slice) <= to /\ from <= slice
              /\ from \in Nat /\ to \in Nat
          BY <1>1, PartEnd
        <4>3. row.time \in from .. to /\ slice <= row.time
          BY <4>1, <4>2
        <4> QED
          BY <1>1, <2>1, <3>1, <4>3, Parts
      <3> QED
        BY <3>2, <3>3
    <2>5. \E x \in capped' : PartOf(x)' = PartOf(time[r])'
      BY <2>3
    <2> QED
      BY <2>4, <2>5 DEF Explained
  <1> QED
    BY <1>3, <1>4

\* and what is missing of a part that is left is explained
LEMMA PartExplained ==
  ASSUME TypeOK, WindowInv, PagesInv, NEW kept, NEW more, NEW next,
         GoodPage(kept, more, next), Take(kept, more, next), ~Again(more),
         NEW r \in Records, Left(r)', time[r] <= SliceEnd(slice)
  PROVE  Explained(r)'
  <1>1. /\ pc = "paging" /\ time' = time
        /\ slice \in Nat /\ SliceEnd(slice) \in Nat /\ SliceEnd(slice) <= to /\ from <= slice
        /\ from \in Nat /\ to \in Nat /\ slice <= to
    BY TakeMoves, PartEnd
  <1>2. time[r] \in from .. to /\ time[r] \in Nat
    BY <1>1, TakeRows, Given DEF Left
  <1>3. CASE time[r] < slice
    BY <1>3, StaysExplained
  <1>4. CASE time[r] >= slice /\ SameTime(r)'
    BY <1>4 DEF Explained
  <1>5. CASE time[r] >= slice /\ ~SameTime(r)'
    <2>1. time[r] \in slice .. SliceEnd(slice)
      BY <1>1, <1>2, <1>5
    <2>2. more /\ \A row \in read' : row.time >= slice => Behind(r, row)
      BY <1>5, <2>1, StillLeft
    <2>3. slice \in capped'
      BY <2>2, TakeMoves
    <2>4. PartOf(slice) = PartOf(time[r])
      BY <1>1, <1>2, <2>1, Parts
    <2>5. \E first \in capped' : PartOf(first)' = PartOf(time[r])'
      <3>1. PICK f : f = slice
        OBVIOUS
      <3>2. PartOf(f) = PartOf(time[r])
        BY <2>4, <3>1
      <3>3. PartOf(f)' = PartOf(time[r])'
        BY <1>1, <3>2, TakeMoves DEF PartOf
      <3> QED
        BY <2>3, <3>1, <3>3
    <2>6. ASSUME NEW row \in read', PartOf(row.time)' = PartOf(time[r])' PROVE Behind(r, row)'
      <3>1. PartOf(row.time) = PartOf(time[r])
        BY <1>1, <2>6, TakeMoves DEF PartOf
      <3>2. row.time \in from .. SliceEnd(slice)
        <4>1. row.time \in from .. SliceEnd(slice) \/ row.time \in slice .. SliceEnd(slice)
          BY TakeRows
        <4> QED
          BY <1>1, <4>1
      <3>3. row.time \in from .. to /\ row.time \in Nat
        BY <1>1, <3>2
      <3>4. ~(row.time < slice)
        <4>1. \A y \in from .. to : row.time < slice /\ slice <= y => PartOf(y) # PartOf(row.time)
          BY <1>1, <3>3, Parts
        <4> QED
          BY <1>1, <1>2, <1>5, <3>1, <4>1
      <3> QED
        <4>1. row.time >= slice
          BY <1>1, <3>3, <3>4
        <4>2. Behind(r, row)
          BY <2>2, <2>6, <4>1
        <4> QED
          BY <4>2, TakeRows
    <2> QED
      BY <2>5, <2>6 DEF Explained
  <1> QED
    BY <1>2, <1>1, <1>3, <1>4, <1>5
LEMMA TakePages ==
  ASSUME TypeOK, WindowInv, PagesInv, NEW kept, NEW more, NEW next,
         GoodPage(kept, more, next), Take(kept, more, next)
  PROVE  PagesInv'
  <1> SUFFICES ASSUME pc' = "paging", NEW r \in Records, Left(r)'
               PROVE  /\ (time[r] < slice => Explained(r))'
                      /\ (time[r] \in slice .. SliceEnd(slice) =>
                             \/ SameTime(r)
                             \/ /\ Ahead(r, cursor, pages)
                                /\ \A row \in read : row.time >= slice => Behind(r, row))'
    BY DEF PagesInv
  <1>1. /\ time' = time /\ visible' = visible /\ endpoint' = endpoint /\ pc = "paging"
        /\ content' = content
    BY TakeMoves
  <1>2. /\ slice \in Nat /\ SliceEnd(slice) \in Nat /\ time[r] \in Nat /\ from \in Nat
        /\ from <= slice /\ slice <= SliceEnd(slice)
    BY <1>1, PartEnd, Given
  <1>3. CASE Again(more)
    <2>1. slice' = slice /\ SliceEnd(slice)' = SliceEnd(slice) /\ cursor' = next /\ pages' = pages + 1
      BY <1>3, TakeMoves
    <2>2. ASSUME time[r] < slice PROVE Explained(r)'
      BY <2>2, StaysExplained
    <2>3. ASSUME time[r] \in slice .. SliceEnd(slice), ~SameTime(r)'
          PROVE  /\ Ahead(r, cursor, pages)'
                 /\ \A row \in read' : row.time >= slice' => Behind(r, row)'
      <3>1. Ahead(r, next, pages + 1) /\ \A row \in read' : row.time >= slice => Behind(r, row)
        BY <2>3, StillLeft
      <3>2. Ahead(r, cursor', pages')
        BY <2>1, <3>1
      <3>3. Ahead(r, cursor, pages)'
        BY <1>1, <2>1, <3>2, AheadStays
      <3> QED
        BY <2>1, <3>1, <3>3, TakeRows
    <2> QED
      BY <1>1, <2>1, <2>2, <2>3
  <1>4. CASE ~Again(more)
    <2>1. /\ endpoint \in Sliced /\ cursor' = 0 /\ pages' = 0
          /\ slice' \in Nat /\ SliceEnd(slice) = slice' - 1
      <3>1. ~LastSlice
        BY <1>4, TakeMoves
      <3>2. slice' = slice + SliceLength
        BY <1>4, <3>1, TakeMoves
      <3> QED
        BY <1>2, <1>4, <3>1, <3>2, TakeMoves, Given
    <2>2. ASSUME time[r] < slice' PROVE Explained(r)'
      <3>1. time[r] <= SliceEnd(slice)
        BY <1>2, <2>1, <2>2
      <3> QED
        BY <1>4, <3>1, PartExplained
    <2>3. Ahead(r, cursor, pages)'
      <3>1. OfProduct(r)'
        BY DEF Left
      <3> QED
        BY <1>1, <2>1, <3>1, Given DEF Ahead, Sliced
    <2>4. ASSUME NEW row \in read', row.time >= slice' PROVE FALSE
      <3>1. row.time \in from .. SliceEnd(slice) \/ row.time \in slice .. SliceEnd(slice)
        BY TakeRows
      <3> QED
        BY <1>2, <2>1, <2>4, <3>1
    <2> QED
      BY <1>1, <2>2, <2>3, <2>4
  <1> QED
    BY <1>3, <1>4

LEMMA TakeHoles ==
  ASSUME TypeOK, WindowInv, PagesInv, NEW kept, NEW more, NEW next,
         GoodPage(kept, more, next), Take(kept, more, next)
  PROVE  NoHoles'
  <1> SUFFICES ASSUME pc' = "done", NEW r \in (Expected \ Returned)'
               PROVE  Explained(r)'
    BY DEF NoHoles, Explained, SameTime
  <1>1. time' = time /\ endpoint' = endpoint /\ pc = "paging" /\ to' = to /\ from' = from /\ atStart' = atStart
    BY TakeMoves
  <1>2. ~Again(more) /\ LastSlice
    BY TakeMoves
  <1>3. Left(r)' /\ r \in Records
    BY <1>1 DEF Expected, InWindow, Left, TypeOK
  <1>4. time[r] <= SliceEnd(slice)
    <2>1. time[r] \in from .. to /\ (endpoint = "BYBIT_LOG" => time[r] < to)
      BY <1>1 DEF Expected, InWindow
    <2>2. SliceEnd(slice) \in Nat /\ from \in Nat /\ to \in Nat
      BY <1>1, PartEnd
    <2> QED
      BY <1>2, <2>1, <2>2 DEF LastSlice
  <1> QED
    BY <1>2, <1>3, <1>4, PartExplained

(***************************************************************************)
(* The steps.                                                              *)
(***************************************************************************)
IInv == TypeOK /\ WindowInv /\ PagesInv /\ NoHoles

LEMMA TakeInv ==
  ASSUME IInv, NEW kept, NEW more, NEW next, GoodPage(kept, more, next), Take(kept, more, next)
  PROVE  IInv'
  BY TakeTypes, TakeWindow, TakePages, TakeHoles DEF IInv

LEMMA InitInv == Init => IInv
  <1> SUFFICES ASSUME Init PROVE IInv
    OBVIOUS
  <1>1. content \in [Records -> Content]
    <2>1. NothingOfInterest \in [Records -> Content]
      BY DEF NothingOfInterest, Content
    <2>2. content \in Contents \/ content = NothingOfInterest
      BY DEF Init
    <2>3. Contents \subseteq [Records -> Content]
      BY PageConstants
    <2> QED
      BY <2>1, <2>2, <2>3
  <1>2. TypeOK
    BY <1>1, PageConstants DEF Init, TypeOK
  <1>3. WindowInv
    BY DEF Init, WindowInv
  <1>4. PagesInv /\ NoHoles
    BY DEF Init, PagesInv, NoHoles
  <1> QED
    BY <1>2, <1>3, <1>4 DEF IInv

LEMMA PagesRead ==
  ASSUME IInv, BinanceIncome \/ BinanceTrades \/ OkxBills \/ OkxPositions \/ BitgetBills
               \/ BybitLog \/ HyperliquidFills \/ PolymarketClosed
  PROVE  IInv'
  <1>1. TypeOK /\ WindowInv
    BY DEF IInv
  <1>2. CASE BinanceIncome
    <2>1. pc = "paging" /\ endpoint = "BINANCE_INCOME"
      BY <1>2 DEF BinanceIncome, Take
    <2> QED
      BY <1>1, <1>2, <2>1, IncomePage, TakeInv DEF BinanceIncome
  <1>3. CASE BinanceTrades
    <2>1. pc = "paging" /\ endpoint = "BINANCE_TRADES"
      BY <1>3 DEF BinanceTrades, Take
    <2> QED
      BY <1>1, <1>3, <2>1, TradesPage, TakeInv DEF BinanceTrades
  <1>4. CASE OkxBills \/ BitgetBills \/ BybitLog
    <2>1. /\ pc = "paging" /\ endpoint \in {"OKX_BILLS", "BITGET_BILLS", "BYBIT_LOG"}
          /\ TakeNumbered
      BY <1>4 DEF OkxBills, BitgetBills, BybitLog, TakeNumbered, Take
    <2> QED
      BY <1>1, <2>1, NumberedRows, TakeInv DEF TakeNumbered
  <1>5. CASE OkxPositions
    <2>1. pc = "paging" /\ endpoint = "OKX_POSITIONS"
      BY <1>5 DEF OkxPositions, Take
    <2> QED
      BY <1>1, <1>5, <2>1, PositionsPage, TakeInv DEF OkxPositions
  <1>6. CASE HyperliquidFills
    <2>1. pc = "paging" /\ endpoint = "HYPERLIQUID_FILLS"
      BY <1>6 DEF HyperliquidFills, Take
    <2> QED
      BY <1>1, <1>6, <2>1, FillsPage, TakeInv DEF HyperliquidFills
  <1>7. CASE PolymarketClosed
    <2>1. pc = "paging" /\ endpoint = "POLYMARKET_CLOSED"
      BY <1>7 DEF PolymarketClosed, Take
    <2> QED
      BY <1>1, <1>7, <2>1, ClosedPage, TakeInv DEF PolymarketClosed
  <1> QED
    BY <1>2, <1>3, <1>4, <1>5, <1>6, <1>7
\* records that are published or get a later time leave what is ahead there
LEMMA AheadLater ==
  ASSUME TypeOK, WindowInv, visible \subseteq visible', visible' \subseteq Records,
         time' \in [Records -> Time],
         endpoint' = endpoint, slice' = slice, SliceEnd(slice)' = SliceEnd(slice),
         content' = content, cursor' = cursor, pages' = pages, pc = "paging",
         time' = time \/ /\ endpoint \in Cumulative
                         /\ \A q \in Records : time'[q] = time[q] \/ time'[q] > to,
         NEW r \in visible, time[r] \in slice .. SliceEnd(slice), time'[r] = time[r],
         Ahead(r, cursor, pages)
  PROVE  Ahead(r, cursor, pages)'
  <1> DEFINE n == pages * Limit
  <1>1. n \in Nat /\ r \in Records
    BY Given
  <1>2. ASSUME endpoint = "BINANCE_INCOME" PROVE r \notin Oldest(n, InSlice)'
    <2> DEFINE B == {q \in InSlice : Precedes(q, r)}
               C == {q \in InSlice' : Precedes(q, r)'}
    <2>1. time' = time
      BY <1>2 DEF Cumulative
    <2>2. r \in InSlice /\ InSlice \subseteq InSlice'
      BY <2>1 DEF InSlice
    <2>3. ~(Cardinality(B) < n)
      BY <1>2, <2>2 DEF Ahead, Oldest
    <2>4. B \in SUBSET Records /\ C \in SUBSET Records /\ B \subseteq C
      BY <2>1, <2>2, Given DEF InSlice, Precedes
    <2>5. ~(Cardinality(C) < n)
      <3> HIDE DEF B, C, n
      <3> QED
        BY <1>1, <2>3, <2>4, Given, FirstGrows DEF Timed
    <2> QED
      BY <2>5 DEF Oldest
  <1>3. ASSUME endpoint = "POLYMARKET_CLOSED" PROVE r \notin Newest(n, visible)'
    <2> DEFINE B == {q \in visible : Precedes(r, q)}
               C == {q \in visible' : Precedes(r, q)'}
    <2>1. ~(Cardinality(B) < n)
      BY <1>3 DEF Ahead, Newest
    <2>2. B \in SUBSET Records /\ C \in SUBSET Records
      OBVIOUS
    <2>3. B \subseteq C
      <3> SUFFICES ASSUME NEW q \in visible, Precedes(r, q) PROVE Precedes(r, q)'
        OBVIOUS
      <3>1. time'[q] = time[q] \/ time'[q] > to
        BY Given
      <3>2. time[r] <= to /\ time[r] \in Nat /\ to \in Nat /\ time[q] \in Nat /\ time'[q] \in Nat
        <4>1. /\ to \in Nat /\ slice \in Nat /\ SliceEnd(slice) \in Nat /\ SliceEnd(slice) <= to
              /\ time[r] \in Nat
          BY <1>1, PartEnd, Given
        <4>2. time[q] \in Nat /\ time'[q] \in Nat
          BY Given DEF Time
        <4> QED
          BY <4>1, <4>2
      <3> QED
        BY <3>1, <3>2 DEF Precedes
    <2>4. ~(Cardinality(C) < n)
      <3> HIDE DEF B, C, n
      <3> QED
        BY <1>1, <2>1, <2>2, <2>3, Given, FirstGrows DEF Timed
    <2> QED
      BY <2>4 DEF Newest
  <1> QED
    BY <1>2, <1>3 DEF Ahead, OfProduct

LEMMA ExchangeMoves ==
  ASSUME IInv, NEW x \in Records, Publish(x) \/ Change(x)
  PROVE  IInv'
  <1>1. /\ UNCHANGED <<content, endpoint, from, to, atStart, pc, slice, cursor, pages, read, capped>>
        /\ visible \subseteq visible' /\ visible' \subseteq Records
        /\ \/ time' = time
           \/ /\ pc = "paging" /\ endpoint \in Cumulative
              /\ \A q \in Records : time'[q] = time[q] \/ time'[q] > to
    <2>1. CASE Publish(x)
      BY <2>1 DEF Publish, callVars, IInv, TypeOK
    <2>2. CASE Change(x)
      <3>1. PICK t \in to + 1 .. MaxTime : time' = [time EXCEPT ![x] = t]
        BY <2>2 DEF Change
      <3>2. to \in Nat /\ MaxTime \in Nat
        BY <2>2, PageConstants, PartEnd DEF Change, IInv
      <3>3. \A q \in Records : time'[q] = time[q] \/ time'[q] > to
        BY <3>1, <3>2 DEF IInv, TypeOK
      <3> QED
        BY <2>2, <3>3 DEF Change, callVars, IInv, TypeOK
    <2> QED
      BY <2>1, <2>2
  <1>2. time' \in [Records -> Time]
    <2>1. CASE Publish(x)
      BY <2>1 DEF Publish, IInv, TypeOK
    <2>2. CASE Change(x)
      <3>1. PICK t \in to + 1 .. MaxTime : time' = [time EXCEPT ![x] = t]
        BY <2>2 DEF Change
      <3>2. to \in Nat /\ MaxTime \in Nat
        BY <2>2, PageConstants, PartEnd DEF Change, IInv
      <3>3. t \in Time
        BY <3>1, <3>2 DEF Time
      <3> QED
        BY <3>1, <3>3 DEF IInv, TypeOK
    <2> QED
      BY <2>1, <2>2
  <1>3. TypeOK'
    BY <1>1, <1>2 DEF IInv, TypeOK
  <1>4. SliceEnd(slice)' = SliceEnd(slice)
    BY <1>1 DEF SliceEnd
  <1>5. WindowInv'
    <2>1. (\A r \in Records : Plausible(content[r]))'
      BY <1>1 DEF IInv, WindowInv, Plausible
    <2>2. (endpoint \notin Cumulative => Numbered)'
      BY <1>1 DEF IInv, WindowInv, Numbered
    <2>3. (pc \in {"paging", "done"} =>
               /\ from \in Time /\ to \in Time /\ slice \in from .. to
               /\ endpoint \notin Sliced => slice = from
               /\ endpoint \in Sliced =>
                      slice - from = SliceLength * ((slice - from) \div SliceLength)
               /\ \A row \in read : row.time <= SliceEnd(slice))'
      BY <1>1, <1>4 DEF IInv, WindowInv
    <2>4. (pc = "paging" /\ endpoint = "BINANCE_TRADES" /\ pages # 0 =>
               cursor - 1 \in Records /\ time[cursor - 1] >= slice)'
      BY <1>1 DEF IInv, WindowInv, Cumulative
    <2> QED
      BY <2>1, <2>2, <2>3, <2>4 DEF WindowInv
  <1>6. ASSUME pc \in {"paging", "done"}, NEW r, r \in atStart, time'[r] \in from .. to
        PROVE  r \in Records /\ r \in visible /\ time'[r] = time[r]
    <2>1. r \in visible /\ r \in Records
      BY <1>6 DEF IInv, TypeOK
    <2>2. from \in Nat /\ to \in Nat
      BY <1>6, PartEnd DEF IInv
    <2> QED
      BY <1>1, <1>6, <2>1, <2>2
  <1>7. PagesInv'
    <2> SUFFICES ASSUME pc = "paging", NEW r \in Records, Left(r)'
                 PROVE  /\ (time[r] < slice => Explained(r))'
                        /\ (time[r] \in slice .. SliceEnd(slice) =>
                               \/ SameTime(r)
                               \/ /\ Ahead(r, cursor, pages)
                                  /\ \A row \in read : row.time >= slice => Behind(r, row))'
      BY <1>1 DEF PagesInv
    <2>1. time'[r] = time[r] /\ Left(r) /\ r \in visible
      BY <1>1, <1>6 DEF Left, Returned, OfProduct
    <2>2. \A row : Behind(r, row)' <=> Behind(r, row)
      BY <1>1, <2>1 DEF Behind
    <2>3. SameTime(r)' <=> SameTime(r)
      BY <1>1, <2>1 DEF SameTime
    <2>4. \A t : PartOf(t)' = PartOf(t)
      BY <1>1 DEF PartOf
    <2>5. Explained(r) => Explained(r)'
      <3>1. PartOf(time[r])' = PartOf(time[r])
        BY <1>1, <2>1 DEF PartOf
      <3> QED
        BY <1>1, <2>2, <2>3, <2>4, <3>1 DEF Explained
    <2>6. time[r] \in slice .. SliceEnd(slice) /\ Ahead(r, cursor, pages) => Ahead(r, cursor, pages)'
      BY <1>1, <1>2, <1>4, <2>1, AheadLater DEF IInv
    <2> QED
      BY <1>1, <1>4, <2>1, <2>2, <2>3, <2>5, <2>6 DEF IInv, PagesInv
  <1>8. NoHoles'
    <2> SUFFICES ASSUME pc = "done" PROVE NoHoles'
      BY <1>1 DEF NoHoles
    <2>1. time' = time
      BY <1>1
    <2> QED
      BY <1>1, <2>1 DEF IInv, NoHoles, Expected, InWindow, OfProduct, Returned, PartOf, Behind
  <1> QED
    BY <1>3, <1>5, <1>7, <1>8 DEF IInv
LEMMA BeginInv ==
  ASSUME IInv, Begin
  PROVE  IInv'
  <1>1. PICK first \in Time, last \in Time :
            first < last /\ from' = first /\ to' = last /\ slice' = first
    BY DEF Begin
  <1>2. /\ endpoint' = endpoint /\ time' = time /\ content' = content /\ visible' = visible
        /\ pc' = "paging" /\ cursor' = 0 /\ pages' = 0 /\ read' = {} /\ capped' = {}
        /\ atStart' = visible
    BY DEF Begin, exchangeVars
  <1>3. first \in Nat \ {0} /\ last \in Nat
    BY PageConstants DEF Time
  <1>4. TypeOK'
    BY <1>1, <1>2, <1>3, PageConstants DEF IInv, TypeOK
  <1>5. WindowInv'
    <2>1. (\A r \in Records : Plausible(content[r]))' /\ (endpoint \notin Cumulative => Numbered)'
      BY <1>2 DEF IInv, WindowInv, Plausible, Numbered
    <2>2. slice' - from' = SliceLength * ((slice' - from') \div SliceLength)
      <3>1. slice' - from' = 0 /\ SliceLength \in Nat \ {0}
        BY <1>1, <1>3, PageConstants
      <3>2. 0 \div SliceLength = 0
        BY <3>1, InPart
      <3> QED
        BY <3>1, <3>2
    <2> QED
      BY <1>1, <1>2, <1>3, <2>1, <2>2 DEF WindowInv
  <1>6. PagesInv'
    <2> SUFFICES ASSUME NEW r \in Records, Left(r)'
                 PROVE  ~(time'[r] < slice') /\ Ahead(r, cursor, pages)'
      BY <1>2 DEF PagesInv
    <2>1. time'[r] \in first .. last /\ r \in visible' /\ time[r] \in Nat
      BY <1>1, <1>2, Given DEF Left, IInv
    <2>2. ~(time'[r] < slice')
      BY <1>1, <1>2, <1>3, <2>1
    <2>3. pages' * Limit = 0
      BY <1>2, PageConstants
    <2>4. ASSUME NEW V \in SUBSET Records, r \in V
          PROVE  /\ ~(Cardinality({q \in V : Precedes(q, r)}) < 0)
                 /\ ~(Cardinality({q \in V : Precedes(r, q)}) < 0)
      <3>1. /\ Cardinality({q \in V : Precedes(q, r)}) \in Nat
            /\ Cardinality({q \in V : Precedes(r, q)}) \in Nat
        BY <2>4, Given, Ranks DEF IInv
      <3> QED
        BY <3>1
    <2>5. \A q, s : Precedes(q, s)' <=> Precedes(q, s)
      BY <1>2 DEF Precedes
    <2>6. InSlice' \in SUBSET Records /\ visible' \in SUBSET Records
      BY <1>4 DEF InSlice, TypeOK
    <2>7. r \notin Oldest(pages * Limit, InSlice)'
      <3> SUFFICES ASSUME r \in InSlice', Cardinality({q \in InSlice' : Precedes(q, r)'}) < 0
                   PROVE  FALSE
        BY <2>3 DEF Oldest
      <3>1. {q \in InSlice' : Precedes(q, r)'} = {q \in InSlice' : Precedes(q, r)}
        BY <2>5
      <3>2. ~(Cardinality({q \in InSlice' : Precedes(q, r)}) < 0)
        BY <2>4, <2>6
      <3> QED
        BY <3>1, <3>2
    <2>8. r \notin Newest(pages * Limit, visible)'
      <3> SUFFICES ASSUME Cardinality({q \in visible' : Precedes(r, q)'}) < 0
                   PROVE  FALSE
        BY <2>3 DEF Newest
      <3>1. {q \in visible' : Precedes(r, q)'} = {q \in visible' : Precedes(r, q)}
        BY <2>5
      <3>2. ~(Cardinality({q \in visible' : Precedes(r, q)}) < 0)
        BY <2>1, <2>4, <2>6
      <3> QED
        BY <3>1, <3>2
    <2>9. r >= 0 /\ time'[r] >= 0
      BY <1>2, <2>1, Given DEF IInv
    <2> QED
      <3>1. OfProduct(r)'
        BY DEF Left
      <3> QED
        BY <1>2, <2>2, <2>7, <2>8, <2>9, <3>1 DEF Ahead
  <1>7. NoHoles'
    BY <1>2 DEF NoHoles
  <1> QED
    BY <1>4, <1>5, <1>6, <1>7 DEF IInv

LEMMA BundleInv ==
  ASSUME IInv, HyperliquidBundle
  PROVE  IInv'
  <1> DEFINE page == Oldest(Limit, InSlice)
  <1>1. /\ endpoint = "HYPERLIQUID_BUNDLE" /\ pc = "paging" /\ pc' = "done"
        /\ read' = {[id |-> r, time |-> time[r]] : r \in page}
        /\ capped' = IF Full(page) THEN {slice} ELSE {}
        /\ UNCHANGED <<time, content, visible, endpoint, from, to, atStart, slice, cursor, pages>>
    BY DEF HyperliquidBundle, exchangeVars, callVars
  <1>2. slice = from /\ SliceEnd(slice) = to /\ from \in Nat \ {0} /\ to \in Nat /\ from <= to
    BY <1>1, WholeWindow, PartEnd DEF IInv, Sliced
  <1>3. InSlice \in SUBSET Records /\ page \in SUBSET InSlice
    BY Given DEF IInv, Oldest
  <1> HIDE DEF page
  <1>4. \A k \in page : k \in visible /\ time[k] \in from .. to /\ time[k] <= to
    BY <1>2, <1>3 DEF InSlice
  <1>5. \A row \in read' : \E k \in page : row = [id |-> k, time |-> time[k]]
    BY <1>1
  <1>6. \A row \in read' : row.id \in visible /\ row.time \in from .. to /\ row.time <= to
    BY <1>4, <1>5
  <1>7. TypeOK'
    BY <1>1, <1>2, <1>6 DEF IInv, TypeOK
  <1>8. WindowInv'
    <2>1. (\A r \in Records : Plausible(content[r]))' /\ (endpoint \notin Cumulative => Numbered)'
      BY <1>1 DEF IInv, WindowInv, Plausible, Numbered
    <2>2. SliceEnd(slice)' = to
      BY <1>1, <1>2 DEF SliceEnd, Sliced
    <2> QED
      BY <1>1, <1>6, <2>1, <2>2 DEF IInv, WindowInv
  <1>9. NoHoles'
    <2> SUFFICES ASSUME NEW r \in (Expected \ Returned)'
                 PROVE  /\ \E first \in capped' : PartOf(first)' = PartOf(time[r])'
                        /\ \A row \in read' : Behind(r, row)'
      BY DEF NoHoles
    <2>1. r \in atStart /\ time[r] \in from .. to /\ r \notin {row.id : row \in read'}
      BY <1>1 DEF Expected, InWindow, Returned
    <2>2. r \in InSlice
      BY <1>2, <2>1 DEF InSlice, IInv, TypeOK
    <2>3. r \notin page
      <3> SUFFICES ASSUME r \in page PROVE FALSE
        OBVIOUS
      <3>1. [id |-> r, time |-> time[r]] \in read'
        BY <1>1
      <3>2. [id |-> r, time |-> time[r]].id = r
        OBVIOUS
      <3> QED
        BY <2>1, <3>1, <3>2, Zenon
    <2>4. Cardinality(page) = Limit /\ \A k \in page : Precedes(k, r)
      BY <1>3, <2>2, <2>3, Given, OldestPage DEF IInv, page
    <2>5. capped' # {}
      BY <1>1, <2>4 DEF Full
    <2>6. \A t : PartOf(t)' = 0
      BY <1>1 DEF PartOf, Sliced
    <2>7. ASSUME NEW row \in read' PROVE Behind(r, row)'
      <3>1. PICK k \in page : row = [id |-> k, time |-> time[k]]
        BY <1>5
      <3> QED
        BY <1>1, <2>4, <3>1 DEF Precedes, Behind
    <2> QED
      BY <2>5, <2>6, <2>7, <1>1 DEF PartOf, Sliced
  <1>10. PagesInv'
    BY <1>1 DEF PagesInv
  <1> QED
    BY <1>7, <1>8, <1>9, <1>10 DEF IInv

LEMMA NextInv == IInv /\ [Next]_vars => IInv'
  <1> SUFFICES ASSUME IInv, [Next]_vars PROVE IInv'
    OBVIOUS
  <1>1. ASSUME NEW r \in Records, Publish(r) \/ Change(r) PROVE IInv'
    BY <1>1, ExchangeMoves
  <1>2. CASE Begin
    BY <1>2, BeginInv
  <1>3. CASE BinanceIncome \/ BinanceTrades \/ OkxBills \/ OkxPositions \/ BitgetBills
             \/ BybitLog \/ HyperliquidFills \/ PolymarketClosed
    BY <1>3, PagesRead
  <1>4. CASE HyperliquidBundle
    BY <1>4, BundleInv
  <1>5. CASE Fail
    <2>1. /\ UNCHANGED <<time, content, visible, endpoint, from, to, atStart>>
          /\ pc' = "idle" /\ cursor' = 0 /\ pages' = 0 /\ read' = {} /\ capped' = {}
      BY <1>5 DEF Fail, exchangeVars, callVars
    <2>2. TypeOK'
      BY <2>1, PageConstants DEF IInv, TypeOK
    <2>3. WindowInv'
      BY <2>1 DEF IInv, WindowInv, Plausible, Numbered
    <2> QED
      BY <2>1, <2>2, <2>3 DEF IInv, PagesInv, NoHoles
  <1>6. CASE UNCHANGED vars
    <2>1. /\ UNCHANGED <<time, content, visible, endpoint, from, to, atStart>>
          /\ UNCHANGED <<pc, slice, cursor, pages, read, capped>>
      BY <1>6 DEF vars, exchangeVars, callVars
    <2>2. TypeOK'
      BY <2>1 DEF IInv, TypeOK
    <2>3. SliceEnd(slice)' = SliceEnd(slice) /\ (\A r, row : Behind(r, row)' <=> Behind(r, row))
          /\ (\A t : PartOf(t)' = PartOf(t))
      BY <2>1 DEF SliceEnd, Behind, PartOf
    <2>4. WindowInv'
      BY <2>1, <2>3 DEF IInv, WindowInv, Plausible, Numbered
    <2>5. \A r : (Left(r)' <=> Left(r)) /\ (SameTime(r)' <=> SameTime(r))
      BY <2>1 DEF Left, Returned, SameTime, OfProduct
    <2>6. \A r : Explained(r)' <=> Explained(r)
      <3>1. \A r : PartOf(time[r])' = PartOf(time[r])
        BY <2>1 DEF PartOf
      <3> QED
        BY <2>1, <2>3, <2>5, <3>1 DEF Explained
    <2>7. \A r : Ahead(r, cursor, pages) => Ahead(r, cursor, pages)'
      BY <2>1, <2>3, AheadStays
    <2>8. PagesInv'
      BY <2>1, <2>3, <2>5, <2>6, <2>7 DEF IInv, PagesInv
    <2>9. NoHoles'
      BY <2>1 DEF IInv, NoHoles, Expected, InWindow, OfProduct, Returned, PartOf, Behind
    <2> QED
      BY <2>2, <2>4, <2>8, <2>9 DEF IInv
  <1> QED
    BY <1>1, <1>2, <1>3, <1>4, <1>5, <1>6 DEF Next

\* the invariant the theorems rest on
LEMMA SpecIInv == Spec => []IInv
  BY InitInv, NextInv, PTL DEF Spec

\* Types, and that the rows collected are of the window that was asked for.
THEOREM SpecTypeOK == Spec => []TypeOK
  <1>1. IInv => TypeOK
    BY DEF IInv
  <1> QED
    BY <1>1, SpecIInv, PTL

\* A finished call has returned what was there when it began, except for what
\* lies behind all that was read of a part whose pages ran out, or within one
\* millisecond with a row where the cursor is a time: whatever the exchange
\* publishes or changes between two pages (the loops of the adapters).
THEOREM SpecNoHoles == Spec => []NoHoles
  <1>1. IInv => NoHoles
    BY DEF IInv
  <1> QED
    BY <1>1, SpecIInv, PTL

\* A bundle that calls itself complete and did not run out of pages has booked
\* every amount and fee of its window, except for what the adapters take for
\* nothing and for the bills of Bitget's USDC contracts (get_history_bundle).
THEOREM SpecCompleteMeansBooked == Spec => []CompleteMeansBooked
  <1>1. IInv => CompleteMeansBooked
    <2> SUFFICES ASSUME IInv, pc = "done", endpoint \in Bundles, Complete, capped = {},
                        NEW r \in InWindow, OfProduct(r)
                 PROVE  \/ Owed(content[r]) \subseteq Booking(r).books
                        \/ /\ content[r].amount = "unknown" /\ content[r].fee
                           /\ endpoint \in {"OKX_BILLS", "BITGET_BILLS"}
                        \/ content[r].amount = "untold"
                        \/ /\ content[r].amount = "converted"
                           /\ Fee(content[r]) \subseteq Booking(r).books
      BY DEF CompleteMeansBooked
    <2>0. r \in Expected
      BY DEF Expected
    <2>1. endpoint \notin ByTime
      BY DEF Bundles, ByTime
    <2>2. r \in Returned
      BY <2>0, <2>1 DEF IInv, NoHoles
    <2>3. Booking(r).whole
      <3>1. PICK row \in read : row.id = r
        BY <2>2 DEF Returned
      <3> QED
        BY <3>1 DEF Complete
    <2>4. r \in Records /\ Plausible(content[r]) /\ content[r] \in Content
      BY DEF IInv, TypeOK, WindowInv, InWindow
    <2> DEFINE c == content[r]
    <2>5. /\ c.amount \in {"none", "known", "unknown", "untold", "converted"}
          /\ c.fee \in BOOLEAN /\ c.stable \in BOOLEAN
          /\ c.amount = "converted" => endpoint = "OKX_BILLS"
      BY <2>4 DEF Content, Plausible
    <2>6. CASE endpoint = "BINANCE_INCOME"
      <3>1. Booking(r) = BinanceBundle(c) /\ ~c.fee
        BY <2>4, <2>6 DEF Booking, Plausible
      <3> QED
        BY <2>3, <2>5, <3>1 DEF BinanceBundle, Nothing, Owed, Amount, Fee
    <2>7. CASE endpoint = "OKX_BILLS"
      <3>1. Booking(r) = OkxBundle(c)
        BY <2>7 DEF Booking
      <3> QED
        BY <2>3, <2>5, <2>7, <3>1 DEF OkxBundle, Nothing, Owed, Amount, Fee
    <2>8. CASE endpoint = "BITGET_BILLS"
      <3>1. Booking(r) = BitgetBundle(c)
        BY <2>8 DEF Booking
      <3> QED
        BY <2>3, <2>5, <2>8, <3>1 DEF BitgetBundle, Nothing, Owed, Amount, Fee
    <2>9. CASE endpoint = "BYBIT_LOG"
      <3>1. Booking(r) = BybitBundle(c)
        BY <2>9 DEF Booking
      <3> QED
        <4>1. c.stable
          BY <2>3, <3>1 DEF BybitBundle, Nothing
        <4>2. Booking(r) = [books |-> Amount(c) \cup Fee(c), whole |-> c.amount # "unknown"]
          BY <3>1, <4>1 DEF BybitBundle
        <4>3. Booking(r).books = Amount(c) \cup Fee(c)
          BY <4>2
        <4>4. Booking(r).whole = (c.amount # "unknown")
          BY <4>2
        <4>5. c.amount # "unknown"
          BY <2>3, <4>4
        <4> QED
          BY <2>5, <4>3, <4>5 DEF Owed, Amount, Fee
    <2>10. CASE endpoint = "HYPERLIQUID_BUNDLE"
      <3>1. Booking(r) = HyperliquidBooks(c)
        BY <2>10 DEF Booking
      <3> QED
        <4>1. Booking(r).books = Amount(c) \cup IF c.stable THEN Fee(c) ELSE {}
          BY <3>1 DEF HyperliquidBooks
        <4>2. Booking(r).whole = ((c.fee => c.stable) /\ c.amount # "unknown")
          BY <3>1 DEF HyperliquidBooks
        <4>3. (c.fee => c.stable) /\ c.amount # "unknown"
          BY <2>3, <4>2
        <4> QED
          BY <2>5, <4>1, <4>3 DEF Owed, Amount, Fee
    <2> QED
      BY <2>6, <2>7, <2>8, <2>9, <2>10 DEF Bundles
  <1> QED
    BY <1>1, SpecIInv, PTL
=============================================================================
