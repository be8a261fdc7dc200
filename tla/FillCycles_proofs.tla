------------------------- MODULE FillCycles_proofs -------------------------
(***************************************************************************)
(* Theorems about FillCycles: what the reconstructions make of any book,   *)
(* and what the sessions and scripts leave of it in the database.          *)
(***************************************************************************)
EXTENDS FillCycles, FiniteSetTheorems, WellFoundedInduction, TLAPS

(***************************************************************************)
(* Induction over 0 .. n for a set, and functions defined by it. A set of  *)
(* numbers has a least one because strict inclusion of the intervals       *)
(* 0 .. j is well founded.                                                 *)
(***************************************************************************)
LEMMA Induction ==
  ASSUME NEW n \in Nat, NEW T, 0 \in T, \A m \in 0 .. n - 1 : m \in T => m + 1 \in T
  PROVE  0 .. n \subseteq T
  <1> SUFFICES ASSUME NEW z \in 0 .. n, z \notin T PROVE FALSE
    OBVIOUS
  <1> DEFINE D == {0 .. k : k \in 0 .. n \ T}
  <1>1. D \subseteq SUBSET (0 .. n) /\ D # {}
    OBVIOUS
  <1>2. IsWellFoundedOn(StrictSubsetOrdering(0 .. n), SUBSET (0 .. n))
    <2>1. IsFiniteSet(0 .. n)
      BY FS_Interval
    <2> QED
      BY <2>1, FS_StrictSubsetOrderingWellFounded, FS_FiniteSubsetsOfFinite
  <1> HIDE DEF D
  <1>3. PICK x \in D : \A y \in D : ~ (<<y, x>> \in StrictSubsetOrdering(0 .. n))
    BY <1>1, <1>2, WFMin, Zenon
  <1>4. PICK k \in 0 .. n \ T : x = 0 .. k
    BY DEF D
  <1>5. k - 1 \in 0 .. n \ T
    BY <1>4
  <1>6. 0 .. k - 1 \in D
    BY <1>5 DEF D
  <1>7. 0 .. k - 1 \in SUBSET (0 .. n) /\ 0 .. k \in SUBSET (0 .. n)
    BY <1>1, <1>4, <1>6
  <1>8. 0 .. k - 1 \subseteq 0 .. k /\ 0 .. k - 1 # 0 .. k
    <2>1. k \in 0 .. k /\ k \notin 0 .. k - 1
      OBVIOUS
    <2>2. 0 .. k - 1 \subseteq 0 .. k
      OBVIOUS
    <2> QED
      BY <2>1, <2>2
  <1> QED
    BY <1>3, <1>4, <1>6, <1>7, <1>8 DEF StrictSubsetOrdering

(***************************************************************************)
(* Sums.                                                                   *)
(***************************************************************************)
\* s are the sums of f up to each index
IsSum(s, f, n) ==
    /\ s \in [0 .. n -> Int] /\ s[0] = 0
    /\ \A m \in 1 .. n : s[m] = s[m - 1] + f[m]

LEMMA Sum ==
  ASSUME NEW n \in Nat, NEW f \in [1 .. n -> Int]
  PROVE  \E s : IsSum(s, f, n)
  <1> DEFINE T == {m \in 0 .. n : \E s : IsSum(s, f, m)}
  <1>1. 0 \in T
    <2>1. IsSum([m \in 0 .. 0 |-> 0], f, 0)
      BY DEF IsSum
    <2> QED
      BY <2>1
  <1>2. ASSUME NEW m \in 0 .. n - 1, m \in T PROVE m + 1 \in T
    <2>1. PICK s : IsSum(s, f, m)
      BY <1>2
    <2> DEFINE q == [i \in 0 .. m + 1 |-> IF i = m + 1 THEN s[m] + f[m + 1] ELSE s[i]]
    <2>2. s[m] + f[m + 1] \in Int /\ \A i \in 0 .. m : s[i] \in Int
      BY <2>1 DEF IsSum
    <2>3. q \in [0 .. m + 1 -> Int] /\ q[0] = 0
      BY <2>1, <2>2 DEF IsSum
    <2>4. ASSUME NEW i \in 1 .. m + 1 PROVE q[i] = q[i - 1] + f[i]
      <3>1. CASE i = m + 1
        BY <3>1
      <3>2. CASE i # m + 1
        BY <3>2, <2>1 DEF IsSum
      <3> QED
        BY <3>1, <3>2
    <2>5. IsSum(q, f, m + 1)
      BY <2>3, <2>4 DEF IsSum
    <2> QED
      BY <2>5
  <1> HIDE DEF T
  <1>3. 0 .. n \subseteq T
    BY <1>1, <1>2, Induction
  <1> QED
    BY <1>3 DEF T

LEMMA OneSum ==
  ASSUME NEW n \in Nat, NEW f \in [1 .. n -> Int], NEW s, NEW t, IsSum(s, f, n), IsSum(t, f, n)
  PROVE  s = t
  <1> DEFINE T == {m \in 0 .. n : s[m] = t[m]}
  <1>1. 0 \in T
    BY DEF IsSum
  <1>2. ASSUME NEW m \in 0 .. n - 1, m \in T PROVE m + 1 \in T
    BY <1>2 DEF IsSum
  <1> HIDE DEF T
  <1>3. 0 .. n \subseteq T
    BY <1>1, <1>2, Induction
  <1> QED
    BY <1>3 DEF T, IsSum

LEMMA SumToIs ==
  ASSUME NEW n \in Nat, NEW f \in [1 .. n -> Int], NEW s, IsSum(s, f, n)
  PROVE  SumTo(f, n) = s[n]
  <1> DEFINE Body(g) == g = [m \in 0 .. n |-> IF m = 0 THEN 0 ELSE g[m - 1] + f[m]]
  <1>1. Body(s)
    BY DEF IsSum
  <1> DEFINE t == CHOOSE g : Body(g)
  <1>2. Body(t)
    BY <1>1
  <1>3. SumTo(f, n) = t[n]
    BY DEF SumTo
  <1> HIDE DEF t
  <1>4. IsSum(t, f, n)
    <2> DEFINE T == {m \in 0 .. n : t[m] \in Int}
    <2>1. 0 \in T
      BY <1>2
    <2>2. ASSUME NEW m \in 0 .. n - 1, m \in T PROVE m + 1 \in T
      BY <1>2, <2>2
    <2> HIDE DEF T
    <2>3. 0 .. n \subseteq T
      BY <2>1, <2>2, Induction
    <2> QED
      BY <1>2, <2>3 DEF T, IsSum
  <1> QED
    BY <1>3, <1>4, OneSum

(***************************************************************************)
(* The states of a reconstruction. Whatever its trades are, a row is named *)
(* by the trade that closes it, whose direction gives the side away.       *)
(***************************************************************************)
Cycle == [side : {"NONE", "LONG", "SHORT"}, complete : BOOLEAN,
          size : Int, max : Int, closed : Int]

Row == [id : Nat, side : {"LONG", "SHORT"}, complete : BOOLEAN,
        max : Nat \ {0}, closed : Nat \ {0}]

State == [position : Int, cycle : Cycle, rows : SUBSET Row]

IsTrade(trade) == trade.id \in Nat /\ trade.delta \in Int \ {0}

Same(p, q) == (p > 0 /\ q > 0) \/ (p < 0 /\ q < 0)

LEMMA Arithmetic ==
  /\ \A n \in Int : Abs(n) \in Nat /\ (n # 0 => Abs(n) > 0)
  /\ \A m, n \in Int : Least(m, n) \in {m, n} /\ Least(m, n) <= m /\ Least(m, n) <= n
  /\ \A m, n \in Int : Most(m, n) \in {m, n} /\ Most(m, n) >= m /\ Most(m, n) >= n
  /\ \A n \in Int : SideOf(n) \in {"LONG", "SHORT"}
  BY DEF Abs, Least, Most, SideOf

\* the signs of a product, which the provers' arithmetic does not know
LEMMA Signs ==
  ASSUME NEW p \in Int, NEW q \in Int
  PROVE  /\ p * q \in Int
         /\ p * q > 0 <=> (p > 0 /\ q > 0) \/ (p < 0 /\ q < 0)
         /\ p * q < 0 <=> (p > 0 /\ q < 0) \/ (p < 0 /\ q > 0)
         /\ p * q = 0 <=> p = 0 \/ q = 0
  <1>1. p > 0 /\ q > 0 => p * q > 0
    OBVIOUS
  <1>2. p < 0 /\ q < 0 => p * q > 0
    OBVIOUS
  <1>3. p > 0 /\ q < 0 => p * q < 0
    OBVIOUS
  <1>4. p < 0 /\ q > 0 => p * q < 0
    OBVIOUS
  <1>5. p = 0 \/ q = 0 => p * q = 0
    OBVIOUS
  <1> QED
    BY <1>1, <1>2, <1>3, <1>4, <1>5

\* a cycle, or a state, by its parts
CycleIs(cycle, side, complete, size, max, closed) ==
    /\ cycle \in Cycle
    /\ cycle.side = side /\ cycle.complete = complete
    /\ cycle.size = size /\ cycle.max = max /\ cycle.closed = closed

StateIs(state, position, cycle, rows) ==
    /\ state \in State
    /\ state.position = position /\ state.cycle = cycle /\ state.rows = rows

LEMMA NoCycleType == NoCycle \in Cycle
  BY DEF NoCycle, Cycle

LEMMA NewCycleIs ==
  ASSUME NEW side, side \in {"LONG", "SHORT"}, NEW quantity, quantity \in Int
  PROVE  /\ CycleIs(NewCycle(side, TRUE, quantity), side, TRUE, quantity, quantity, 0)
         /\ CycleIs(NewCycle(side, FALSE, quantity), side, FALSE, quantity, quantity, 0)
  <1>1. ASSUME NEW complete \in BOOLEAN
        PROVE  [NoCycle EXCEPT !.side = side, !.complete = complete, !.size = quantity,
                               !.max = quantity] \in Cycle
    BY NoCycleType DEF Cycle
  <1>2. NewCycle(side, TRUE, quantity) \in Cycle /\ NewCycle(side, FALSE, quantity) \in Cycle
    BY <1>1 DEF NewCycle
  <1>3. NoCycle.closed = 0
    BY DEF NoCycle
  <1> QED
    BY <1>2, <1>3, NoCycleType DEF CycleIs, NewCycle, Cycle

LEMMA GrownIs ==
  ASSUME NEW cycle \in Cycle, NEW quantity \in Int
  PROVE  CycleIs(Grown(cycle, quantity), cycle.side, cycle.complete,
                 cycle.size + quantity, Most(cycle.max, cycle.size + quantity), cycle.closed)
  <1>1. ASSUME NEW size \in Int, NEW max \in Int
        PROVE  [cycle EXCEPT !.size = size, !.max = max] \in Cycle
    BY DEF Cycle
  <1>2. cycle.size + quantity \in Int /\ Most(cycle.max, cycle.size + quantity) \in Int
    BY DEF Cycle, Most
  <1>3. Grown(cycle, quantity) \in Cycle
    BY <1>1, <1>2 DEF Grown
  <1> QED
    BY <1>2, <1>3 DEF Cycle, Grown, CycleIs

LEMMA ShrunkIs ==
  ASSUME NEW cycle \in Cycle, NEW quantity \in Int
  PROVE  CycleIs(Shrunk(cycle, quantity), cycle.side, cycle.complete,
                 cycle.size - quantity, cycle.max, cycle.closed + quantity)
  <1>1. ASSUME NEW size \in Int, NEW closed \in Int
        PROVE  [cycle EXCEPT !.size = size, !.closed = closed] \in Cycle
    BY DEF Cycle
  <1>2. cycle.size - quantity \in Int /\ cycle.closed + quantity \in Int
    BY DEF Cycle
  <1>3. Shrunk(cycle, quantity) \in Cycle
    BY <1>1, <1>2 DEF Shrunk
  <1> QED
    BY <1>2, <1>3 DEF Cycle, Shrunk, CycleIs

\* a cycle that has closed something and has a name makes a row
LEMMA FinishedRow ==
  ASSUME NEW cycle \in Cycle, cycle.side \in {"LONG", "SHORT"}, cycle.max \in Nat \ {0},
         cycle.closed \in Nat \ {0}, NEW id \in Nat
  PROVE  /\ Finished(cycle, id) \in Row
         /\ Finished(cycle, id).id = id /\ Finished(cycle, id).side = cycle.side
         /\ Finished(cycle, id).complete = cycle.complete
         /\ Finished(cycle, id).max = cycle.max /\ Finished(cycle, id).closed = cycle.closed
  BY DEF Finished, Row, Cycle

\* the forms a step takes
LEMMA StateParts ==
  ASSUME NEW state \in State, NEW cycle \in Cycle, NEW other \in Cycle, NEW q \in Int, NEW id,
         Finished(cycle, id) \in Row
  PROVE  LET more == state.rows \cup {Finished(cycle, id)} IN
         /\ StateIs([state EXCEPT !.cycle = cycle], state.position, cycle, state.rows)
         /\ StateIs([state EXCEPT !.position = q, !.cycle = cycle], q, cycle, state.rows)
         /\ StateIs(Close(state, cycle, id), state.position, NoCycle, more)
         /\ StateIs([Close(state, cycle, id) EXCEPT !.position = q], q, NoCycle, more)
         /\ StateIs([Close(state, cycle, id) EXCEPT !.cycle = other], state.position, other, more)
         /\ StateIs([[Close(state, cycle, id) EXCEPT !.position = q] EXCEPT !.cycle = other],
                    q, other, more)
  <1> DEFINE more == state.rows \cup {Finished(cycle, id)}
             closed == Close(state, cycle, id)
  <1>1. StateIs([state EXCEPT !.cycle = cycle], state.position, cycle, state.rows)
    BY DEF State, StateIs
  <1>2. StateIs([state EXCEPT !.position = q, !.cycle = cycle], q, cycle, state.rows)
    BY DEF State, StateIs
  <1>3. StateIs(closed, state.position, NoCycle, more)
    BY NoCycleType DEF State, StateIs, Close
  <1> HIDE DEF closed
  <1>4. /\ StateIs([closed EXCEPT !.position = q], q, NoCycle, more)
        /\ StateIs([closed EXCEPT !.cycle = other], state.position, other, more)
    BY <1>3 DEF State, StateIs
  <1>5. StateIs([[closed EXCEPT !.position = q] EXCEPT !.cycle = other], q, other, more)
    BY <1>4 DEF State, StateIs
  <1> QED
    BY <1>1, <1>2, <1>3, <1>4, <1>5 DEF closed

(***************************************************************************)
(* What the three reconstructions have in common: the cycle under way is   *)
(* that of a position p, and a trade moves the position. Binance's hedge   *)
(* mode knows no position: there p is what it believes.                    *)
(***************************************************************************)
Tracks(cycle, p) ==
    IF p = 0 THEN cycle = NoCycle
    ELSE /\ cycle \in Cycle /\ cycle.side = SideOf(p) /\ cycle.size = Abs(p)
         /\ cycle.max >= Abs(p) /\ cycle.closed \in Nat

\* from `state', whose cycle is taken for c, to `new': the position was p and is q
Moved(state, c, new, p, q, id) ==
    /\ new \in State
    /\ new.rows =
          IF p = 0 \/ Same(p, q) THEN state.rows
          ELSE state.rows \cup {[id |-> id, side |-> SideOf(p), complete |-> c.complete,
                                 max |-> c.max, closed |-> c.closed + Abs(p)]}
    /\ IF q = 0 THEN new.cycle = NoCycle
       ELSE IF Same(p, q)
       THEN CycleIs(new.cycle, SideOf(p), c.complete, Abs(q), Most(c.max, Abs(q)),
                    c.closed + IF Abs(q) < Abs(p) THEN Abs(p) - Abs(q) ELSE 0)
       ELSE CycleIs(new.cycle, SideOf(q), TRUE, Abs(q), Abs(q), 0)

LEMMA MovedTracks ==
  ASSUME NEW state, NEW c, NEW new, NEW p \in Int, NEW q \in Int, NEW id,
         Tracks(c, p), Moved(state, c, new, p, q, id)
  PROVE  Tracks(new.cycle, q)
  <1>1. CASE q = 0
    BY <1>1 DEF Moved, Tracks
  <1>2. CASE q # 0 /\ Same(p, q)
    <2>1. c.max >= Abs(p) /\ c.closed \in Nat /\ c.max \in Int /\ p # 0
      BY <1>2 DEF Tracks, Same, Cycle
    <2>2. SideOf(p) = SideOf(q) /\ Abs(p) \in Nat /\ Abs(q) \in Nat
      BY <1>2 DEF SideOf, Same, Abs
    <2>3. Most(c.max, Abs(q)) >= Abs(q)
      BY <2>1, <2>2 DEF Most
    <2>4. (c.closed + IF Abs(q) < Abs(p) THEN Abs(p) - Abs(q) ELSE 0) \in Nat
      BY <2>1, <2>2
    <2> QED
      BY <1>2, <2>2, <2>3, <2>4 DEF Moved, Tracks, CycleIs
  <1>3. CASE q # 0 /\ ~Same(p, q)
    <2>1. Abs(q) >= Abs(q)
      BY Arithmetic
    <2> QED
      BY <1>3, <2>1 DEF Moved, Tracks, CycleIs
  <1> QED
    BY <1>1, <1>2, <1>3

\* the row that a close adds
LEMMA ClosedRow ==
  ASSUME NEW c, NEW p \in Int \ {0}, Tracks(c, p), NEW id \in Nat, NEW less \in Cycle,
         CycleIs(less, SideOf(p), c.complete, less.size, c.max, c.closed + Abs(p))
  PROVE  /\ Finished(less, id) \in Row
         /\ Finished(less, id) =
                [id |-> id, side |-> SideOf(p), complete |-> c.complete,
                 max |-> c.max, closed |-> c.closed + Abs(p)]
  <1>1. less.side \in {"LONG", "SHORT"} /\ less.max \in Nat \ {0} /\ less.closed \in Nat \ {0}
    <2>1. Abs(p) \in Nat \ {0} /\ SideOf(p) \in {"LONG", "SHORT"}
      BY DEF Abs, SideOf
    <2>2. c.max \in Int /\ c.max >= Abs(p) /\ c.closed \in Nat
      BY DEF Tracks, Cycle
    <2> QED
      BY <2>1, <2>2 DEF CycleIs
  <1>2. Finished(less, id) \in Row
    BY <1>1, FinishedRow
  <1> QED
    BY <1>2 DEF Finished, CycleIs

LEMMA OneWayMoves ==
  ASSUME NEW state \in State, NEW row, IsTrade(row), Tracks(state.cycle, state.position)
  PROVE  /\ OneWayStep(state, row).position = state.position + row.delta
         /\ Moved(state, state.cycle, OneWayStep(state, row), state.position,
                  state.position + row.delta, row.id)
  <1> DEFINE p == state.position
             d == row.delta
             q == p + d
             c == state.cycle
             less == Shrunk(c, Least(Abs(p), Abs(d)))
             new == OneWayStep(state, row)
  <1>1. /\ p \in Int /\ d \in Int /\ d # 0 /\ q \in Int /\ row.id \in Nat /\ c \in Cycle
        /\ Abs(p) \in Nat /\ Abs(d) \in Nat /\ Abs(q) \in Nat
        /\ SideOf(p) \in {"LONG", "SHORT"} /\ SideOf(q) \in {"LONG", "SHORT"}
        /\ SideOf(d) \in {"LONG", "SHORT"}
    BY Arithmetic DEF State, IsTrade
  <1>2. CycleIs(less, c.side, c.complete, c.size - Least(Abs(p), Abs(d)), c.max,
                c.closed + Least(Abs(p), Abs(d)))
    <2>1. Least(Abs(p), Abs(d)) \in Int
      BY <1>1 DEF Least
    <2> QED
      BY <1>1, <2>1, ShrunkIs
  <1>3. CASE p * d >= 0
    <2> DEFINE old == IF c = NoCycle THEN NewCycle(SideOf(d), TRUE, 0) ELSE c
               more == Grown(old, Abs(d))
    <2>1. p = 0 \/ Same(p, q)
      BY <1>1, <1>3, Signs DEF Same
    <2>2. old \in Cycle
      <3>1. CycleIs(NewCycle(SideOf(d), TRUE, 0), SideOf(d), TRUE, 0, 0, 0)
        BY <1>1, NewCycleIs, 0 \in Int, Zenon
      <3> QED
        BY <1>1, <3>1 DEF CycleIs
    <2>3. CycleIs(more, old.side, old.complete, old.size + Abs(d),
                  Most(old.max, old.size + Abs(d)), old.closed)
      <3> HIDE DEF old
      <3> QED
        BY <1>1, <2>2, GrownIs
    <2>4. new = [state EXCEPT !.position = q, !.cycle = more]
      BY <1>3 DEF OneWayStep
    <2>5. StateIs(new, q, more, state.rows)
      <3>1. more \in Cycle
        BY <2>3 DEF CycleIs
      <3> HIDE DEF more, q
      <3> QED
        BY <1>1, <2>4, <3>1 DEF State, StateIs
    <2>6. CASE p = 0
      <3>1. CycleIs(old, SideOf(d), TRUE, 0, 0, 0)
        BY <2>6, <1>1, NewCycleIs DEF Tracks
      <3>2. CycleIs(more, SideOf(q), TRUE, Abs(q), Abs(q), 0)
        <4>1. q = d /\ Most(0, 0 + Abs(d)) = Abs(d) /\ 0 + Abs(d) = Abs(d)
          BY <1>1, <2>6 DEF Most
        <4> QED
          BY <2>3, <3>1, <4>1 DEF CycleIs
      <3>3. q # 0 /\ ~Same(p, q)
        BY <1>1, <2>6 DEF Same
      <3> QED
        BY <2>5, <2>6, <3>2, <3>3 DEF StateIs, Moved
    <2>7. CASE p # 0
      <3>1. c # NoCycle /\ c.side = SideOf(p) /\ c.size = Abs(p)
        BY <2>7, <1>1 DEF Tracks, NoCycle
      <3>2. Abs(p) + Abs(d) = Abs(q) /\ ~(Abs(q) < Abs(p)) /\ q # 0
        BY <1>1, <1>3, <2>7, Signs DEF Abs
      <3>3. CycleIs(more, SideOf(p), c.complete, Abs(q), Most(c.max, Abs(q)), c.closed + 0)
        <4>1. c.closed + 0 = c.closed
          BY <1>1 DEF Cycle
        <4> QED
          BY <2>3, <3>1, <3>2, <4>1 DEF CycleIs
      <3> QED
        BY <2>1, <2>5, <2>7, <3>2, <3>3 DEF StateIs, Moved
    <2> QED
      BY <2>6, <2>7
  <1>4. CASE ~(p * d >= 0)
    <2>1. p # 0 /\ p * d < 0
      BY <1>1, <1>4, Signs
    <2>2. c.side = SideOf(p) /\ c.size = Abs(p) /\ c.max \in Int /\ c.max >= Abs(p)
          /\ c.closed \in Nat
      BY <1>1, <2>1 DEF Tracks, Cycle
    <2>3. CASE p * q > 0
      <3>1. Same(p, q) /\ q # 0 /\ Abs(q) < Abs(p)
            /\ Least(Abs(p), Abs(d)) = Abs(p) - Abs(q) /\ Abs(p) - (Abs(p) - Abs(q)) = Abs(q)
            /\ Most(c.max, Abs(q)) = c.max
        BY <1>1, <2>1, <2>2, <2>3, Signs DEF Same, Abs, Least, Most
      <3>2. new = [state EXCEPT !.position = q, !.cycle = less]
        BY <1>4, <2>3 DEF OneWayStep
      <3>3. StateIs(new, q, less, state.rows)
        <4>1. less \in Cycle
          BY <1>2 DEF CycleIs
        <4> HIDE DEF less, q
        <4> QED
          BY <1>1, <3>2, <4>1 DEF State, StateIs
      <3> HIDE DEF new, less
      <3>4. CycleIs(new.cycle, SideOf(p), c.complete, Abs(q), Most(c.max, Abs(q)),
                    c.closed + (Abs(p) - Abs(q)))
        BY <1>2, <2>2, <3>1, <3>3 DEF StateIs, CycleIs
      <3> QED
        BY <3>1, <3>3, <3>4 DEF StateIs, Moved, new
    <2>4. CASE ~(p * q > 0)
      <3>1. ~Same(p, q) /\ Least(Abs(p), Abs(d)) = Abs(p)
        BY <1>1, <2>1, <2>4, Signs DEF Same, Abs, Least
      <3> DEFINE done == [id |-> row.id, side |-> SideOf(p), complete |-> c.complete,
                          max |-> c.max, closed |-> c.closed + Abs(p)]
                 ended == [Close(state, less, row.id) EXCEPT !.position = q]
                 begun == NewCycle(SideOf(q), TRUE, Abs(q))
      <3>2. Finished(less, row.id) \in Row /\ Finished(less, row.id) = done
        <4>1. CycleIs(less, SideOf(p), c.complete, less.size, c.max, c.closed + Abs(p))
          BY <1>2, <2>2, <3>1 DEF CycleIs
        <4>2. less \in Cycle
          BY <1>2 DEF CycleIs
        <4> HIDE DEF less
        <4> QED
          BY <1>1, <2>1, <4>1, <4>2, ClosedRow
      <3>3. CycleIs(begun, SideOf(q), TRUE, Abs(q), Abs(q), 0)
        <4>1. SideOf(q) \in {"LONG", "SHORT"} /\ Abs(q) \in Int
          BY <1>1
        <4> QED
          BY <4>1, NewCycleIs, Zenon
      <3>4. /\ StateIs(ended, q, NoCycle, state.rows \cup {Finished(less, row.id)})
            /\ StateIs([ended EXCEPT !.cycle = begun], q, begun,
                       state.rows \cup {Finished(less, row.id)})
        <4>1. less \in Cycle /\ begun \in Cycle
          BY <1>2, <3>3 DEF CycleIs
        <4> HIDE DEF less, begun, q
        <4> QED
          BY <1>1, <3>2, <4>1, StateParts
      <3>5. new = IF q = 0 THEN ended ELSE [ended EXCEPT !.cycle = begun]
        BY <1>4, <2>4 DEF OneWayStep
      <3> HIDE DEF new, ended, begun, less
      <3>6. CASE q = 0
        BY <2>1, <3>1, <3>2, <3>4, <3>5, <3>6 DEF StateIs, Moved, new
      <3>7. CASE q # 0
        BY <2>1, <3>1, <3>2, <3>3, <3>4, <3>5, <3>7 DEF StateIs, Moved, new
      <3> QED
        BY <3>6, <3>7
    <2> QED
      BY <2>3, <2>4
  <1> QED
    BY <1>3, <1>4

\* the positions a hedge account can have under k
OfSide(k, p) == IF k = "LONG" THEN p >= 0 ELSE p <= 0

LEMMA HedgeMoves ==
  ASSUME NEW k \in {"LONG", "SHORT"}, NEW state \in State, NEW row, IsTrade(row),
         NEW p \in Int, OfSide(k, p), Tracks(state.cycle, p)
  PROVE  \E c : \E o, q \in Int :
            /\ OfSide(k, o) /\ OfSide(k, q) /\ Tracks(c, o)
            /\ Moved(state, c, HedgeStep(k, state, row), o, q, row.id)
            /\ o # 0 /\ ~Same(o, q) => SideOf(o) = SideOf(-row.delta)
            /\ OfSide(k, p + row.delta) => c = state.cycle /\ o = p /\ q = p + row.delta
  <1> DEFINE d == row.delta
             opens == SideOf(d) = k
             cycle == IF state.cycle # NoCycle THEN state.cycle
                      ELSE NewCycle(k, opens, IF opens THEN 0 ELSE Abs(d))
             less == Shrunk(cycle, Least(Abs(d), cycle.size))
             new == HedgeStep(k, state, row)
  <1>1. /\ d \in Int /\ d # 0 /\ row.id \in Nat /\ state.cycle \in Cycle
        /\ state.position \in Int /\ Abs(p) \in Nat /\ Abs(d) \in Nat \ {0} /\ Abs(d) \in Int
    BY Arithmetic DEF State, IsTrade
  <1>2. p # 0 => /\ SideOf(p) = k /\ state.cycle # NoCycle /\ state.cycle.size = Abs(p)
                 /\ state.cycle.side = k /\ state.cycle.max >= Abs(p) /\ state.cycle.max \in Int
                 /\ state.cycle.closed \in Nat
    BY <1>1 DEF OfSide, SideOf, Tracks, NoCycle, Cycle
  <1>3. p = 0 => state.cycle = NoCycle
    BY DEF Tracks
  <1>4. CASE opens
    <2> DEFINE q == p + d
               more == Grown(cycle, Abs(d))
    <2>1. OfSide(k, q) /\ q # 0 /\ q \in Int /\ (p # 0 => Same(p, q)) /\ (p = 0 => ~Same(p, q))
          /\ Abs(q) = Abs(p) + Abs(d) /\ ~(Abs(q) < Abs(p)) /\ SideOf(q) = k /\ Abs(q) \in Int
      BY <1>1, <1>4 DEF OfSide, SideOf, Same, Abs
    <2>2. CASE p = 0
      <3>1. cycle = NewCycle(k, TRUE, 0)
        <4>1. opens = TRUE
          BY <1>4
        <4> HIDE DEF opens
        <4> QED
          BY <1>3, <1>4, <2>2, <4>1
      <3>2. CycleIs(cycle, k, TRUE, 0, 0, 0)
        <4>1. CycleIs(NewCycle(k, TRUE, 0), k, TRUE, 0, 0, 0)
          BY NewCycleIs, 0 \in Int, Zenon
        <4> HIDE DEF cycle
        <4> QED
          BY <3>1, <4>1
      <3> HIDE DEF cycle
      <3>3. CycleIs(more, k, TRUE, Abs(q), Abs(q), 0)
        <4>1. 0 + Abs(d) = Abs(q) /\ Most(0, Abs(q)) = Abs(q)
          BY <1>1, <2>1, <2>2 DEF Most, Abs
        <4>2. cycle \in Cycle /\ cycle.side = k /\ cycle.complete = TRUE /\ cycle.size = 0
              /\ cycle.max = 0 /\ cycle.closed = 0
          BY <3>2 DEF CycleIs
        <4>3. CycleIs(more, cycle.side, cycle.complete, cycle.size + Abs(d),
                      Most(cycle.max, cycle.size + Abs(d)), cycle.closed)
          BY <1>1, <4>2, GrownIs
        <4> HIDE DEF more, q
        <4> QED
          BY <4>1, <4>2, <4>3
      <3>4. new = [state EXCEPT !.cycle = more]
        BY <1>4 DEF HedgeStep, cycle
      <3> HIDE DEF more
      <3>5. StateIs(new, state.position, more, state.rows)
        <4>1. more \in Cycle
          BY <3>3 DEF CycleIs
        <4> QED
          BY <3>4, <4>1 DEF State, StateIs
      <3> HIDE DEF new, q
      <3>6. Moved(state, state.cycle, new, p, q, row.id)
        BY <2>1, <2>2, <3>3, <3>5 DEF StateIs, Moved
      <3> QED
        BY <2>1, <2>2, <3>6 DEF new, q
    <2>3. CASE p # 0
      <3>1. cycle = state.cycle
        BY <1>2, <2>3
      <3> HIDE DEF cycle
      <3>3. CycleIs(more, SideOf(p), state.cycle.complete, Abs(q), Most(state.cycle.max, Abs(q)),
                    state.cycle.closed + 0)
        <4>1. state.cycle.closed + 0 = state.cycle.closed
          BY <1>2, <2>3
        <4> QED
          <5>1. CycleIs(more, cycle.side, cycle.complete, cycle.size + Abs(d),
                        Most(cycle.max, cycle.size + Abs(d)), cycle.closed)
            BY <1>1, <3>1, GrownIs
          <5>2. cycle.size + Abs(d) = Abs(q) /\ cycle.side = SideOf(p)
            BY <1>1, <1>2, <2>1, <2>3, <3>1
          <5> HIDE DEF more, q
          <5> QED
            BY <3>1, <4>1, <5>1, <5>2
      <3>4. new = [state EXCEPT !.cycle = more]
        BY <1>4 DEF HedgeStep, cycle
      <3> HIDE DEF more
      <3>5. StateIs(new, state.position, more, state.rows)
        <4>1. more \in Cycle
          BY <3>3 DEF CycleIs
        <4> QED
          BY <3>4, <4>1 DEF State, StateIs
      <3> HIDE DEF new, q
      <3>6. Moved(state, state.cycle, new, p, q, row.id)
        BY <2>1, <2>3, <3>3, <3>5 DEF StateIs, Moved
      <3>7. ~(p # 0 /\ ~Same(p, q))
        BY <2>1, <2>3
      <3> QED
        BY <2>1, <2>3, <3>6, <3>7 DEF new, q
    <2> QED
      BY <2>2, <2>3
  <1>5. CASE ~opens
    \* the position it takes from: of the size of the trade when it knows none
    <2> DEFINE o == IF p = 0 THEN -d ELSE p
               q == IF Abs(d) < Abs(o) THEN o + d ELSE 0
    <2>1. /\ o \in Int /\ o # 0 /\ q \in Int /\ OfSide(k, o) /\ OfSide(k, q)
          /\ SideOf(o) = k /\ SideOf(o) = SideOf(-d)
          /\ Abs(o) \in Nat \ {0} /\ Abs(q) \in Nat /\ Abs(o) \in Int
          /\ OfSide(k, p + d) => o = p /\ q = p + d
          /\ IF Abs(d) < Abs(o) THEN Same(o, q) /\ Abs(q) = Abs(o) - Abs(d) /\ q # 0
             ELSE ~Same(o, q) /\ q = 0
      BY <1>1, <1>5 DEF OfSide, SideOf, Same, Abs
    <2>2. CycleIs(cycle, k, cycle.complete, Abs(o), cycle.max, cycle.closed)
          /\ cycle.max >= Abs(o) /\ cycle.closed \in Nat
      <3>1. CASE p = 0
        <4>1. cycle = NewCycle(k, FALSE, Abs(d))
          <5>1. opens = FALSE
            BY <1>5
          <5> HIDE DEF opens
          <5> QED
            BY <1>3, <1>5, <3>1, <5>1
        <4>2. CycleIs(cycle, k, FALSE, Abs(d), Abs(d), 0)
          <5>1. CycleIs(NewCycle(k, FALSE, Abs(d)), k, FALSE, Abs(d), Abs(d), 0)
            BY <1>1, NewCycleIs, Zenon
          <5> HIDE DEF cycle
          <5> QED
            BY <4>1, <5>1
        <4>3. Abs(o) = Abs(d)
          BY <1>1, <3>1 DEF Abs
        <4> HIDE DEF cycle, o
        <4> QED
          BY <1>1, <4>2, <4>3 DEF CycleIs
      <3>2. CASE p # 0
        BY <1>1, <1>2, <3>2 DEF CycleIs, Cycle
      <3> QED
        BY <3>1, <3>2
    <2>3. OfSide(k, p + d) => cycle = state.cycle
      BY <1>1, <1>2, <1>5 DEF OfSide, SideOf
    <2> HIDE DEF cycle
    <2>4. Tracks(cycle, o) /\ cycle \in Cycle
      BY <2>1, <2>2 DEF Tracks, CycleIs
    <2>5. CycleIs(less, k, cycle.complete, Abs(o) - Least(Abs(d), Abs(o)), cycle.max,
                  cycle.closed + Least(Abs(d), Abs(o)))
      <3>1. cycle.size = Abs(o) /\ cycle.side = k /\ Least(Abs(d), Abs(o)) \in Int
        BY <1>1, <2>1, <2>2 DEF CycleIs, Least
      <3> QED
        BY <2>4, <3>1, ShrunkIs
    <2>6. new = IF less.size > 0 THEN [state EXCEPT !.cycle = less]
                ELSE Close(state, less, row.id)
      BY <1>5 DEF HedgeStep, cycle
    <2>7. less \in Cycle
      BY <2>5 DEF CycleIs
    <2> HIDE DEF less, o, q
    <2>8. Moved(state, cycle, new, o, q, row.id)
      <3>1. CASE Abs(d) < Abs(o)
        <4>1. Least(Abs(d), Abs(o)) = Abs(d) /\ less.size > 0 /\ less.size = Abs(q)
              /\ Most(cycle.max, Abs(q)) = cycle.max
              /\ Abs(q) < Abs(o) /\ Abs(d) = Abs(o) - Abs(q)
          BY <1>1, <2>1, <2>2, <2>5, <3>1 DEF Least, Most, CycleIs, Cycle
        <4>2. StateIs(new, state.position, less, state.rows)
          BY <2>6, <2>7, <4>1 DEF State, StateIs
        <4>3. CycleIs(less, SideOf(o), cycle.complete, Abs(q), Most(cycle.max, Abs(q)),
                      cycle.closed + (Abs(o) - Abs(q)))
          BY <2>1, <2>5, <4>1 DEF CycleIs
        <4> HIDE DEF new
        <4> QED
          BY <2>1, <3>1, <4>1, <4>2, <4>3 DEF StateIs, Moved
      <3>2. CASE ~(Abs(d) < Abs(o))
        <4>1. Least(Abs(d), Abs(o)) = Abs(o) /\ ~(less.size > 0)
          BY <1>1, <2>1, <2>5, <3>2 DEF Least, CycleIs
        <4>2. /\ Finished(less, row.id) \in Row
              /\ Finished(less, row.id) =
                    [id |-> row.id, side |-> SideOf(o), complete |-> cycle.complete,
                     max |-> cycle.max, closed |-> cycle.closed + Abs(o)]
          <5>1. CycleIs(less, SideOf(o), cycle.complete, less.size, cycle.max,
                        cycle.closed + Abs(o))
            BY <2>1, <2>5, <4>1 DEF CycleIs
          <5> QED
            BY <1>1, <2>1, <2>4, <2>7, <5>1, ClosedRow
        <4>3. StateIs(new, state.position, NoCycle, state.rows \cup {Finished(less, row.id)})
          <5>1. new = Close(state, less, row.id)
            BY <2>6, <4>1
          <5> HIDE DEF new
          <5> QED
            BY <1>1, <2>7, <4>2, <5>1, StateParts
        <4> HIDE DEF new
        <4> QED
          BY <2>1, <3>2, <4>2, <4>3 DEF StateIs, Moved
      <3> QED
        BY <3>1, <3>2
    <2> QED
      BY <2>1, <2>3, <2>4, <2>8
  <1> QED
    BY <1>4, <1>5

\* the cycle a fill of Hyperliquid is taken to belong to
Joined(cycle, p) ==
    IF p # 0 /\ cycle = NoCycle THEN NewCycle(SideOf(p), FALSE, Abs(p)) ELSE cycle

LEMMA HyperliquidMoves ==
  ASSUME NEW state \in State, NEW fill, IsTrade(fill), fill.before \in Int,
         state.cycle = NoCycle \/ Tracks(state.cycle, fill.before)
  PROVE  /\ Tracks(Joined(state.cycle, fill.before), fill.before)
         /\ Moved(state, Joined(state.cycle, fill.before), HyperliquidStep(state, fill),
                  fill.before, fill.before + fill.delta, fill.id)
  <1> DEFINE p == fill.before
             d == fill.delta
             q == p + d
             unseen == \/ state.cycle = NoCycle
                       \/ p * d < 0 /\ state.cycle.side # SideOf(p)
             seen == IF p # 0 /\ unseen
                     THEN NewCycle(SideOf(p), FALSE, Abs(p)) ELSE state.cycle
             shrunk == Shrunk(seen, Least(Abs(p), Abs(d)))
             less == [shrunk EXCEPT !.max = Most(@, Abs(p))]
             ended == Close(state, less, fill.id)
             opened == IF seen.side = SideOf(q) THEN seen ELSE NewCycle(SideOf(q), TRUE, 0)
             more == [opened EXCEPT !.max = Most(@, Abs(q)), !.size = Abs(q)]
             new == HyperliquidStep(state, fill)
  <1>1. /\ d \in Int /\ d # 0 /\ p \in Int /\ q \in Int /\ fill.id \in Nat
        /\ state.cycle \in Cycle /\ state.position \in Int
        /\ Abs(p) \in Nat /\ Abs(d) \in Nat \ {0} /\ Abs(q) \in Nat
        /\ SideOf(p) \in {"LONG", "SHORT"} /\ SideOf(q) \in {"LONG", "SHORT"}
    BY Arithmetic DEF State, IsTrade
  <1>2. /\ NewCycle(SideOf(p), FALSE, Abs(p)) \in Cycle
        /\ p # 0 => Tracks(NewCycle(SideOf(p), FALSE, Abs(p)), p)
    <2>1. CycleIs(NewCycle(SideOf(p), FALSE, Abs(p)), SideOf(p), FALSE, Abs(p), Abs(p), 0)
      <3>1. SideOf(p) \in {"LONG", "SHORT"} /\ Abs(p) \in Int
        BY <1>1
      <3> QED
        BY <3>1, NewCycleIs, Zenon
    <2>2. Abs(p) >= Abs(p) /\ 0 \in Nat
      BY <1>1
    <2> QED
      BY <2>1, <2>2 DEF CycleIs, Tracks
  <1>3. seen = Joined(state.cycle, p)
    <2>1. p # 0 => (unseen <=> state.cycle = NoCycle)
      BY DEF Tracks
    <2> HIDE DEF unseen
    <2> QED
      BY <2>1 DEF Joined
  <1>4. Tracks(seen, p) /\ seen \in Cycle
    BY <1>1, <1>2, <1>3 DEF Joined, Tracks
  <1>5. new = IF p * d >= 0 THEN [state EXCEPT !.cycle = more]
              ELSE IF p * q > 0 THEN [state EXCEPT !.cycle = less]
              ELSE IF q = 0 THEN ended ELSE [ended EXCEPT !.cycle = more]
    BY DEF HyperliquidStep
  <1> SUFFICES Moved(state, seen, new, p, q, fill.id)
    BY <1>3, <1>4
  <1> HIDE DEF seen, new
  <1>6. CycleIs(shrunk, seen.side, seen.complete, seen.size - Least(Abs(p), Abs(d)), seen.max,
                seen.closed + Least(Abs(p), Abs(d)))
    <2>1. Least(Abs(p), Abs(d)) \in Int
      BY <1>1 DEF Least
    <2> QED
      BY <1>4, <2>1, ShrunkIs
  <1>7. p # 0 => CycleIs(less, SideOf(p), seen.complete, Abs(p) - Least(Abs(p), Abs(d)), seen.max,
                         seen.closed + Least(Abs(p), Abs(d)))
    <2> SUFFICES ASSUME p # 0
                 PROVE  CycleIs(less, SideOf(p), seen.complete, Abs(p) - Least(Abs(p), Abs(d)),
                                seen.max, seen.closed + Least(Abs(p), Abs(d)))
      OBVIOUS
    <2>1. seen.side = SideOf(p) /\ seen.size = Abs(p) /\ Most(seen.max, Abs(p)) = seen.max
          /\ seen.max \in Int
      BY <1>1, <1>4 DEF Tracks, Most, Cycle
    <2>2. shrunk \in Cycle /\ shrunk.max = seen.max
      BY <1>6 DEF CycleIs
    <2> HIDE DEF shrunk
    <2>3. less \in Cycle
      BY <2>1, <2>2 DEF Cycle
    <2> QED
      BY <1>6, <2>1, <2>2, <2>3 DEF CycleIs, Cycle
  <1>8. opened \in Cycle
    <2>1. CycleIs(NewCycle(SideOf(q), TRUE, 0), SideOf(q), TRUE, 0, 0, 0)
      BY <1>1, NewCycleIs, 0 \in Int, Zenon
    <2> QED
      BY <1>4, <2>1 DEF CycleIs
  <1>9. more \in Cycle /\ more.side = opened.side /\ more.complete = opened.complete
        /\ more.size = Abs(q) /\ more.max = Most(opened.max, Abs(q))
        /\ more.closed = opened.closed
    <2> HIDE DEF opened
    <2>1. Most(opened.max, Abs(q)) \in Int /\ Abs(q) \in Int
      BY <1>1, <1>8 DEF Most, Cycle
    <2>2. \A max, size \in Int : [opened EXCEPT !.max = max, !.size = size] \in Cycle
      BY <1>8 DEF Cycle
    <2>3. more \in Cycle
      BY <2>1, <2>2
    <2> QED
      BY <1>8, <2>1, <2>3 DEF Cycle
  <1>10. ASSUME p = 0 \/ ~Same(p, q), q # 0
         PROVE  CycleIs(more, SideOf(q), TRUE, Abs(q), Abs(q), 0)
    <2>1. opened = NewCycle(SideOf(q), TRUE, 0)
      <3>1. p # 0 => seen.side # SideOf(q)
        BY <1>1, <1>4, <1>10 DEF Tracks, Same, SideOf
      <3>2. p = 0 => seen.side # SideOf(q)
        BY <1>1, <1>4 DEF Tracks, NoCycle
      <3> QED
        BY <3>1, <3>2
    <2>2. CycleIs(NewCycle(SideOf(q), TRUE, 0), SideOf(q), TRUE, 0, 0, 0)
      BY <1>1, NewCycleIs, 0 \in Int, Zenon
    <2>3. Most(0, Abs(q)) = Abs(q)
      BY <1>1 DEF Most
    <2> HIDE DEF more, opened
    <2> QED
      BY <1>9, <2>1, <2>2, <2>3 DEF CycleIs
  <1>11. CASE p * d >= 0
    <2>0. p = 0 \/ Same(p, d)
      BY <1>1, <1>11, Signs DEF Same
    <2>1. (p = 0 \/ Same(p, q)) /\ q # 0 /\ (p = 0 => ~Same(p, q))
          /\ (p # 0 => ~(Abs(q) < Abs(p)) /\ SideOf(p) = SideOf(q))
      BY <1>1, <2>0 DEF Same, Abs, SideOf
    <2>2. StateIs(new, state.position, more, state.rows)
      <3>1. new = [state EXCEPT !.cycle = more]
        BY <1>5, <1>11
      <3> HIDE DEF more
      <3> QED
        BY <1>9, <3>1 DEF State, StateIs
    <2>3. CASE p = 0
      <3>1. CycleIs(more, SideOf(q), TRUE, Abs(q), Abs(q), 0)
        BY <1>10, <2>1, <2>3
      <3> HIDE DEF more, q
      <3> QED
        BY <1>3, <1>4, <2>1, <2>2, <2>3, <3>1 DEF StateIs, Moved
    <2>4. CASE p # 0
      <3>1. opened = seen
        BY <1>4, <2>1, <2>4 DEF Tracks
      <3>2. seen.closed + 0 = seen.closed
        BY <1>4 DEF Cycle
      <3>3. CycleIs(more, SideOf(p), seen.complete, Abs(q), Most(seen.max, Abs(q)),
                    seen.closed + 0)
        <4>1. seen.side = SideOf(p)
          BY <1>4, <2>4 DEF Tracks
        <4> HIDE DEF more, opened
        <4> QED
          BY <1>9, <3>1, <3>2, <4>1 DEF CycleIs
      <3> HIDE DEF more, q
      <3> QED
        BY <1>3, <1>4, <2>1, <2>2, <2>4, <3>3 DEF StateIs, Moved
    <2> QED
      BY <2>3, <2>4
  <1>12. CASE ~(p * d >= 0)
    <2>0. p * d < 0
      BY <1>1, <1>12, Signs
    <2>1. p # 0 /\ ~Same(p, d)
      BY <1>1, <2>0, Signs DEF Same
    <2>2. CASE p * q > 0
      <3>1. Same(p, q) /\ q # 0 /\ Abs(q) < Abs(p)
            /\ Least(Abs(p), Abs(d)) = Abs(p) - Abs(q) /\ Abs(p) - (Abs(p) - Abs(q)) = Abs(q)
        BY <1>1, <2>1, <2>2, Signs DEF Same, Abs, Least
      <3>2. Most(seen.max, Abs(q)) = seen.max
        BY <1>1, <1>4, <2>1, <3>1 DEF Tracks, Most, Cycle
      <3>3. StateIs(new, state.position, less, state.rows)
        <4>1. less \in Cycle
          BY <1>7, <2>1 DEF CycleIs
        <4>2. new = [state EXCEPT !.cycle = less]
          BY <1>5, <1>12, <2>2
        <4> HIDE DEF less
        <4> QED
          BY <4>1, <4>2 DEF State, StateIs
      <3> HIDE DEF less, q
      <3> QED
        BY <1>3, <1>4, <1>7, <2>1, <3>1, <3>2, <3>3 DEF StateIs, Moved
    <2>3. CASE ~(p * q > 0)
      <3>1. ~Same(p, q) /\ Least(Abs(p), Abs(d)) = Abs(p)
        BY <1>1, <2>1, <2>3, Signs DEF Same, Abs, Least
      <3>2. /\ less \in Cycle /\ Finished(less, fill.id) \in Row
            /\ Finished(less, fill.id) =
                  [id |-> fill.id, side |-> SideOf(p), complete |-> seen.complete,
                   max |-> seen.max, closed |-> seen.closed + Abs(p)]
        <4>1. CycleIs(less, SideOf(p), seen.complete, less.size, seen.max,
                      seen.closed + Abs(p)) /\ less \in Cycle
          BY <1>7, <2>1, <3>1 DEF CycleIs
        <4> HIDE DEF less
        <4> QED
          BY <1>1, <1>4, <2>1, <4>1, ClosedRow
      <3>3. /\ StateIs(ended, state.position, NoCycle, state.rows \cup {Finished(less, fill.id)})
            /\ StateIs([ended EXCEPT !.cycle = more], state.position, more,
                       state.rows \cup {Finished(less, fill.id)})
        <4> HIDE DEF less, more
        <4> QED
          BY <1>1, <1>9, <3>2, StateParts
      <3>4. new = IF q = 0 THEN ended ELSE [ended EXCEPT !.cycle = more]
        BY <1>5, <1>12, <2>3
      <3> HIDE DEF ended, less, more, q
      <3>5. CASE q = 0
        BY <1>3, <1>4, <2>1, <3>1, <3>2, <3>3, <3>4, <3>5 DEF StateIs, Moved
      <3>6. CASE q # 0
        BY <1>3, <1>4, <1>10, <2>1, <3>1, <3>2, <3>3, <3>4, <3>6 DEF StateIs, Moved
      <3> QED
        BY <3>5, <3>6
    <2> QED
      BY <2>2, <2>3
  <1> QED
    BY <1>11, <1>12

(***************************************************************************)
(* Runs. r[n] is what a reconstruction has made of the trades until n.     *)
(***************************************************************************)
IsRun(r, mode, k, trades, to) ==
    /\ r = [n \in 0 .. to |-> r[n]] /\ r[0] = Start
    /\ \A n \in 1 .. to :
          r[n] = IF n \in DOMAIN trades THEN Step(mode, k, r[n - 1], trades[n]) ELSE r[n - 1]

LEMMA RunExists ==
  ASSUME NEW mode, NEW k, NEW trades, NEW to \in Nat
  PROVE  \E r : IsRun(r, mode, k, trades, to)
  <1> DEFINE T == {m \in 0 .. to : \E r : IsRun(r, mode, k, trades, m)}
  <1>1. 0 \in T
    <2>1. IsRun([m \in 0 .. 0 |-> Start], mode, k, trades, 0)
      BY DEF IsRun
    <2> QED
      BY <2>1
  <1>2. ASSUME NEW m \in 0 .. to - 1, m \in T PROVE m + 1 \in T
    <2>1. PICK r : IsRun(r, mode, k, trades, m)
      BY <1>2
    <2> DEFINE next == IF m + 1 \in DOMAIN trades THEN Step(mode, k, r[m], trades[m + 1])
                       ELSE r[m]
    <2> HIDE DEF next
    <2> DEFINE q == [i \in 0 .. m + 1 |-> IF i = m + 1 THEN next ELSE r[i]]
    <2>2. q[0] = Start /\ q = [n \in 0 .. m + 1 |-> q[n]]
      BY <2>1 DEF IsRun
    <2>3. ASSUME NEW i \in 1 .. m + 1
          PROVE  q[i] = IF i \in DOMAIN trades THEN Step(mode, k, q[i - 1], trades[i])
                        ELSE q[i - 1]
      <3>1. CASE i = m + 1
        <4>1. q[i] = next /\ q[i - 1] = r[m]
          BY <3>1
        <4> HIDE DEF q
        <4> QED
          BY <3>1, <4>1 DEF next
      <3>2. CASE i # m + 1
        <4>1. q[i] = r[i] /\ q[i - 1] = r[i - 1] /\ i \in 1 .. m
          BY <3>2
        <4> HIDE DEF q
        <4> QED
          BY <2>1, <4>1 DEF IsRun
      <3> QED
        BY <3>1, <3>2
    <2> HIDE DEF q
    <2>4. IsRun(q, mode, k, trades, m + 1)
      BY <2>2, <2>3 DEF IsRun
    <2> QED
      BY <2>2, <2>4
  <1> HIDE DEF T
  <1>3. 0 .. to \subseteq T
    BY <1>1, <1>2, Induction
  <1> QED
    BY <1>3 DEF T

LEMMA ReplayIsRun ==
  ASSUME NEW mode, NEW k, NEW trades, NEW to \in Nat
  PROVE  \E r : IsRun(r, mode, k, trades, to) /\ Replay(mode, k, trades, to) = r[to]
  <1> DEFINE Body(g) == g = [n \in 0 .. to |->
                               IF n = 0 THEN Start
                               ELSE IF n \in DOMAIN trades
                               THEN Step(mode, k, g[n - 1], trades[n])
                               ELSE g[n - 1]]
  <1>1. PICK r : IsRun(r, mode, k, trades, to)
    BY RunExists
  <1>2. Body(r)
    <2>1. \A n \in 0 .. to : r[n] = IF n = 0 THEN Start
                                    ELSE IF n \in DOMAIN trades
                                    THEN Step(mode, k, r[n - 1], trades[n])
                                    ELSE r[n - 1]
      <3> TAKE n \in 0 .. to
      <3>1. CASE n = 0
        BY <1>1, <3>1 DEF IsRun
      <3>2. CASE n \in 1 .. to
        BY <1>1, <3>2 DEF IsRun
      <3> QED
        BY <3>1, <3>2
    <2>2. r = [n \in 0 .. to |-> r[n]]
      BY <1>1 DEF IsRun
    <2> QED
      BY <2>1, <2>2
  <1> DEFINE t == CHOOSE g : Body(g)
  <1>3. Body(t)
    BY <1>2
  <1>4. Replay(mode, k, trades, to) = t[to]
    BY DEF Replay
  <1> HIDE DEF t
  <1>5. IsRun(t, mode, k, trades, to)
    BY <1>3 DEF IsRun
  <1> QED
    BY <1>4, <1>5

(***************************************************************************)
(* The book. The fills of a key follow each other, those of one trade are  *)
(* of one order and go the same way.                                       *)
(***************************************************************************)
Bound == Most(MaxLong, MaxShort)

Fills == [key : Keys, delta : Deltas, order : 1 .. MaxFills, trade : 1 .. MaxFills,
          before : -Bound .. Bound, read : 0 .. MaxFills]

\* the fill before i of i's key
Precedes(j, i) ==
    /\ j < i /\ book[j].key = book[i].key
    /\ \A m \in j + 1 .. i - 1 : book[m].key # book[i].key

FillOK(i) ==
    /\ book[i].trade <= i /\ book[i].read < i /\ book[i].read <= readTo
    /\ After(i) \in -MaxShort .. MaxLong
    /\ book[i].key \in {"LONG", "SHORT"} =>
           OfSide(book[i].key, book[i].before) /\ OfSide(book[i].key, After(i))
    /\ (\A j \in 1 .. i - 1 : book[j].key # book[i].key) => book[i].before = initial[book[i].key]
    /\ \A j \in 1 .. i - 1 : Precedes(j, i) => book[i].before = After(j)

BookInv ==
    /\ venue \in Venues
    /\ initial \in [Keys -> -Bound .. Bound]
    /\ \A k \in Keys \cap {"LONG", "SHORT"} : OfSide(k, initial[k])
    /\ \A k \in Keys : initial[k] \in -MaxShort .. MaxLong
    /\ book \in Seq(Fills)
    /\ readTo \in 0 .. Len(book)
    /\ \A i \in 1 .. Len(book) : FillOK(i)
    /\ \A i, j \in 1 .. Len(book) : book[i].trade = book[j].trade =>
           /\ book[i].key = book[j].key /\ Same(book[i].delta, book[j].delta)
           /\ book[i].order = book[j].order

LEMMA MaxOf ==
  ASSUME NEW n \in Nat, NEW S, S \subseteq 1 .. n, S # {}
  PROVE  Max(S) \in S /\ \A x \in S : x <= Max(S)
  <1> DEFINE T == {m \in 0 .. n : S \cap 1 .. m # {} =>
                                    \E x \in S \cap 1 .. m : \A y \in S \cap 1 .. m : x >= y}
  <1>1. 0 \in T
    OBVIOUS
  <1>2. ASSUME NEW m \in 0 .. n - 1, m \in T PROVE m + 1 \in T
    <2>1. CASE m + 1 \in S
      <3>1. \A y \in S \cap 1 .. m + 1 : m + 1 >= y
        OBVIOUS
      <3> QED
        BY <2>1, <3>1
    <2>2. CASE m + 1 \notin S
      <3>1. S \cap 1 .. m + 1 = S \cap 1 .. m
        BY <2>2
      <3> QED
        BY <1>2, <3>1
    <2> QED
      BY <2>1, <2>2
  <1> HIDE DEF T
  <1>3. n \in T
    BY <1>1, <1>2, Induction
  <1>4. S \cap 1 .. n = S
    OBVIOUS
  <1>5. \E x \in S : \A y \in S : x >= y
    BY <1>3, <1>4 DEF T
  <1>6. Max(S) \in S /\ \A y \in S : Max(S) >= y
    BY <1>5 DEF Max
  <1> QED
    BY <1>6

LEMMA Constants ==
  /\ MaxFills \in Nat /\ Overlap \in Nat /\ MaxLong \in Nat \ {0} /\ MaxShort \in Nat \ {0}
  /\ Bound \in Nat \ {0} /\ MaxLong <= Bound /\ MaxShort <= Bound
  BY FillConstants DEF Bound, Most

LEMMA BookParts ==
  ASSUME BookInv, NEW i \in 1 .. Len(book)
  PROVE  /\ Len(book) \in Nat /\ DOMAIN book = 1 .. Len(book)
         /\ book[i] \in Fills /\ book[i].key \in Keys /\ book[i].delta \in Int \ {0}
         /\ book[i].trade \in Nat /\ book[i].before \in Int /\ book[i].read \in Nat
         /\ After(i) \in Int /\ FillOK(i)
  <1>1. book[i] \in Fills /\ DOMAIN book = 1 .. Len(book) /\ Len(book) \in Nat
    BY DEF BookInv
  <1>2. /\ book[i].key \in Keys /\ book[i].delta \in Deltas /\ book[i].trade \in 1 .. MaxFills
        /\ book[i].before \in -Bound .. Bound /\ book[i].read \in 0 .. MaxFills
    BY <1>1 DEF Fills
  <1>3. /\ book[i].delta \in Int \ {0} /\ book[i].trade \in Nat /\ book[i].before \in Int
        /\ book[i].read \in Nat
    BY <1>2, Constants DEF Deltas
  <1> QED
    BY <1>1, <1>2, <1>3 DEF BookInv, After

LEMMA PositionIs ==
  ASSUME BookInv, NEW k \in Keys
  PROVE  /\ Position(k) \in -MaxShort .. MaxLong
         /\ k \in {"LONG", "SHORT"} => OfSide(k, Position(k))
         /\ (\A j \in 1 .. Len(book) : book[j].key # k) => Position(k) = initial[k]
         /\ \A j \in 1 .. Len(book) :
               book[j].key = k /\ (\A m \in j + 1 .. Len(book) : book[m].key # k)
                  => Position(k) = After(j)
  <1>0. DOMAIN book = 1 .. Len(book) /\ Len(book) \in Nat
    BY DEF BookInv
  <1>1. CASE FillsIn(k) = {}
    <2>1. \A j \in 1 .. Len(book) : book[j].key # k
      BY <1>0, <1>1 DEF FillsIn
    <2>2. Position(k) = initial[k]
      BY <1>1 DEF Position
    <2> QED
      BY <2>1, <2>2 DEF BookInv
  <1>2. CASE FillsIn(k) # {}
    <2> DEFINE l == Max(FillsIn(k))
    <2>1. l \in FillsIn(k) /\ \A x \in FillsIn(k) : x <= l
      <3>1. FillsIn(k) \subseteq 1 .. Len(book)
        BY <1>0 DEF FillsIn
      <3> QED
        BY <1>0, <1>2, <3>1, MaxOf
    <2>2. Position(k) = After(l)
      BY <1>2 DEF Position
    <2> HIDE DEF l
    <2>3. l \in 1 .. Len(book) /\ book[l].key = k
      BY <1>0, <2>1 DEF FillsIn
    <2>4. \A j \in 1 .. Len(book) :
             book[j].key = k /\ (\A m \in j + 1 .. Len(book) : book[m].key # k) => j = l
      <3> SUFFICES ASSUME NEW j \in 1 .. Len(book), book[j].key = k,
                          \A m \in j + 1 .. Len(book) : book[m].key # k
                   PROVE  j = l
        OBVIOUS
      <3>1. j <= l
        BY <1>0, <2>1 DEF FillsIn
      <3>2. ~(l > j)
        BY <1>0, <2>3
      <3> QED
        BY <1>0, <2>3, <3>1, <3>2
    <2>5. FillOK(l)
      BY <2>3 DEF BookInv
    <2> QED
      BY <2>2, <2>3, <2>4, <2>5 DEF FillOK
  <1> QED
    BY <1>1, <1>2

LEMMA InitBook ==
  ASSUME Init
  PROVE  BookInv
  <1>1. book \in Seq(Fills) /\ Len(book) = 0
    BY DEF Init
  <1>2. Keys \subseteq {"LONG", "SHORT", "BOTH"}
    BY DEF Keys
  <1>3. \A k \in Keys : initial[k] \in -MaxShort .. MaxLong /\ initial[k] \in -Bound .. Bound
    <2> SUFFICES ASSUME NEW k \in Keys
                 PROVE  initial[k] \in -MaxShort .. MaxLong /\ initial[k] \in -Bound .. Bound
      OBVIOUS
    <2>1. initial[k] \in -MaxShort .. MaxLong
      BY FillConstants DEF Init
    <2> QED
      BY <2>1, Constants
  <1>4. initial \in [Keys -> -Bound .. Bound]
    BY <1>3 DEF Init
  <1>5. \A k \in Keys \cap {"LONG", "SHORT"} : OfSide(k, initial[k])
    BY <1>2 DEF Init, OfSide
  <1> QED
    BY <1>1, <1>3, <1>4, <1>5 DEF Init, BookInv

\* the fills already in the book stay as they are
LEMMA Appended ==
  ASSUME BookInv, NEW k \in Keys, NEW delta \in Deltas,
         NEW order \in 1 .. MaxFills, NEW trade \in 1 .. MaxFills,
         Fill(k, delta, order, trade), NEW n, n = Len(book) + 1
  PROVE  /\ n \in 1 .. MaxFills /\ Len(book) \in Nat /\ Len(book') = n
         /\ book' \in Seq(Fills)'
         /\ \A i \in 1 .. Len(book) : book'[i] = book[i] /\ After(i)' = After(i)
         /\ book'[n].key = k /\ book'[n].delta = delta
         /\ book'[n].order = order /\ book'[n].trade = trade
         /\ book'[n].before = Position(k) /\ book'[n].read = readTo
         /\ After(n)' = Position(k) + delta
         /\ readTo' = readTo /\ initial' = initial /\ venue' = venue /\ Keys' = Keys
         /\ Fills' = Fills
  <1> DEFINE fill == [key |-> k, delta |-> delta, order |-> order, trade |-> trade,
                      before |-> Position(k), read |-> readTo]
  <1>1. book \in Seq(Fills) /\ Len(book) \in Nat /\ readTo \in 0 .. Len(book)
    BY DEF BookInv
  <1>2. /\ book' = Append(book, fill) /\ Len(book) < MaxFills
        /\ readTo' = readTo /\ initial' = initial /\ venue' = venue
    BY DEF Fill
  <1>3. Keys' = Keys /\ Fills' = Fills
    BY <1>2 DEF Keys, Fills, Bound
  <1>4. fill \in Fills
    <2>1. Position(k) \in -Bound .. Bound
      BY PositionIs, Constants
    <2>2. readTo \in 0 .. MaxFills
      BY <1>1, <1>2, Constants
    <2> QED
      BY <2>1, <2>2 DEF Fills
  <1> HIDE DEF fill
  <1>5. /\ Len(book') = n /\ book' \in Seq(Fills) /\ book'[n] = fill
        /\ \A i \in 1 .. Len(book) : book'[i] = book[i]
    BY <1>1, <1>2, <1>4
  <1>6. \A i \in 1 .. Len(book) : After(i)' = After(i)
    BY <1>5 DEF After
  <1>7. /\ fill.key = k /\ fill.delta = delta /\ fill.order = order /\ fill.trade = trade
        /\ fill.before = Position(k) /\ fill.read = readTo
    BY DEF fill
  <1>8. After(n)' = Position(k) + delta
    BY <1>5, <1>7 DEF After
  <1>9. n \in 1 .. MaxFills
    BY <1>1, <1>2, Constants
  <1> QED
    BY <1>1, <1>2, <1>3, <1>5, <1>6, <1>7, <1>8, <1>9

LEMMA FillBook ==
  ASSUME BookInv, NEW k \in Keys, NEW delta \in Deltas,
         NEW order \in 1 .. MaxFills, NEW trade \in 1 .. MaxFills,
         Fill(k, delta, order, trade)
  PROVE  BookInv'
  <1> SUFFICES ASSUME NEW n, n = Len(book) + 1 PROVE BookInv'
    OBVIOUS
  <1>0. /\ n \in 1 .. MaxFills /\ Len(book) \in Nat /\ Len(book') = n
        /\ book' \in Seq(Fills)' /\ readTo \in 0 .. Len(book)
        /\ \A i \in 1 .. Len(book) : book'[i] = book[i] /\ After(i)' = After(i)
        /\ book'[n].key = k /\ book'[n].delta = delta
         /\ book'[n].order = order /\ book'[n].trade = trade
        /\ book'[n].before = Position(k) /\ book'[n].read = readTo
        /\ After(n)' = Position(k) + delta
        /\ readTo' = readTo /\ initial' = initial /\ venue' = venue /\ Keys' = Keys
    BY Appended DEF BookInv
  <1>1. /\ Position(k) + delta \in -MaxShort .. MaxLong
        /\ k \in {"LONG", "SHORT"} => OfSide(k, Position(k) + delta)
        /\ trade = n \/ \E i \in 1 .. Len(book) :
                            /\ book[i].trade = trade /\ book[i].order = order
                            /\ book[i].key = k /\ Same(book[i].delta, delta)
    <2>1. DOMAIN book = 1 .. Len(book)
      BY DEF BookInv
    <2>2. ASSUME NEW i \in 1 .. Len(book), Sign(book[i].delta) = Sign(delta)
          PROVE  Same(book[i].delta, delta)
      <3>1. book[i].delta \in Int \ {0}
        BY BookParts
      <3>2. delta \in Int \ {0}
        BY Constants DEF Deltas
      <3> QED
        BY <2>2, <3>1, <3>2 DEF Sign, Same
    <2> QED
      BY <2>1, <2>2 DEF Fill, OfSide
  <1>2. \A i \in 1 .. n : i = n \/ i \in 1 .. Len(book)
    BY <1>0
  <1>3. ASSUME NEW i \in 1 .. n PROVE FillOK(i)'
    <2>1. CASE i \in 1 .. Len(book)
      <3>1. FillOK(i)
        BY <2>1 DEF BookInv
      <3>2. \A j \in 1 .. i : book'[j] = book[j] /\ After(j)' = After(j)
        BY <1>0, <2>1
      <3>3. \A j \in 1 .. i - 1 : Precedes(j, i)' <=> Precedes(j, i)
        <4> SUFFICES ASSUME NEW j \in 1 .. i - 1 PROVE Precedes(j, i)' <=> Precedes(j, i)
          OBVIOUS
        <4>1. \A m \in j + 1 .. i - 1 : book'[m] = book[m]
          BY <3>2
        <4> QED
          BY <3>2, <4>1 DEF Precedes
      <3> QED
        BY <1>0, <3>1, <3>2, <3>3 DEF FillOK
    <2>2. CASE i = n
      <3>1. trade <= n /\ readTo < n
        <4>1. \A j \in 1 .. Len(book) : book[j].trade <= j /\ book[j].trade \in Nat
          BY BookParts DEF FillOK
        <4> QED
          BY <1>0, <1>1, <4>1
      <3>2. k \in {"LONG", "SHORT"} => OfSide(k, Position(k))
        BY PositionIs
      <3>3. (\A j \in 1 .. n - 1 : book'[j].key # k) => Position(k) = initial[k]
        BY <1>0, PositionIs
      <3>4. \A j \in 1 .. n - 1 : Precedes(j, n)' => Position(k) = After(j)'
        <4> SUFFICES ASSUME NEW j \in 1 .. n - 1, Precedes(j, n)' PROVE Position(k) = After(j)'
          OBVIOUS
        <4>1. j \in 1 .. Len(book)
          BY <1>0
        <4>2. book[j].key = k /\ \A m \in j + 1 .. Len(book) : book[m].key # k
          BY <1>0, <4>1 DEF Precedes
        <4> QED
          BY <1>0, <4>1, <4>2, PositionIs
      <3> QED
        BY <1>0, <1>1, <2>2, <3>1, <3>2, <3>3, <3>4 DEF FillOK
    <2> QED
      BY <1>2, <2>1, <2>2
  <1>4. ASSUME NEW i \in 1 .. n, NEW j \in 1 .. n, book'[i].trade = book'[j].trade
        PROVE  /\ book'[i].key = book'[j].key /\ Same(book'[i].delta, book'[j].delta)
               /\ book'[i].order = book'[j].order
    <2>1. \A h \in 1 .. Len(book) : book[h].trade <= h /\ book[h].trade \in Nat
                                   /\ book[h].delta \in Int \ {0}
      BY BookParts DEF FillOK
    <2>2. delta \in Int \ {0}
      BY Constants DEF Deltas
    <2>3. \A h \in 1 .. Len(book) : book[h].trade = trade =>
             book[h].key = k /\ Same(book[h].delta, delta) /\ book[h].order = order
      <3> SUFFICES ASSUME NEW h \in 1 .. Len(book), book[h].trade = trade
                   PROVE  book[h].key = k /\ Same(book[h].delta, delta) /\ book[h].order = order
        OBVIOUS
      <3>1. trade # n
        BY <1>0, <2>1
      <3>2. PICK g \in 1 .. Len(book) :
               /\ book[g].trade = trade /\ book[g].order = order
               /\ book[g].key = k /\ Same(book[g].delta, delta)
        BY <1>1, <3>1
      <3>3. /\ book[h].key = book[g].key /\ Same(book[h].delta, book[g].delta)
            /\ book[h].order = book[g].order
        BY <3>2 DEF BookInv
      <3> QED
        BY <2>1, <2>2, <3>2, <3>3 DEF Same
    <2>4. CASE i \in 1 .. Len(book) /\ j \in 1 .. Len(book)
      BY <1>0, <1>4, <2>4 DEF BookInv
    <2>5. CASE i = n /\ j \in 1 .. Len(book)
      BY <1>0, <1>4, <2>1, <2>2, <2>3, <2>5 DEF Same
    <2>6. CASE i \in 1 .. Len(book) /\ j = n
      BY <1>0, <1>4, <2>1, <2>2, <2>3, <2>6 DEF Same
    <2>7. CASE i = n /\ j = n
      BY <1>0, <2>2, <2>7 DEF Same
    <2> QED
      BY <1>2, <2>4, <2>5, <2>6, <2>7
  <1>5. readTo' \in 0 .. Len(book')
    BY <1>0
  <1> QED
    BY <1>0, <1>3, <1>4, <1>5 DEF BookInv, Bound

\* the other steps leave the book alone
LEMMA OtherBook ==
  ASSUME BookInv, UNCHANGED <<venue, initial, book>>, readTo' \in readTo .. Len(book)
  PROVE  BookInv' /\ Keys' = Keys /\ \A i : After(i)' = After(i)
  <1>1. Keys' = Keys
    BY DEF Keys
  <1>2. Fills' = Fills
    BY <1>1 DEF Fills, Bound
  <1>3. \A i : After(i)' = After(i)
    BY DEF After
  <1>4. readTo \in Nat /\ readTo' \in 0 .. Len(book)
    BY DEF BookInv
  <1>5. ASSUME NEW i \in 1 .. Len(book) PROVE FillOK(i)'
    <2>1. FillOK(i) /\ book[i].read \in Nat
      BY BookParts
    <2>2. \A j : Precedes(j, i)' <=> Precedes(j, i)
      BY DEF Precedes
    <2> QED
      BY <1>3, <1>4, <2>1, <2>2 DEF FillOK
  <1> QED
    BY <1>1, <1>2, <1>3, <1>4, <1>5 DEF BookInv, Bound

(***************************************************************************)
(* What the adapters make of the book: trades named by a fill, in its      *)
(* direction.                                                              *)
(***************************************************************************)
\* the sum of the fills of an order until each moment
IsFilled(s, order, to) ==
    IsSum(s, [i \in 1 .. to |-> IF book[i].trade = order THEN book[i].delta ELSE 0], to)

LEMMA QuantityIs ==
  ASSUME BookInv, NEW to \in 0 .. Len(book), NEW order
  PROVE  \E s : IsFilled(s, order, to) /\ Quantity(order, to) = s[to]
  <1> DEFINE f == [i \in 1 .. to |-> IF book[i].trade = order THEN book[i].delta ELSE 0]
  <1>1. to \in Nat /\ f \in [1 .. to -> Int]
    <2>1. Len(book) \in Nat /\ \A i \in 1 .. Len(book) : book[i].delta \in Int
      BY BookParts DEF BookInv
    <2> QED
      BY <2>1
  <1> HIDE DEF f
  <1>2. PICK s : IsSum(s, f, to)
    BY <1>1, Sum
  <1>3. SumTo(f, to) = s[to]
    BY <1>1, <1>2, SumToIs
  <1> QED
    BY <1>2, <1>3 DEF IsFilled, Quantity, f

LEMMA QuantitySign ==
  ASSUME BookInv, NEW to \in 0 .. Len(book), NEW i \in 1 .. to
  PROVE  Quantity(book[i].trade, to) \in Int \ {0}
         /\ Same(Quantity(book[i].trade, to), book[i].delta)
  <1> DEFINE o == book[i].trade
  <1>1. PICK s : IsFilled(s, o, to) /\ Quantity(o, to) = s[to]
    BY QuantityIs
  <1>2. /\ to \in Nat /\ s \in [0 .. to -> Int] /\ s[0] = 0
        /\ \A m \in 1 .. to : s[m] = s[m - 1] + IF book[m].trade = o THEN book[m].delta ELSE 0
    <2>1. Len(book) \in Nat
      BY DEF BookInv
    <2> QED
      BY <1>1, <2>1 DEF IsFilled, IsSum
  <1>3. \A m \in 1 .. to : book[m].trade = o => Same(book[m].delta, book[i].delta)
    BY DEF BookInv
  <1>4. \A m \in 1 .. to : book[m].delta \in Int \ {0}
    <2>1. Len(book) \in Nat
      BY DEF BookInv
    <2> QED
      BY <2>1, BookParts
  <1> HIDE DEF o
  <1> DEFINE T == {m \in 0 .. to : /\ s[m] = 0 \/ Same(s[m], book[i].delta)
                                   /\ i <= m => s[m] # 0}
  <1>5. 0 \in T
    BY <1>2
  <1>6. ASSUME NEW m \in 0 .. to - 1, m \in T PROVE m + 1 \in T
    <2>1. m + 1 \in 1 .. to /\ s[m] \in Int /\ s[m + 1] \in Int /\ (m + 1) - 1 = m
          /\ m + 1 \in 0 .. to
      BY <1>2
    <2>2. s[m + 1] = s[m] + IF book[m + 1].trade = o THEN book[m + 1].delta ELSE 0
      BY <1>2, <2>1
    <2>3. CASE book[m + 1].trade = o
      BY <1>3, <1>4, <1>6, <2>1, <2>2, <2>3 DEF Same
    <2>4. CASE book[m + 1].trade # o
      <3>1. m + 1 # i
        BY <2>4 DEF o
      <3> QED
        BY <1>6, <2>1, <2>2, <2>4, <3>1 DEF Same
    <2> QED
      BY <2>3, <2>4
  <1> HIDE DEF T
  <1>7. to \in T
    <2>1. 0 .. to \subseteq T
      BY <1>2, <1>5, <1>6, Induction
    <2> QED
      BY <1>2, <2>1
  <1>8. i <= to /\ s[to] \in Int
    BY <1>2
  <1> QED
    BY <1>1, <1>7, <1>8 DEF T, o

TradesOK(trades, to) ==
    /\ DOMAIN trades \subseteq 1 .. to
    /\ \A n \in DOMAIN trades :
          /\ IsTrade(trades[n]) /\ trades[n].id = n
          /\ Same(trades[n].delta, book[n].delta) /\ SideOf(-trades[n].delta) = SideOf(-book[n].delta)

LEMMA TradesAre ==
  ASSUME BookInv, NEW k \in Keys, NEW from \in Nat, NEW to \in 0 .. Len(book)
  PROVE  /\ TradesOK(Trades(k, from, to), to)
         /\ venue = "HYPERLIQUID" =>
                Trades(k, from, to) = [i \in from + 1 .. to |-> FillRow(i)]
         /\ venue # "HYPERLIQUID" =>
                Trades(k, from, to) = [i \in FillsIn(k) \cap LastFills(to) |->
                                         [id |-> i, delta |-> Quantity(book[i].trade, to)]]
  <1>1. Len(book) \in Nat /\ DOMAIN book = 1 .. Len(book)
    BY DEF BookInv
  <1>2. \A p, q \in Int : Same(p, q) => SideOf(-p) = SideOf(-q)
    BY DEF Same, SideOf
  <1>3. CASE venue = "HYPERLIQUID"
    <2> DEFINE T == [i \in from + 1 .. to |-> FillRow(i)]
    <2>1. Trades(k, from, to) = T
      BY <1>3 DEF Trades, WindowFills
    <2>2. ASSUME NEW n \in from + 1 .. to
          PROVE  /\ IsTrade(T[n]) /\ T[n].id = n /\ Same(T[n].delta, book[n].delta)
                 /\ SideOf(-T[n].delta) = SideOf(-book[n].delta)
      <3>1. n \in 1 .. Len(book)
        BY <1>1
      <3>2. book[n].delta \in Int \ {0}
        BY <3>1, BookParts
      <3>3. T[n].id = n /\ T[n].delta = book[n].delta
        BY DEF FillRow
      <3> HIDE DEF T
      <3> QED
        BY <3>1, <3>2, <3>3 DEF IsTrade, Same
    <2>3. DOMAIN T \subseteq 1 .. to
      BY <1>1
    <2>4. TradesOK(T, to)
      <3>1. DOMAIN T = from + 1 .. to
        OBVIOUS
      <3> HIDE DEF T
      <3> QED
        BY <2>2, <2>3, <3>1 DEF TradesOK
    <2> QED
      BY <1>3, <2>1, <2>4
  <1>4. CASE venue # "HYPERLIQUID"
    <2> DEFINE S == FillsIn(k) \cap LastFills(to)
               T == [i \in S |-> [id |-> i, delta |-> Quantity(book[i].trade, to)]]
    <2>1. Trades(k, from, to) = T
      BY <1>4 DEF Trades, OrderRows
    <2>2. S \subseteq 1 .. to
      BY DEF LastFills
    <2>3. ASSUME NEW n \in S
          PROVE  /\ IsTrade(T[n]) /\ T[n].id = n /\ Same(T[n].delta, book[n].delta)
                 /\ SideOf(-T[n].delta) = SideOf(-book[n].delta)
      <3>1. n \in 1 .. to /\ n \in Nat
        BY <2>2
      <3>2. /\ Quantity(book[n].trade, to) \in Int \ {0}
            /\ Same(Quantity(book[n].trade, to), book[n].delta)
        BY <3>1, QuantitySign
      <3>3. T[n].id = n /\ T[n].delta = Quantity(book[n].trade, to)
        OBVIOUS
      <3>4. book[n].delta \in Int
        <4>1. n \in 1 .. Len(book)
          BY <1>1, <3>1
        <4> QED
          BY <4>1, BookParts
      <3> HIDE DEF T, S
      <3> QED
        BY <1>2, <3>1, <3>2, <3>3, <3>4 DEF IsTrade
    <2>4. TradesOK(T, to)
      <3>1. DOMAIN T = S
        OBVIOUS
      <3> HIDE DEF T
      <3> QED
        BY <2>2, <2>3, <3>1 DEF TradesOK
    <2> QED
      BY <1>4, <2>1, <2>4
  <1> QED
    BY <1>3, <1>4

(***************************************************************************)
(* The rows of a run: each is named by a trade that closes, and closed the *)
(* side that trade is against.                                             *)
(***************************************************************************)
GoodRows(rows, trades, n) ==
    /\ IsFiniteSet(rows)
    /\ \A row \in rows : /\ row \in Row /\ row.id \in DOMAIN trades \cap 1 .. n
                         /\ row.side = SideOf(-trades[row.id].delta)

LEMMA MovedRows ==
  ASSUME NEW trades, NEW n \in Nat \ {0}, n \in DOMAIN trades,
         NEW state \in State, GoodRows(state.rows, trades, n - 1),
         NEW c, NEW new, NEW p \in Int, NEW q \in Int, Tracks(c, p),
         Moved(state, c, new, p, q, n),
         p # 0 /\ ~Same(p, q) => SideOf(p) = SideOf(-trades[n].delta)
  PROVE  new \in State /\ GoodRows(new.rows, trades, n)
  <1>1. \A row \in state.rows : /\ row \in Row /\ row.id \in DOMAIN trades \cap 1 .. n
                                /\ row.side = SideOf(-trades[row.id].delta)
    BY DEF GoodRows
  <1>2. CASE p = 0 \/ Same(p, q)
    <2>1. new.rows = state.rows
      BY <1>2 DEF Moved
    <2> QED
      BY <1>1, <2>1 DEF GoodRows, Moved
  <1>3. CASE ~(p = 0 \/ Same(p, q))
    <2> DEFINE row == [id |-> n, side |-> SideOf(p), complete |-> c.complete,
                       max |-> c.max, closed |-> c.closed + Abs(p)]
    <2>1. new.rows = state.rows \cup {row}
      BY <1>3 DEF Moved
    <2>2. row \in Row
      <3>1. c.complete \in BOOLEAN /\ c.max \in Nat \ {0} /\ c.closed + Abs(p) \in Nat \ {0}
        BY <1>3, Arithmetic DEF Tracks, Cycle
      <3>2. SideOf(p) \in {"LONG", "SHORT"}
        BY Arithmetic
      <3> QED
        BY <3>1, <3>2 DEF Row
    <2>3. row.id = n /\ row.side = SideOf(p)
      OBVIOUS
    <2> HIDE DEF row
    <2>4. IsFiniteSet(new.rows)
      BY <2>1, FS_AddElement DEF GoodRows
    <2> QED
      BY <1>1, <1>3, <2>1, <2>2, <2>3, <2>4 DEF GoodRows, Moved
  <1> QED
    BY <1>2, <1>3

\* trades that a run can take
Runnable(trades, to) ==
    /\ DOMAIN trades \subseteq 1 .. to
    /\ \A n \in DOMAIN trades : IsTrade(trades[n]) /\ trades[n].id = n

LEMMA StartIs == Start \in State /\ Start.rows = {} /\ Start.position = 0 /\ Start.cycle = NoCycle
  BY NoCycleType DEF Start, State

LEMMA NoRows == ASSUME NEW trades, NEW n PROVE GoodRows({}, trades, n)
  BY FS_EmptySet DEF GoodRows

LEMMA SameRows ==
  ASSUME NEW trades, NEW n \in Nat \ {0}, NEW rows, GoodRows(rows, trades, n - 1)
  PROVE  GoodRows(rows, trades, n)
  BY DEF GoodRows

\* the side a trade closes
LEMMA Against ==
  ASSUME NEW p \in Int, NEW d \in Int, p # 0, ~Same(p, p + d)
  PROVE  d # 0 /\ SideOf(p) = SideOf(-d)
  BY DEF Same, SideOf

LEMMA OneWayRows ==
  ASSUME NEW k, NEW trades, NEW to \in Nat, Runnable(trades, to),
         NEW r, IsRun(r, "ONE_WAY", k, trades, to), NEW m \in 0 .. to
  PROVE  /\ r[m] \in State /\ GoodRows(r[m].rows, trades, m)
         /\ Tracks(r[m].cycle, r[m].position)
  <1> DEFINE T == {n \in 0 .. to : /\ r[n] \in State /\ GoodRows(r[n].rows, trades, n)
                                   /\ Tracks(r[n].cycle, r[n].position)}
  <1>1. 0 \in T
    <2>1. r[0] = Start
      BY DEF IsRun
    <2>2. Tracks(Start.cycle, Start.position)
      BY StartIs DEF Tracks
    <2> QED
      BY <2>1, <2>2, StartIs, NoRows
  <1>2. ASSUME NEW n \in 0 .. to - 1, n \in T PROVE n + 1 \in T
    <2>1. /\ n + 1 \in 1 .. to /\ n + 1 \in 0 .. to /\ n + 1 \in Nat \ {0} /\ (n + 1) - 1 = n
      OBVIOUS
    <2>2. /\ r[n] \in State /\ GoodRows(r[n].rows, trades, n)
          /\ Tracks(r[n].cycle, r[n].position)
      BY <1>2
    <2>3. r[n + 1] = IF n + 1 \in DOMAIN trades THEN OneWayStep(r[n], trades[n + 1]) ELSE r[n]
      BY <2>1 DEF IsRun, Step
    <2>4. CASE n + 1 \notin DOMAIN trades
      <3>1. r[n + 1] = r[n] /\ GoodRows(r[n].rows, trades, n + 1)
        BY <2>1, <2>2, <2>3, <2>4, SameRows
      <3> QED
        BY <2>1, <2>2, <3>1
    <2>5. CASE n + 1 \in DOMAIN trades
      <3> DEFINE row == trades[n + 1]
                 p == r[n].position
                 new == OneWayStep(r[n], row)
      <3>1. IsTrade(row) /\ row.id = n + 1 /\ row.delta \in Int /\ p \in Int
        BY <2>2, <2>5 DEF Runnable, IsTrade, State
      <3> HIDE DEF row
      <3>2. /\ new.position = p + row.delta
            /\ Moved(r[n], r[n].cycle, new, p, p + row.delta, row.id)
        BY <2>2, <3>1, OneWayMoves
      <3>3. p + row.delta \in Int
        BY <3>1
      <3> HIDE DEF new, p
      <3>4. p # 0 /\ ~Same(p, p + row.delta) => SideOf(p) = SideOf(-row.delta)
        BY <3>1, Against
      <3>5. Tracks(r[n].cycle, p)
        BY <2>2 DEF p
      <3>6. new \in State /\ GoodRows(new.rows, trades, n + 1)
        BY <2>1, <2>2, <2>5, <3>1, <3>2, <3>3, <3>4, <3>5, MovedRows DEF row
      <3>7. Tracks(new.cycle, p + row.delta)
        BY <3>1, <3>2, <3>3, <3>5, MovedTracks
      <3>8. r[n + 1] = new
        BY <2>3, <2>5 DEF new, row
      <3> QED
        BY <2>1, <3>2, <3>6, <3>7, <3>8
    <2> QED
      BY <2>4, <2>5
  <1> HIDE DEF T
  <1>3. 0 .. to \subseteq T
    BY <1>1, <1>2, Induction
  <1> QED
    BY <1>3 DEF T

LEMMA HedgeRows ==
  ASSUME NEW k \in {"LONG", "SHORT"}, NEW trades, NEW to \in Nat, Runnable(trades, to),
         NEW r, IsRun(r, "HEDGE", k, trades, to), NEW m \in 0 .. to
  PROVE  /\ r[m] \in State /\ GoodRows(r[m].rows, trades, m)
         /\ \E p \in Int : OfSide(k, p) /\ Tracks(r[m].cycle, p)
  <1> DEFINE T == {n \in 0 .. to : /\ r[n] \in State /\ GoodRows(r[n].rows, trades, n)
                                   /\ \E p \in Int : OfSide(k, p) /\ Tracks(r[n].cycle, p)}
  <1>1. 0 \in T
    <2>1. r[0] = Start
      BY DEF IsRun
    <2>2. 0 \in Int /\ OfSide(k, 0) /\ Tracks(Start.cycle, 0)
      BY StartIs DEF Tracks, OfSide
    <2> QED
      BY <2>1, <2>2, StartIs, NoRows
  <1>2. ASSUME NEW n \in 0 .. to - 1, n \in T PROVE n + 1 \in T
    <2>1. /\ n + 1 \in 1 .. to /\ n + 1 \in 0 .. to /\ n + 1 \in Nat \ {0} /\ (n + 1) - 1 = n
      OBVIOUS
    <2>2. r[n] \in State /\ GoodRows(r[n].rows, trades, n)
      BY <1>2
    <2>3. PICK p \in Int : OfSide(k, p) /\ Tracks(r[n].cycle, p)
      BY <1>2
    <2>4. r[n + 1] = IF n + 1 \in DOMAIN trades THEN HedgeStep(k, r[n], trades[n + 1]) ELSE r[n]
      BY <2>1 DEF IsRun, Step
    <2>5. CASE n + 1 \notin DOMAIN trades
      <3>1. r[n + 1] = r[n] /\ GoodRows(r[n].rows, trades, n + 1)
        BY <2>1, <2>2, <2>4, <2>5, SameRows
      <3> QED
        BY <2>1, <2>2, <2>3, <3>1
    <2>6. CASE n + 1 \in DOMAIN trades
      <3> DEFINE row == trades[n + 1]
                 new == HedgeStep(k, r[n], row)
      <3>1. IsTrade(row) /\ row.id = n + 1
        BY <2>6 DEF Runnable
      <3> HIDE DEF row
      <3>2. PICK c : \E o, q \in Int :
               /\ OfSide(k, o) /\ OfSide(k, q) /\ Tracks(c, o)
               /\ Moved(r[n], c, new, o, q, row.id)
               /\ o # 0 /\ ~Same(o, q) => SideOf(o) = SideOf(-row.delta)
        BY <2>2, <2>3, <3>1, HedgeMoves
      <3>3. PICK o \in Int, q \in Int :
               /\ OfSide(k, o) /\ OfSide(k, q) /\ Tracks(c, o)
               /\ Moved(r[n], c, new, o, q, row.id)
               /\ o # 0 /\ ~Same(o, q) => SideOf(o) = SideOf(-row.delta)
        BY <3>2
      <3> HIDE DEF new
      <3>4. new \in State /\ GoodRows(new.rows, trades, n + 1)
        BY <2>1, <2>2, <2>6, <3>1, <3>3, MovedRows DEF row
      <3>5. Tracks(new.cycle, q)
        BY <3>3, MovedTracks
      <3>6. r[n + 1] = new
        BY <2>4, <2>6 DEF new, row
      <3> QED
        BY <2>1, <3>3, <3>4, <3>5, <3>6
    <2> QED
      BY <2>5, <2>6
  <1> HIDE DEF T
  <1>3. 0 .. to \subseteq T
    BY <1>1, <1>2, Induction
  <1> QED
    BY <1>3 DEF T

\* the fills of a window: each begins where the one before it ended
Window(trades, from, to) ==
    /\ DOMAIN trades = from + 1 .. to
    /\ \A n \in from + 1 .. to : trades[n].before \in Int
    /\ \A n \in from + 2 .. to :
          trades[n].before = trades[n - 1].before + trades[n - 1].delta

LEMMA HyperliquidRows ==
  ASSUME NEW k, NEW from \in Nat, NEW trades, NEW to \in Nat, Runnable(trades, to),
         Window(trades, from, to),
         NEW r, IsRun(r, "HYPERLIQUID", k, trades, to), NEW m \in 0 .. to
  PROVE  /\ r[m] \in State /\ GoodRows(r[m].rows, trades, m)
         /\ IF m <= from THEN r[m] = Start
            ELSE Tracks(r[m].cycle, trades[m].before + trades[m].delta)
  <1> DEFINE T == {n \in 0 .. to : /\ r[n] \in State /\ GoodRows(r[n].rows, trades, n)
                                   /\ IF n <= from THEN r[n] = Start
                                      ELSE Tracks(r[n].cycle, trades[n].before + trades[n].delta)}
  <1>1. 0 \in T
    <2>1. r[0] = Start
      BY DEF IsRun
    <2>2. 0 <= from
      OBVIOUS
    <2> QED
      BY <2>1, <2>2, StartIs, NoRows
  <1>2. ASSUME NEW n \in 0 .. to - 1, n \in T PROVE n + 1 \in T
    <2>1. /\ n + 1 \in 1 .. to /\ n + 1 \in 0 .. to /\ n + 1 \in Nat \ {0} /\ (n + 1) - 1 = n
      OBVIOUS
    <2>2. r[n] \in State /\ GoodRows(r[n].rows, trades, n)
      BY <1>2
    <2>4. r[n + 1] = IF n + 1 \in DOMAIN trades THEN HyperliquidStep(r[n], trades[n + 1])
                     ELSE r[n]
      BY <2>1 DEF IsRun, Step
    <2>5. CASE n + 1 <= from
      <3>1. n + 1 \notin DOMAIN trades /\ n <= from
        BY <2>5 DEF Window
      <3>2. r[n + 1] = r[n] /\ GoodRows(r[n].rows, trades, n + 1)
        BY <2>1, <2>2, <2>4, <3>1, SameRows
      <3>3. r[n] = Start
        BY <1>2, <3>1
      <3> QED
        BY <2>1, <2>2, <2>5, <3>2, <3>3
    <2>6. CASE ~(n + 1 <= from)
      <3> DEFINE row == trades[n + 1]
                 p == row.before
                 c == Joined(r[n].cycle, p)
                 new == HyperliquidStep(r[n], row)
      <3>0. n + 1 \in from + 1 .. to /\ n + 1 \in DOMAIN trades
        BY <2>6 DEF Window
      <3>1. IsTrade(row) /\ row.id = n + 1 /\ p \in Int /\ row.delta \in Int
        BY <3>0 DEF Runnable, Window, IsTrade
      <3>2. r[n].cycle = NoCycle \/ Tracks(r[n].cycle, p)
        <4>1. CASE n <= from
          BY <1>2, <4>1, StartIs
        <4>2. CASE ~(n <= from)
          <5>1. n + 1 \in from + 2 .. to
            BY <4>2
          <5>2. p = trades[n].before + trades[n].delta
            BY <2>1, <5>1 DEF Window
          <5> QED
            BY <1>2, <4>2, <5>2
        <4> QED
          BY <4>1, <4>2
      <3> HIDE DEF row
      <3>3. Tracks(c, p) /\ Moved(r[n], c, new, p, p + row.delta, row.id)
        BY <2>2, <3>1, <3>2, HyperliquidMoves
      <3>4. p + row.delta \in Int
        BY <3>1
      <3> HIDE DEF new, c, p
      <3>5. p # 0 /\ ~Same(p, p + row.delta) => SideOf(p) = SideOf(-row.delta)
        BY <3>1, Against
      <3>6. new \in State /\ GoodRows(new.rows, trades, n + 1)
        BY <2>1, <2>2, <3>0, <3>1, <3>3, <3>4, <3>5, MovedRows DEF row
      <3>7. Tracks(new.cycle, p + row.delta)
        BY <3>1, <3>3, <3>4, MovedTracks
      <3>8. r[n + 1] = new
        BY <2>4, <3>0 DEF new, row
      <3> QED
        BY <2>1, <2>6, <3>6, <3>7, <3>8 DEF row, p
    <2> QED
      BY <2>5, <2>6
  <1> HIDE DEF T
  <1>3. 0 .. to \subseteq T
    BY <1>1, <1>2, Induction
  <1> QED
    BY <1>3 DEF T

(***************************************************************************)
(* What a call answers: at most one row for each closing order, under the  *)
(* last of its fills that is known.                                        *)
(***************************************************************************)
LEMMA OneKey ==
  ASSUME BookInv, venue = "HYPERLIQUID"
  PROVE  /\ Keys = {"BOTH"} /\ \A i \in 1 .. Len(book) : book[i].key = "BOTH"
         /\ \A i \in 2 .. Len(book) : book[i].before = After(i - 1)
  <1>1. Keys = {"BOTH"}
    BY DEF Keys
  <1>2. \A i \in 1 .. Len(book) : book[i].key = "BOTH"
    BY <1>1, BookParts
  <1>3. ASSUME NEW i \in 2 .. Len(book) PROVE book[i].before = After(i - 1)
    <2>1. i \in 1 .. Len(book) /\ i - 1 \in 1 .. i - 1 /\ i - 1 \in 1 .. Len(book)
      BY DEF BookInv
    <2>2. Precedes(i - 1, i)
      BY <1>2, <2>1 DEF Precedes
    <2> QED
      BY <2>1, <2>2 DEF BookInv, FillOK
  <1> QED
    BY <1>1, <1>2, <1>3

LEMMA WindowIs ==
  ASSUME BookInv, venue = "HYPERLIQUID", NEW k \in Keys, NEW from \in Nat, NEW to \in 0 .. Len(book)
  PROVE  Window(Trades(k, from, to), from, to)
  <1> DEFINE trades == Trades(k, from, to)
  <1>0. Len(book) \in Nat
    BY DEF BookInv
  <1>1. trades = [i \in from + 1 .. to |-> FillRow(i)]
    BY TradesAre
  <1>2. \A n \in from + 1 .. to : /\ trades[n].before = book[n].before
                                  /\ trades[n].delta = book[n].delta
    BY <1>1 DEF FillRow
  <1>3. DOMAIN trades = from + 1 .. to
    BY <1>1
  <1> HIDE DEF trades
  <1>4. \A n \in from + 1 .. to : trades[n].before \in Int
    <2>1. \A n \in from + 1 .. to : n \in 1 .. Len(book)
      BY <1>0
    <2> QED
      BY <1>2, <2>1, BookParts
  <1>5. ASSUME NEW n \in from + 2 .. to
        PROVE  trades[n].before = trades[n - 1].before + trades[n - 1].delta
    <2>1. n \in from + 1 .. to /\ n - 1 \in from + 1 .. to /\ n \in 2 .. Len(book)
      BY <1>0
    <2>2. book[n].before = After(n - 1)
      BY <2>1, OneKey
    <2> QED
      BY <1>2, <2>1, <2>2 DEF After
  <1> QED
    BY <1>3, <1>4, <1>5 DEF Window, trades

LEMMA ReplayRows ==
  ASSUME BookInv, NEW k \in Keys, NEW from \in Nat, NEW to \in 0 .. Len(book)
  PROVE  GoodRows(Replay(venue, k, Trades(k, from, to), to).rows, Trades(k, from, to), to)
  <1> DEFINE trades == Trades(k, from, to)
  <1>1. to \in Nat /\ to \in 0 .. to
    BY DEF BookInv
  <1>2. Runnable(trades, to)
    <2>1. TradesOK(trades, to)
      BY TradesAre
    <2> HIDE DEF trades
    <2> QED
      BY <2>1 DEF TradesOK, Runnable
  <1>3. venue \in {"ONE_WAY", "HEDGE", "HYPERLIQUID"}
    BY FillConstants DEF BookInv
  <1>4. venue = "HYPERLIQUID" => Window(trades, from, to)
    BY WindowIs
  <1> HIDE DEF trades
  <1>5. PICK r : IsRun(r, venue, k, trades, to) /\ Replay(venue, k, trades, to) = r[to]
    BY <1>1, ReplayIsRun
  <1>6. CASE venue = "ONE_WAY"
    BY <1>1, <1>2, <1>5, <1>6, OneWayRows DEF trades
  <1>7. CASE venue = "HEDGE"
    <2>1. k \in {"LONG", "SHORT"}
      BY <1>7 DEF Keys
    <2> QED
      BY <1>1, <1>2, <1>5, <1>7, <2>1, HedgeRows DEF trades
  <1>8. CASE venue = "HYPERLIQUID"
    BY <1>1, <1>2, <1>4, <1>5, <1>8, HyperliquidRows DEF trades
  <1> QED
    BY <1>3, <1>6, <1>7, <1>8

LEMMA RebuiltRows ==
  ASSUME BookInv, NEW from \in Nat, NEW to \in 0 .. Len(book)
  PROVE  /\ IsFiniteSet(Rebuilt(from, to))
         /\ \A row \in Rebuilt(from, to) :
               /\ row \in Row /\ row.id \in 1 .. to /\ row.id > from
               /\ row.side = SideOf(-book[row.id].delta)
               /\ venue # "HYPERLIQUID" => row.id \in LastFills(to)
  <1> DEFINE R(k) == Replay(venue, k, Trades(k, from, to), to).rows
             all == UNION {R(k) : k \in Keys}
  <1>1. ASSUME NEW k \in Keys
        PROVE  /\ IsFiniteSet(R(k))
               /\ \A row \in R(k) :
                     /\ row \in Row /\ row.id \in 1 .. to
                     /\ row.side = SideOf(-book[row.id].delta)
                     /\ venue # "HYPERLIQUID" => row.id \in LastFills(to)
    <2> DEFINE trades == Trades(k, from, to)
    <2>1. GoodRows(R(k), trades, to)
      BY ReplayRows
    <2>2. TradesOK(trades, to)
      BY TradesAre
    <2>3. venue # "HYPERLIQUID" => DOMAIN trades \subseteq LastFills(to)
      <3>1. CASE venue # "HYPERLIQUID"
        <4>1. trades = [i \in FillsIn(k) \cap LastFills(to) |->
                          [id |-> i, delta |-> Quantity(book[i].trade, to)]]
          BY <3>1, TradesAre
        <4>2. DOMAIN trades = FillsIn(k) \cap LastFills(to)
          BY <4>1
        <4> QED
          BY <4>2
      <3> QED
        BY <3>1
    <2> HIDE DEF trades, R
    <2> QED
      BY <2>1, <2>2, <2>3 DEF GoodRows, TradesOK
  <1> HIDE DEF R
  <1>2. IsFiniteSet(all)
    <2>1. CASE Keys = {"BOTH"}
      <3>1. all = R("BOTH")
        BY <2>1
      <3> QED
        BY <1>1, <2>1, <3>1
    <2>2. CASE Keys = {"LONG", "SHORT"}
      <3>1. all = R("LONG") \cup R("SHORT")
        BY <2>2
      <3>2. IsFiniteSet(R("LONG")) /\ IsFiniteSet(R("SHORT"))
        BY <1>1, <2>2
      <3>3. IsFiniteSet(R("LONG") \cup R("SHORT"))
        BY <3>2, FS_Union, Zenon
      <3> HIDE DEF all
      <3> QED
        BY <3>1, <3>3
    <2> QED
      BY <2>1, <2>2 DEF Keys
  <1>3. Rebuilt(from, to) = {row \in all : from < row.id}
    BY DEF Rebuilt, R
  <1>4. IsFiniteSet(Rebuilt(from, to))
    <2>1. Rebuilt(from, to) \in SUBSET all
      BY <1>3
    <2> QED
      BY <1>2, <2>1, FS_Subset
  <1>5. ASSUME NEW row \in Rebuilt(from, to)
        PROVE  /\ row \in Row /\ row.id \in 1 .. to /\ row.id > from
               /\ row.side = SideOf(-book[row.id].delta)
               /\ venue # "HYPERLIQUID" => row.id \in LastFills(to)
    <2>1. PICK k \in Keys : row \in R(k)
      BY <1>3
    <2>2. from < row.id
      BY <1>3
    <2>3. row \in Row /\ row.id \in Nat
      BY <1>1, <2>1 DEF Row
    <2> QED
      BY <1>1, <2>1, <2>2, <2>3
  <1> QED
    BY <1>4, <1>5

(***************************************************************************)
(* The invariant. A row is named by a fill that a session has read, closed *)
(* the side this fill is against, and every later fill of its trade came   *)
(* after that session.                                                     *)
(***************************************************************************)
RowOK(row, to) ==
    /\ row \in Row /\ row.id \in 1 .. to /\ row.side = SideOf(-book[row.id].delta)
    /\ venue # "HYPERLIQUID" =>
           \A j \in 1 .. Len(book) :
               book[j].trade = book[row.id].trade /\ j > row.id => book[j].read >= row.id

AnswerOK(a) ==
    /\ a.from \in Nat /\ a.to \in 0 .. readTo /\ a.from <= a.to
    /\ IsFiniteSet(a.rows)
    /\ \A row \in a.rows : RowOK(row, a.to) /\ row.id > a.from

RowsInv ==
    /\ cursor \in 0 .. readTo
    /\ IsFiniteSet(stored) /\ \A row \in stored : RowOK(row, readTo)
    /\ pc \in [Workers -> {"idle", "read"}]
    /\ DOMAIN answer = Workers
    /\ \A w \in Workers : AnswerOK(answer[w])

IInv == BookInv /\ RowsInv

LEMMA NoAnswerOK ==
  ASSUME readTo \in Nat
  PROVE  AnswerOK(NoAnswer)
  BY FS_EmptySet DEF AnswerOK, NoAnswer

LEMMA InitInv == Init => IInv
  <1> SUFFICES ASSUME Init PROVE IInv
    OBVIOUS
  <1>1. readTo = 0 /\ cursor = 0 /\ stored = {}
    BY DEF Init
  <1>2. \A w \in Workers : AnswerOK(answer[w])
    BY <1>1, NoAnswerOK DEF Init
  <1> QED
    BY <1>1, <1>2, InitBook, FS_EmptySet DEF IInv, RowsInv, Init

\* a step that leaves the book alone or appends a fill to it keeps a row
LEMMA RowStays ==
  ASSUME IInv, venue' = venue, NEW row, NEW to \in 0 .. readTo, RowOK(row, to),
         \/ book' = book
         \/ /\ Len(book') = Len(book) + 1 /\ book'[Len(book) + 1].read = readTo
            /\ \A i \in 1 .. Len(book) : book'[i] = book[i]
  PROVE  RowOK(row, to)' /\ \A m \in 0 .. Len(book) : to <= m => RowOK(row, m)'
  <1>1. /\ row \in Row /\ row.id \in 1 .. to /\ row.id \in 1 .. Len(book)
        /\ row.side = SideOf(-book[row.id].delta) /\ to \in Nat /\ Len(book) \in Nat
        /\ readTo \in 0 .. Len(book)
    BY DEF IInv, BookInv, RowOK
  <1>2. book'[row.id] = book[row.id]
    BY <1>1
  <1>3. ASSUME venue # "HYPERLIQUID", NEW j \in 1 .. Len(book'),
               book'[j].trade = book'[row.id].trade, j > row.id
        PROVE  book'[j].read >= row.id
    <2>1. CASE j \in 1 .. Len(book)
      <3>1. book'[j] = book[j]
        BY <2>1
      <3> QED
        BY <1>2, <1>3, <2>1, <3>1 DEF RowOK
    <2>2. CASE j \notin 1 .. Len(book)
      <3>1. j = Len(book) + 1 /\ book'[j].read = readTo
        BY <1>1, <2>2
      <3> QED
        BY <1>1, <3>1
    <2> QED
      BY <2>1, <2>2
  <1> QED
    BY <1>1, <1>2, <1>3 DEF RowOK

LEMMA AnswerStays ==
  ASSUME IInv, venue' = venue, NEW a, AnswerOK(a),
         readTo' \in readTo .. Len(book),
         \/ book' = book
         \/ /\ Len(book') = Len(book) + 1 /\ book'[Len(book) + 1].read = readTo
            /\ \A i \in 1 .. Len(book) : book'[i] = book[i]
  PROVE  AnswerOK(a)'
  <1>1. /\ a.from \in Nat /\ a.to \in 0 .. readTo /\ a.from <= a.to /\ IsFiniteSet(a.rows)
        /\ \A row \in a.rows : RowOK(row, a.to) /\ row.id > a.from
        /\ readTo \in Nat
    BY DEF AnswerOK, IInv, BookInv
  <1>2. \A row \in a.rows : RowOK(row, a.to)'
    BY <1>1, RowStays
  <1>3. a.to \in 0 .. readTo'
    BY <1>1
  <1> QED
    BY <1>1, <1>2, <1>3 DEF AnswerOK

LEMMA FillInv ==
  ASSUME IInv, NEW k \in Keys, NEW delta \in Deltas,
         NEW order \in 1 .. MaxFills, NEW trade \in 1 .. MaxFills,
         Fill(k, delta, order, trade)
  PROVE  IInv'
  <1>1. BookInv'
    BY FillBook DEF IInv
  <1>2. /\ Len(book') = Len(book) + 1 /\ book'[Len(book) + 1].read = readTo
        /\ \A i \in 1 .. Len(book) : book'[i] = book[i]
        /\ readTo' = readTo /\ venue' = venue
    <2> SUFFICES ASSUME NEW n, n = Len(book) + 1
                 PROVE  /\ Len(book') = n /\ book'[n].read = readTo
                        /\ \A i \in 1 .. Len(book) : book'[i] = book[i]
                        /\ readTo' = readTo /\ venue' = venue
      OBVIOUS
    <2> QED
      BY Appended DEF IInv
  <1>3. readTo \in 0 .. readTo /\ readTo \in readTo .. Len(book)
    BY DEF IInv, BookInv
  <1>4. \A row \in stored : RowOK(row, readTo)'
    <2> SUFFICES ASSUME NEW row \in stored, NEW to, to = readTo PROVE RowOK(row, to)'
      BY <1>2 DEF RowOK
    <2> QED
      BY <1>2, <1>3, RowStays DEF IInv, RowsInv
  <1>5. \A w \in Workers : AnswerOK(answer[w])'
    <2> SUFFICES ASSUME NEW w \in Workers, NEW a, a = answer[w], a = answer'[w]
                 PROVE  AnswerOK(a)'
      BY DEF Fill, AnswerOK
    <2> QED
      BY <1>2, <1>3, AnswerStays DEF IInv, RowsInv
  <1> QED
    BY <1>1, <1>2, <1>4, <1>5 DEF IInv, RowsInv, Fill

LEMMA ReadInv ==
  ASSUME IInv, NEW w \in Workers, Read(w)
  PROVE  IInv'
  <1> DEFINE from == IF w = "sync" THEN Most(cursor - Overlap, 0) ELSE 0
             to == Len(book)
  <1>0. /\ readTo \in 0 .. Len(book) /\ Len(book) \in Nat /\ cursor \in 0 .. readTo
        /\ DOMAIN book = 1 .. Len(book) /\ pc \in [Workers -> {"idle", "read"}]
        /\ DOMAIN answer = Workers
    BY DEF IInv, BookInv, RowsInv
  <1>1. from \in Nat /\ from <= to /\ to \in 0 .. Len(book)
    BY <1>0, Constants DEF Most
  <1>2. /\ answer' = [answer EXCEPT ![w] = [rows |-> Rebuilt(from, to), from |-> from, to |-> to]]
        /\ pc' = [pc EXCEPT ![w] = "read"] /\ readTo' = to
        /\ UNCHANGED <<venue, initial, book, stored, cursor>>
    BY DEF Read
  <1>3. BookInv'
    <2>1. readTo' \in readTo .. Len(book)
      BY <1>0, <1>2
    <2> QED
      BY <1>2, <2>1, OtherBook DEF IInv
  <1>4. \A row \in stored : RowOK(row, readTo)'
    <2> SUFFICES ASSUME NEW row \in stored, NEW m, m = Len(book) PROVE RowOK(row, m)'
      BY <1>2 DEF RowOK
    <2>1. readTo \in 0 .. readTo /\ m \in 0 .. Len(book) /\ readTo <= m
      BY <1>0
    <2>2. RowOK(row, readTo)
      BY DEF IInv, RowsInv
    <2> QED
      BY <1>2, <2>1, <2>2, RowStays
  <1>5. ASSUME NEW v \in Workers PROVE AnswerOK(answer[v])'
    <2>1. CASE v = w
      <3> SUFFICES ASSUME NEW a, a = [rows |-> Rebuilt(from, to), from |-> from, to |-> to]
                   PROVE  AnswerOK(a)'
        BY <1>0, <1>2, <2>1 DEF AnswerOK
      <3>1. a.rows = Rebuilt(from, to) /\ a.from = from /\ a.to = to
        OBVIOUS
      <3>2. /\ IsFiniteSet(a.rows)
            /\ \A row \in a.rows :
                  /\ row \in Row /\ row.id \in 1 .. a.to /\ row.id > a.from
                  /\ row.side = SideOf(-book[row.id].delta)
                  /\ venue # "HYPERLIQUID" => row.id \in LastFills(a.to)
        <4> HIDE DEF from
        <4> QED
          BY <1>1, <3>1, RebuiltRows DEF IInv
      <3>3. ASSUME NEW row \in a.rows PROVE RowOK(row, a.to)'
        <4>1. ASSUME venue # "HYPERLIQUID", NEW j \in 1 .. Len(book),
                     book[j].trade = book[row.id].trade, j > row.id
              PROVE  FALSE
          <5>1. j \in FillsOf(book[row.id].trade)
            BY <1>0, <4>1 DEF FillsOf
          <5>2. j <= row.id \/ j > Len(book)
            BY <3>1, <3>2, <4>1, <5>1 DEF LastFills
          <5>3. row.id \in Nat
            BY <1>0, <3>1, <3>2
          <5> QED
            BY <1>0, <4>1, <5>2, <5>3
        <4> QED
          BY <1>2, <3>2, <4>1 DEF RowOK
      <3>4. a.from \in Nat /\ a.to \in 0 .. readTo' /\ a.from <= a.to
        <4> HIDE DEF from
        <4> QED
          BY <1>1, <1>2, <3>1
      <3> QED
        BY <3>2, <3>3, <3>4 DEF AnswerOK
    <2>2. CASE v # w
      <3> SUFFICES ASSUME NEW a, a = answer[v] PROVE AnswerOK(a)'
        BY <1>0, <1>2, <2>2 DEF AnswerOK
      <3>1. readTo' \in readTo .. Len(book)
        BY <1>0, <1>2
      <3> QED
        BY <1>2, <3>1, AnswerStays DEF IInv, RowsInv
    <2> QED
      BY <2>1, <2>2
  <1> HIDE DEF from
  <1>6. pc' \in [Workers -> {"idle", "read"}] /\ DOMAIN answer' = Workers
    BY <1>0, <1>2
  <1>7. cursor' \in 0 .. readTo' /\ IsFiniteSet(stored')
    BY <1>0, <1>2 DEF IInv, RowsInv
  <1> QED
    BY <1>2, <1>3, <1>4, <1>5, <1>6, <1>7 DEF IInv, RowsInv

LEMMA DoneInv ==
  ASSUME IInv, NEW w \in Workers, Done(w), IsFiniteSet(stored'),
         \A row \in stored' : row \in stored \/ row \in answer[w].rows,
         cursor' \in {cursor, answer[w].to}
  PROVE  IInv'
  <1>0. /\ readTo \in 0 .. Len(book) /\ Len(book) \in Nat /\ cursor \in 0 .. readTo
        /\ pc \in [Workers -> {"idle", "read"}] /\ DOMAIN answer = Workers
        /\ AnswerOK(answer[w])
    BY DEF IInv, BookInv, RowsInv
  <1>1. /\ UNCHANGED <<venue, initial, book, readTo>>
        /\ pc' = [pc EXCEPT ![w] = "idle"] /\ answer' = [answer EXCEPT ![w] = NoAnswer]
        /\ readTo' \in readTo .. Len(book)
    BY <1>0 DEF Done
  <1>2. BookInv'
    BY <1>1, OtherBook DEF IInv
  <1>3. ASSUME NEW row \in stored' PROVE RowOK(row, readTo)'
    <2> SUFFICES ASSUME NEW m, m = readTo PROVE RowOK(row, m)'
      BY <1>1 DEF RowOK
    <2>1. m \in 0 .. readTo /\ m \in 0 .. Len(book)
      BY <1>0
    <2>2. CASE row \in stored
      <3>1. RowOK(row, m)
        BY <2>2 DEF IInv, RowsInv
      <3> QED
        BY <1>1, <2>1, <3>1, RowStays
    <2>3. CASE row \in answer[w].rows
      <3> SUFFICES ASSUME NEW to, to = answer[w].to PROVE RowOK(row, m)'
        OBVIOUS
      <3>1. RowOK(row, to) /\ to \in 0 .. readTo
        BY <1>0, <2>3 DEF AnswerOK
      <3>2. to <= m
        BY <1>0, <3>1
      <3> QED
        BY <1>1, <2>1, <3>1, <3>2, RowStays
    <2> QED
      BY <2>2, <2>3
  <1>4. ASSUME NEW v \in Workers PROVE AnswerOK(answer[v])'
    <2>1. answer'[v] = NoAnswer \/ answer'[v] = answer[v]
      BY <1>0, <1>1
    <2>2. AnswerOK(NoAnswer)
      BY <1>0, NoAnswerOK
    <2> SUFFICES ASSUME NEW a, a = answer'[v], AnswerOK(a) PROVE AnswerOK(a)'
      BY <2>1, <2>2 DEF AnswerOK, IInv, RowsInv
    <2> QED
      BY <1>1, AnswerStays
  <1>5. pc' \in [Workers -> {"idle", "read"}] /\ DOMAIN answer' = Workers
    BY <1>0, <1>1
  <1>6. cursor' \in 0 .. readTo'
    BY <1>0, <1>1 DEF AnswerOK
  <1> QED
    BY <1>2, <1>3, <1>4, <1>5, <1>6 DEF IInv, RowsInv

LEMMA UpsertedRows ==
  ASSUME NEW rows, NEW items, IsFiniteSet(rows), IsFiniteSet(items)
  PROVE  /\ IsFiniteSet(Upserted(rows, items))
         /\ \A row \in Upserted(rows, items) : row \in rows \/ row \in items
  <1> DEFINE old == {row \in rows : \A item \in items : item.id # row.id}
  <1>1. old \in SUBSET rows
    OBVIOUS
  <1> HIDE DEF old
  <1>2. IsFiniteSet(old)
    BY <1>1, FS_Subset
  <1>3. IsFiniteSet(old \cup items)
    BY <1>2, FS_Union
  <1>4. Upserted(rows, items) = old \cup items
    BY DEF Upserted, old
  <1> QED
    BY <1>1, <1>3, <1>4

LEMMA StepInv == IInv /\ [Next]_vars => IInv'
  <1> SUFFICES ASSUME IInv, [Next]_vars PROVE IInv'
    OBVIOUS
  <1>0. /\ "sync" \in Workers /\ "script" \in Workers /\ IsFiniteSet(stored)
        /\ \A w \in Workers : IsFiniteSet(answer[w].rows)
    BY DEF Workers, IInv, RowsInv, AnswerOK
  <1>1. CASE \E k \in Keys, delta \in Deltas, order, trade \in 1 .. MaxFills :
                 Fill(k, delta, order, trade)
    BY <1>1, FillInv
  <1>2. ASSUME NEW w \in Workers, Read(w) PROVE IInv'
    BY <1>2, ReadInv
  <1>3. ASSUME NEW w \in Workers, GiveUp(w) PROVE IInv'
    BY <1>0, <1>3, DoneInv DEF GiveUp
  <1>4. CASE CommitSync
    BY <1>0, <1>4, DoneInv, UpsertedRows DEF CommitSync
  <1>5. CASE CommitRebuild
    BY <1>0, <1>5, DoneInv, UpsertedRows DEF CommitRebuild
  <1>6. CASE CommitCleanup
    <2> DEFINE kept == stored \ UNION {Surplus(g) : g \in Groups(answer["script"].to)}
    <2>1. stored' = Upserted(kept, answer["script"].rows) /\ cursor' = cursor /\ Done("script")
      BY <1>6 DEF CommitCleanup
    <2>2. kept \in SUBSET stored
      OBVIOUS
    <2> HIDE DEF kept
    <2>3. IsFiniteSet(kept)
      BY <1>0, <2>2, FS_Subset
    <2>4. /\ IsFiniteSet(stored')
          /\ \A row \in stored' : row \in stored \/ row \in answer["script"].rows
      BY <1>0, <2>1, <2>2, <2>3, UpsertedRows
    <2> QED
      BY <1>0, <2>1, <2>4, DoneInv
  <1>7. CASE UNCHANGED vars
    <2>1. UNCHANGED <<venue, initial, book, readTo, stored, cursor, pc, answer>>
      BY <1>7 DEF vars
    <2>2. BookInv'
      <3>1. readTo' \in readTo .. Len(book)
        BY <2>1 DEF IInv, BookInv
      <3> QED
        BY <2>1, <3>1, OtherBook DEF IInv
    <2> QED
      BY <2>1, <2>2 DEF IInv, RowsInv, RowOK, AnswerOK
  <1> QED
    BY <1>1, <1>2, <1>3, <1>4, <1>5, <1>6, <1>7 DEF Next

\* The book holds together, and every row is named by a fill that a session has
\* read and that closes the side the row says.
THEOREM SpecInv == Spec => []IInv
  BY InitInv, StepInv, PTL DEF Spec

\* Types; what the exchange did not report and the adapters rebuilt is always
\* named by a fill that was read, and closed something.
THEOREM SpecTypeOK == Spec => []TypeOK
  <1>1. IInv => TypeOK
    <2> SUFFICES ASSUME IInv PROVE TypeOK
      OBVIOUS
    <2>1. /\ venue \in Venues /\ initial \in [Keys -> -Bound .. Bound]
          /\ book \in Seq(Fills) /\ readTo \in 0 .. Len(book) /\ cursor \in 0 .. readTo
          /\ pc \in [Workers -> {"idle", "read"}] /\ \A w \in Workers : AnswerOK(answer[w])
      BY DEF IInv, BookInv, RowsInv
    <2>2. stored \subseteq [id : 1 .. readTo, side : {"LONG", "SHORT"}, complete : BOOLEAN,
                            max : Nat \ {0}, closed : Nat \ {0}]
      BY DEF IInv, RowsInv, RowOK, Row
    <2>3. cursor <= readTo /\ readTo <= Len(book)
      BY <2>1 DEF BookInv, IInv
    <2>4. \A w \in Workers : answer[w].from <= answer[w].to /\ answer[w].to <= readTo
      BY <2>1 DEF AnswerOK
    <2> QED
      BY <2>1, <2>2, <2>3, <2>4 DEF TypeOK, Bound, Fills
  <1> QED
    BY <1>1, SpecInv, PTL

\* An order that closes a position has one row for each asset it paid fees in,
\* unless a session had read a part of the fills that paid in that asset when the
\* order was filled further.
THEOREM SpecOneRowPerOrder == Spec => []OneRowPerOrder
  <1>1. IInv => OneRowPerOrder
    <2> SUFFICES ASSUME IInv, venue # "HYPERLIQUID", NEW r \in stored, NEW s \in stored,
                        r.id # s.id, book[r.id].trade = book[s.id].trade
                 PROVE  \E i \in FillsOf(book[r.id].trade) :
                            i # book[i].trade /\ book[i].read >= book[i].trade
      BY DEF OneRowPerOrder
    <2>1. /\ Len(book) \in Nat /\ DOMAIN book = 1 .. Len(book)
          /\ r.id \in 1 .. Len(book) /\ s.id \in 1 .. Len(book)
          /\ RowOK(r, readTo) /\ RowOK(s, readTo)
      BY DEF IInv, BookInv, RowsInv, RowOK
    <2>2. \A i \in 1 .. Len(book) : /\ book[i].trade <= i /\ book[i].trade \in Nat
                                    /\ book[i].read \in Nat
      BY BookParts DEF IInv, FillOK
    <2>3. ASSUME NEW x \in 1 .. Len(book), NEW y \in 1 .. Len(book), x < y,
                 book[x].trade = book[y].trade, book[x].trade = book[r.id].trade,
                 book[y].read >= x
          PROVE  \E i \in FillsOf(book[r.id].trade) :
                     i # book[i].trade /\ book[i].read >= book[i].trade
      <3>1. y \in FillsOf(book[r.id].trade)
        BY <2>1, <2>3 DEF FillsOf
      <3>2. y # book[y].trade /\ book[y].read >= book[y].trade
        BY <2>2, <2>3
      <3> QED
        BY <3>1, <3>2
    <2>4. CASE r.id < s.id
      <3>1. book[s.id].read >= r.id
        BY <2>1, <2>4 DEF RowOK
      <3> QED
        BY <2>1, <2>3, <2>4, <3>1
    <2>5. CASE s.id < r.id
      <3>1. book[r.id].read >= s.id
        BY <2>1, <2>5 DEF RowOK
      <3> QED
        BY <2>1, <2>3, <2>5, <3>1
    <2> QED
      BY <2>1, <2>4, <2>5
  <1> QED
    BY <1>1, SpecInv, PTL

\* Of the rows it found for one order the cleanup leaves the one that a
\* synchronisation would write.
THEOREM SpecCleanupMerges == Spec => CleanupMerges
  <1> DEFINE Kept == {r.id : r \in stored} \cap {r.id : r \in stored'}
             A == answer["script"]
             Merges == /\ A.rows \subseteq stored'
                       /\ \A r, s \in stored' :
                             r.id \in Kept /\ s.id \in Kept /\ r.id <= A.to /\ s.id <= A.to
                             /\ r.side = s.side /\ book[r.id].order = book[s.id].order
                                => r.id = s.id
  <1>1. ASSUME IInv, CommitCleanup PROVE Merges
    <2> DEFINE groups == Groups(A.to)
    <2>1. /\ \A g \in groups : Cardinality(Matches(g)) = 1
          /\ stored' = Upserted(stored \ UNION {Surplus(g) : g \in groups}, A.rows)
      BY <1>1 DEF CommitCleanup
    <2>2. A.rows \subseteq stored'
      BY <2>1 DEF Upserted
    <2>3. IInv'
      BY <1>1, StepInv DEF Next
    <2>4. /\ "script" \in Workers /\ AnswerOK(A) /\ readTo \in 0 .. Len(book) /\ Len(book) \in Nat
          /\ UNCHANGED <<book, readTo>>
      BY <1>1 DEF Workers, IInv, RowsInv, BookInv, CommitCleanup, Done
    \* the side of a row follows from its name
    <2>5. \A r \in stored : r.id \in 1 .. Len(book) /\ r.side = SideOf(-book[r.id].delta)
      BY <1>1, <2>4 DEF IInv, RowsInv, RowOK
    <2>6. \A r \in stored' : r.id \in 1 .. Len(book) /\ r.side = SideOf(-book[r.id].delta)
      BY <2>3, <2>4 DEF IInv, RowsInv, RowOK
    <2>7. ASSUME NEW r \in stored', NEW s \in stored', r.id \in Kept, s.id \in Kept,
                 r.id <= A.to, s.id <= A.to, r.side = s.side,
                 book[r.id].order = book[s.id].order, r.id # s.id
          PROVE  FALSE
      <3>1. PICK r0 \in stored, s0 \in stored : r0.id = r.id /\ s0.id = s.id
        BY <2>7
      <3> DEFINE g == Fragments(r.side, book[r.id].order, A.to)
      <3>2. r0.side = r.side /\ s0.side = r.side
        BY <2>5, <2>6, <2>7, <3>1
      <3>3. r0 \in g /\ s0 \in g /\ r0 # s0
        BY <2>7, <3>1, <3>2 DEF Fragments
      <3>4. Cardinality(g) > 1
        <4>1. g \in SUBSET stored /\ IsFiniteSet(stored)
          BY <1>1 DEF Fragments, IInv, RowsInv
        <4> HIDE DEF g
        <4>2. IsFiniteSet(g) /\ Cardinality(g) \in Nat
          BY <4>1, FS_Subset, FS_CardinalityType
        <4>3. Cardinality(g) # 0
          BY <3>3, <4>2, FS_EmptySet
        <4>4. Cardinality(g) # 1
          <5> SUFFICES ASSUME Cardinality(g) = 1 PROVE FALSE
            OBVIOUS
          <5>1. \E x : g = {x}
            BY <4>2, FS_Singleton
          <5> QED
            BY <3>3, <5>1
        <4> QED
          BY <4>2, <4>3, <4>4
      <3>5. g \in groups
        <4>1. r0 \in {x \in stored : x.id <= A.to}
          BY <2>7, <3>1
        <4>2. g = Fragments(r0.side, book[r0.id].order, A.to)
          BY <3>1, <3>2
        <4> HIDE DEF g
        <4> QED
          BY <3>4, <4>1, <4>2 DEF Groups
      <3> HIDE DEF g, groups
      <3>6. ASSUME NEW x \in stored', x.id <= A.to, x.side = r.side,
                   book[x.id].order = book[r.id].order, x \in g \/ \E y \in g : y.id = x.id
            PROVE  \E item \in Matches(g) : item.id = x.id
        <4>1. PICK y \in g : y.id = x.id
          BY <3>6
        <4>2. CASE x \in A.rows
          <5>1. x \in Matches(g)
            BY <4>1, <4>2 DEF Matches
          <5> QED
            BY <5>1
        <4>3. CASE x \notin A.rows
          <5>1. x \in stored \ UNION {Surplus(h) : h \in groups}
            BY <2>1, <4>3 DEF Upserted
          <5>2. x \in g
            BY <3>6, <5>1 DEF Fragments, g
          <5>3. x \notin Surplus(g)
            BY <3>5, <5>1
          <5> QED
            BY <5>2, <5>3 DEF Surplus
        <4> QED
          BY <4>2, <4>3
      <3>7. PICK i \in Matches(g), j \in Matches(g) : i.id = r.id /\ j.id = s.id
        <4>1. \E item \in Matches(g) : item.id = r.id
          BY <2>7, <3>1, <3>3, <3>6
        <4>2. \E item \in Matches(g) : item.id = s.id
          BY <2>7, <3>1, <3>3, <3>6
        <4> QED
          BY <4>1, <4>2
      <3>8. Cardinality(Matches(g)) = 1
        BY <2>1, <3>5 DEF groups
      <3>9. IsFiniteSet(Matches(g))
        <4>1. Matches(g) \in SUBSET A.rows
          BY DEF Matches
        <4> QED
          BY <2>4, <4>1, FS_Subset DEF AnswerOK
      <3>10. \E x : Matches(g) = {x}
        BY <3>8, <3>9, FS_Singleton
      <3> QED
        BY <2>7, <3>7, <3>10
    <2> QED
      BY <2>2, <2>7
  <1>2. IInv /\ [Next]_vars => [CommitCleanup => Merges]_vars
    BY <1>1
  <1> QED
    <2>1. Spec => [][CommitCleanup => Merges]_vars
      BY <1>2, SpecInv, PTL DEF Spec
    <2> QED
      BY <2>1 DEF CleanupMerges

(***************************************************************************)
(* What really happened to one key, as a history h: its position at and    *)
(* what had been taken from its positions until each moment, its fills,    *)
(* the name the row of a closing fill gets, and where the window begins.   *)
(***************************************************************************)
Taken(p, q) ==
    IF p = 0 THEN 0
    ELSE IF ~Same(p, q) THEN Abs(p)
    ELSE IF Abs(q) < Abs(p) THEN Abs(p) - Abs(q) ELSE 0

IsHistory(h, last) ==
    /\ last \in Nat /\ h.from \in Nat /\ h.fills \subseteq 1 .. last
    /\ h.at \in [0 .. last -> Int] /\ h.taken \in [0 .. last -> Int]
    /\ \A n \in 1 .. last :
          IF n \in h.fills
          THEN h.at[n] # h.at[n - 1] /\ h.taken[n] = h.taken[n - 1] + Taken(h.at[n - 1], h.at[n])
          ELSE h.at[n] = h.at[n - 1] /\ h.taken[n] = h.taken[n - 1]

\* the position comes from, goes to or passes through zero
Crosses(h, j) == j \in h.fills /\ ~Same(h.at[j - 1], h.at[j])

Ends(h, i) == Crosses(h, i) /\ h.at[i - 1] # 0

\* the cycle under way after fill n began with fill o, or before all of them
Since(h, o, n) ==
    /\ o \in 0 .. n /\ (o = 0 \/ Crosses(h, o))
    /\ \A j \in o + 1 .. n : ~Crosses(h, j)

IsPeak(h, o, n, max) ==
    /\ \E j \in o .. n : max = Abs(h.at[j])
    /\ \A j \in o .. n : Abs(h.at[j]) <= max

\* the cycle is the one under way, and knows all of it if it began in the window
ExactCycle(cycle, h, n) ==
    /\ Tracks(cycle, h.at[n])
    /\ h.at[n] # 0 =>
          \E o \in 0 .. n :
              /\ Since(h, o, n) /\ (cycle.complete <=> o > h.from)
              /\ cycle.complete =>
                    IsPeak(h, o, n, cycle.max) /\ cycle.closed = h.taken[n] - h.taken[o]

\* the row is that of the cycle which fill i closed
RowIs(row, h, i) ==
    /\ row.id = h.name[i] /\ row.side = SideOf(h.at[i - 1])
    /\ \E o \in 0 .. i - 1 :
          /\ Since(h, o, i - 1) /\ (row.complete <=> o > h.from)
          /\ row.complete =>
                IsPeak(h, o, i - 1, row.max) /\ row.closed = h.taken[i] - h.taken[o]

ExactRows(rows, h, n) ==
    /\ \A row \in rows : \E i \in h.from + 1 .. n : Ends(h, i) /\ RowIs(row, h, i)
    /\ \A i \in h.from + 1 .. n : Ends(h, i) => \E row \in rows : RowIs(row, h, i)

LEMMA HistoryTypes ==
  ASSUME NEW last, NEW h, IsHistory(h, last), NEW m \in 0 .. last
  PROVE  h.at[m] \in Int /\ h.taken[m] \in Int /\ Abs(h.at[m]) \in Nat
  <1>1. h.at[m] \in Int /\ h.taken[m] \in Int
    BY DEF IsHistory
  <1> QED
    BY <1>1, Arithmetic

LEMMA SinceExists ==
  ASSUME NEW last, NEW h, IsHistory(h, last), NEW n \in 0 .. last
  PROVE  \E o \in 0 .. n : Since(h, o, n)
  <1> DEFINE T == {m \in 0 .. last : \E o \in 0 .. m : Since(h, o, m)}
  <1>0. last \in Nat
    BY DEF IsHistory
  <1>1. 0 \in T
    <2>1. Since(h, 0, 0)
      BY DEF Since
    <2> QED
      BY <1>0, <2>1
  <1>2. ASSUME NEW m \in 0 .. last - 1, m \in T PROVE m + 1 \in T
    <2>1. PICK o \in 0 .. m : Since(h, o, m)
      BY <1>2
    <2>2. m + 1 \in 0 .. last /\ o \in 0 .. m + 1 /\ m + 1 \in 0 .. m + 1
      BY <1>0
    <2>3. CASE Crosses(h, m + 1)
      <3>1. Since(h, m + 1, m + 1)
        BY <2>2, <2>3 DEF Since
      <3> QED
        BY <2>2, <3>1
    <2>4. CASE ~Crosses(h, m + 1)
      <3>1. Since(h, o, m + 1)
        BY <2>1, <2>2, <2>4 DEF Since
      <3> QED
        BY <2>2, <3>1
    <2> QED
      BY <2>3, <2>4
  <1> HIDE DEF T
  <1>3. 0 .. last \subseteq T
    BY <1>0, <1>1, <1>2, Induction
  <1> QED
    BY <1>3 DEF T

LEMMA SinceUnique ==
  ASSUME NEW h, NEW n \in Nat, NEW o, NEW u, Since(h, o, n), Since(h, u, n)
  PROVE  o = u
  BY DEF Since

\* a moment without a fill of this key
LEMMA QuietExact ==
  ASSUME NEW last, NEW h, IsHistory(h, last), NEW n \in 0 .. last - 1, n + 1 \notin h.fills,
         NEW cycle, ExactCycle(cycle, h, n), NEW rows, ExactRows(rows, h, n)
  PROVE  ExactCycle(cycle, h, n + 1) /\ ExactRows(rows, h, n + 1)
  <1>0. /\ last \in Nat /\ n + 1 \in 1 .. last /\ n \in 0 .. last /\ (n + 1) - 1 = n
        /\ h.from \in Nat
    BY DEF IsHistory
  <1>1. h.at[n + 1] = h.at[n] /\ h.taken[n + 1] = h.taken[n]
    BY <1>0 DEF IsHistory
  <1>2. ~Crosses(h, n + 1) /\ ~Ends(h, n + 1)
    BY DEF Crosses, Ends
  <1>3. ExactCycle(cycle, h, n + 1)
    <2>1. CASE h.at[n] = 0
      BY <1>1, <2>1 DEF ExactCycle
    <2>2. CASE h.at[n] # 0
      <3>1. PICK o \in 0 .. n :
               /\ Since(h, o, n) /\ (cycle.complete <=> o > h.from)
               /\ cycle.complete =>
                     IsPeak(h, o, n, cycle.max) /\ cycle.closed = h.taken[n] - h.taken[o]
        BY <2>2 DEF ExactCycle
      <3>2. o \in 0 .. n + 1 /\ Since(h, o, n + 1)
        BY <1>0, <1>2, <3>1 DEF Since
      <3>3. IsPeak(h, o, n, cycle.max) => IsPeak(h, o, n + 1, cycle.max)
        <4>1. \A j \in o .. n + 1 : j \in o .. n \/ j = n + 1
          BY <1>0
        <4>2. n \in o .. n /\ \A j \in o .. n : j \in o .. n + 1
          BY <1>0
        <4> QED
          BY <1>1, <4>1, <4>2 DEF IsPeak
      <3> QED
        BY <1>1, <3>1, <3>2, <3>3 DEF ExactCycle
    <2> QED
      BY <2>1, <2>2
  <1>4. ExactRows(rows, h, n + 1)
    <2>1. \A i \in h.from + 1 .. n + 1 : i \in h.from + 1 .. n \/ i = n + 1
      BY <1>0
    <2>2. \A i \in h.from + 1 .. n : i \in h.from + 1 .. n + 1
      BY <1>0
    <2> QED
      BY <1>2, <2>1, <2>2 DEF ExactRows
  <1> QED
    BY <1>3, <1>4

\* a fill
LEMMA MovedExact ==
  ASSUME NEW last, NEW h, IsHistory(h, last), NEW n \in 0 .. last - 1, n + 1 \in h.fills,
         n >= h.from, NEW state, NEW c, ExactCycle(c, h, n), ExactRows(state.rows, h, n),
         NEW new, NEW name, name = h.name[n + 1],
         Moved(state, c, new, h.at[n], h.at[n + 1], name)
  PROVE  ExactCycle(new.cycle, h, n + 1) /\ ExactRows(new.rows, h, n + 1)
  <1> DEFINE p == h.at[n]
             q == h.at[n + 1]
  <1>0. /\ last \in Nat /\ n + 1 \in 1 .. last /\ n \in 0 .. last /\ (n + 1) - 1 = n
        /\ h.from \in Nat /\ n \in Nat /\ n + 1 \in 0 .. last /\ n + 1 \in 0 .. n + 1
        /\ p \in Int /\ q \in Int /\ h.taken[n] \in Int /\ h.taken[n + 1] \in Int
        /\ Abs(p) \in Nat /\ Abs(q) \in Nat
    <2>1. /\ last \in Nat /\ n + 1 \in 1 .. last /\ n \in 0 .. last /\ (n + 1) - 1 = n
          /\ h.from \in Nat /\ n \in Nat /\ n + 1 \in 0 .. last /\ n + 1 \in 0 .. n + 1
      BY DEF IsHistory
    <2> QED
      BY <2>1, HistoryTypes
  <1>1. p # q /\ h.taken[n + 1] = h.taken[n] + Taken(p, q)
    BY <1>0 DEF IsHistory
  <1>2. /\ Crosses(h, n + 1) <=> ~Same(p, q)
        /\ Ends(h, n + 1) <=> ~Same(p, q) /\ p # 0
    BY <1>0 DEF Crosses, Ends
  <1>3. Tracks(c, p) /\ Tracks(new.cycle, q)
    BY <1>0, MovedTracks DEF ExactCycle
  <1>4. /\ \A i \in h.from + 1 .. n + 1 : i \in h.from + 1 .. n \/ i = n + 1
        /\ \A i \in h.from + 1 .. n : i \in h.from + 1 .. n + 1
        /\ n + 1 \in h.from + 1 .. n + 1
    BY <1>0
  <1>5. p # 0 => c.max \in Int /\ c.max >= Abs(p) /\ c.closed \in Nat
    BY <1>3 DEF Tracks, Cycle
  <1>6. ExactCycle(new.cycle, h, n + 1)
    <2>1. CASE q = 0
      BY <1>3, <2>1 DEF ExactCycle
    <2>2. CASE q # 0 /\ ~Same(p, q)
      <3>1. Since(h, n + 1, n + 1)
        BY <1>0, <1>2, <2>2 DEF Since
      <3>2. CycleIs(new.cycle, SideOf(q), TRUE, Abs(q), Abs(q), 0)
        BY <2>2 DEF Moved
      <3>3. IsPeak(h, n + 1, n + 1, Abs(q))
        <4>1. \A j \in n + 1 .. n + 1 : j = n + 1
          BY <1>0
        <4>2. n + 1 \in n + 1 .. n + 1 /\ Abs(q) <= Abs(q)
          BY <1>0
        <4> QED
          BY <4>1, <4>2 DEF IsPeak
      <3>4. n + 1 > h.from /\ 0 = h.taken[n + 1] - h.taken[n + 1]
        BY <1>0
      <3> QED
        BY <1>0, <1>3, <3>1, <3>2, <3>3, <3>4 DEF ExactCycle, CycleIs
    <2>3. CASE q # 0 /\ Same(p, q)
      <3>0. p # 0
        BY <2>3 DEF Same
      <3>1. PICK o \in 0 .. n :
               /\ Since(h, o, n) /\ (c.complete <=> o > h.from)
               /\ c.complete => IsPeak(h, o, n, c.max) /\ c.closed = h.taken[n] - h.taken[o]
        BY <3>0 DEF ExactCycle
      <3>2. o \in 0 .. n + 1 /\ Since(h, o, n + 1)
        BY <1>0, <1>2, <2>3, <3>1 DEF Since
      <3>3. CycleIs(new.cycle, SideOf(p), c.complete, Abs(q), Most(c.max, Abs(q)),
                    c.closed + IF Abs(q) < Abs(p) THEN Abs(p) - Abs(q) ELSE 0)
        BY <2>3 DEF Moved
      <3>4. IsPeak(h, o, n, c.max) => IsPeak(h, o, n + 1, Most(c.max, Abs(q)))
        <4> SUFFICES ASSUME IsPeak(h, o, n, c.max)
                     PROVE  IsPeak(h, o, n + 1, Most(c.max, Abs(q)))
          OBVIOUS
        <4>1. \A j \in o .. n + 1 : j \in o .. n \/ j = n + 1
          BY <1>0
        <4>2. n + 1 \in o .. n + 1 /\ \A j \in o .. n : j \in o .. n + 1
          BY <1>0
        <4>3. \A j \in o .. n : Abs(h.at[j]) \in Int
          <5>1. \A j \in o .. n : j \in 0 .. last
            BY <1>0
          <5> QED
            BY <5>1, HistoryTypes
        <4>4. /\ Most(c.max, Abs(q)) \in {c.max, Abs(q)} /\ Most(c.max, Abs(q)) >= c.max
              /\ Most(c.max, Abs(q)) >= Abs(q) /\ Most(c.max, Abs(q)) \in Int
          BY <1>0, <1>5, <3>0 DEF Most
        <4>5. \E j \in o .. n + 1 : Most(c.max, Abs(q)) = Abs(h.at[j])
          BY <4>2, <4>4 DEF IsPeak
        <4>6. \A j \in o .. n + 1 : Abs(h.at[j]) <= Most(c.max, Abs(q))
          BY <1>5, <3>0, <4>1, <4>3, <4>4 DEF IsPeak
        <4> QED
          BY <4>5, <4>6 DEF IsPeak
      <3>5. Taken(p, q) = IF Abs(q) < Abs(p) THEN Abs(p) - Abs(q) ELSE 0
        BY <2>3, <3>0 DEF Taken
      <3>6. c.complete => new.cycle.closed = h.taken[n + 1] - h.taken[o]
        <4>1. h.taken[o] \in Int
          <5>1. o \in 0 .. last
            BY <1>0
          <5> QED
            BY <5>1, HistoryTypes
        <4>2. new.cycle.closed = c.closed + Taken(p, q) /\ Taken(p, q) \in Int
          BY <1>0, <3>3, <3>5 DEF CycleIs
        <4> HIDE DEF p, q
        <4> QED
          BY <1>0, <1>1, <3>1, <4>1, <4>2
      <3>7. new.cycle.complete = c.complete /\ new.cycle.max = Most(c.max, Abs(q))
        BY <3>3 DEF CycleIs
      <3> QED
        BY <1>3, <3>1, <3>2, <3>4, <3>6, <3>7 DEF ExactCycle
    <2> QED
      BY <2>1, <2>2, <2>3
  <1>7. ExactRows(new.rows, h, n + 1)
    <2>1. CASE p = 0 \/ Same(p, q)
      <3>1. new.rows = state.rows /\ ~Ends(h, n + 1)
        BY <1>2, <2>1 DEF Moved
      <3> QED
        BY <1>4, <3>1 DEF ExactRows
    <2>2. CASE ~(p = 0 \/ Same(p, q))
      <3> DEFINE row == [id |-> name, side |-> SideOf(p), complete |-> c.complete,
                         max |-> c.max, closed |-> c.closed + Abs(p)]
      <3>1. new.rows = state.rows \cup {row} /\ Ends(h, n + 1)
        BY <1>2, <2>2 DEF Moved
      <3>2. PICK o \in 0 .. n :
               /\ Since(h, o, n) /\ (c.complete <=> o > h.from)
               /\ c.complete => IsPeak(h, o, n, c.max) /\ c.closed = h.taken[n] - h.taken[o]
        BY <2>2 DEF ExactCycle
      <3>3. c.complete => c.closed + Abs(p) = h.taken[n + 1] - h.taken[o]
        <4>1. h.taken[o] \in Int
          <5>1. o \in 0 .. last
            BY <1>0
          <5> QED
            BY <5>1, HistoryTypes
        <4>2. Taken(p, q) = Abs(p) /\ c.closed \in Int
          BY <1>5, <2>2 DEF Taken
        <4> HIDE DEF p, q
        <4> QED
          BY <1>0, <1>1, <3>2, <4>1, <4>2
      <3>4. RowIs(row, h, n + 1)
        <4>1. /\ row.id = name /\ row.side = SideOf(p) /\ row.complete = c.complete
              /\ row.max = c.max /\ row.closed = c.closed + Abs(p)
          OBVIOUS
        <4> HIDE DEF row
        <4> QED
          BY <1>0, <3>2, <3>3, <4>1 DEF RowIs
      <3> HIDE DEF row
      <3> QED
        BY <1>4, <3>1, <3>4 DEF ExactRows
    <2> QED
      BY <2>1, <2>2
  <1> QED
    BY <1>6, <1>7

(***************************************************************************)
(* The history of a key of the book.                                       *)
(***************************************************************************)
IsHistoryOf(h, k) ==
    /\ IsHistory(h, Len(book)) /\ h.fills = FillsIn(k) /\ h.at[0] = initial[k]
    /\ \A n \in FillsIn(k) : book[n].before = h.at[n - 1] /\ After(n) = h.at[n]
    /\ k \in {"LONG", "SHORT"} => \A n \in 0 .. Len(book) : OfSide(k, h.at[n])

LEMMA ReductionIs ==
  ASSUME BookInv, NEW j \in 1 .. Len(book)
  PROVE  Reduction(j) = Taken(book[j].before, After(j)) /\ Reduction(j) \in Int
  <1> DEFINE p == book[j].before
             d == book[j].delta
             q == p + d
  <1>1. p \in Int /\ d \in Int /\ d # 0 /\ q \in Int /\ After(j) = q
    BY BookParts DEF After
  <1>2. Reduction(j) = IF p * d < 0 THEN Least(Abs(p), Abs(d)) ELSE 0
    BY DEF Reduction
  <1>3. p * d < 0 <=> (p > 0 /\ d < 0) \/ (p < 0 /\ d > 0)
    BY <1>1, Signs
  <1>4. Reduction(j) = IF (p > 0 /\ d < 0) \/ (p < 0 /\ d > 0) THEN Least(Abs(p), Abs(d)) ELSE 0
    BY <1>2, <1>3
  <1> HIDE DEF p, d
  <1>5. Reduction(j) = Taken(p, q)
    BY <1>1, <1>4 DEF Taken, Same, Least, Abs
  <1>6. Reduction(j) \in Int
    BY <1>1, <1>4 DEF Least, Abs
  <1> QED
    BY <1>1, <1>5, <1>6 DEF p

LEMMA HistoryExists ==
  ASSUME BookInv, NEW k \in Keys, NEW from \in Nat, NEW name
  PROVE  \E h : IsHistoryOf(h, k) /\ h.from = from /\ h.name = name
  <1> DEFINE last == Len(book)
             f == [i \in 1 .. last |-> IF book[i].key = k THEN book[i].delta ELSE 0]
             g == [i \in 1 .. last |-> IF book[i].key = k THEN Reduction(i) ELSE 0]
  <1>1. last \in Nat /\ f \in [1 .. last -> Int] /\ g \in [1 .. last -> Int] /\ initial[k] \in Int
    <2>1. last \in Nat /\ initial[k] \in -MaxShort .. MaxLong
      BY DEF BookInv
    <2>2. \A i \in 1 .. last : book[i].delta \in Int /\ Reduction(i) \in Int
      BY BookParts, ReductionIs
    <2>3. initial[k] \in Int
      BY <2>1, Constants
    <2> QED
      BY <2>1, <2>2, <2>3
  <1>2. PICK s : IsSum(s, f, last)
    <2> HIDE DEF f, last
    <2> QED
      BY <1>1, Sum
  <1>3. PICK t : IsSum(t, g, last)
    <2> HIDE DEF g, last
    <2> QED
      BY <1>1, Sum
  <1>4. /\ s \in [0 .. last -> Int] /\ s[0] = 0
        /\ \A m \in 1 .. last : s[m] = s[m - 1] + IF book[m].key = k THEN book[m].delta ELSE 0
    BY <1>2 DEF IsSum
  <1>5. /\ t \in [0 .. last -> Int]
        /\ \A m \in 1 .. last : t[m] = t[m - 1] + IF book[m].key = k THEN Reduction(m) ELSE 0
    BY <1>3 DEF IsSum
  <1> HIDE DEF f, g
  <1> DEFINE x == [m \in 0 .. last |-> initial[k] + s[m]]
             h == [at |-> x, taken |-> t, fills |-> FillsIn(k), name |-> name, from |-> from]
  <1>6. /\ x \in [0 .. last -> Int] /\ x[0] = initial[k]
        /\ \A m \in 1 .. last : x[m] = x[m - 1] + IF book[m].key = k THEN book[m].delta ELSE 0
    <2>1. \A m \in 0 .. last : s[m] \in Int
      BY <1>4
    <2>2. x \in [0 .. last -> Int]
      BY <1>1, <2>1
    <2>3. x[0] = initial[k]
      BY <1>1, <1>4
    <2>4. ASSUME NEW m \in 1 .. last
          PROVE  x[m] = x[m - 1] + IF book[m].key = k THEN book[m].delta ELSE 0
      <3>1. m - 1 \in 0 .. last /\ m \in 0 .. last
        BY <1>1
      <3>2. x[m] = initial[k] + s[m] /\ x[m - 1] = initial[k] + s[m - 1]
        BY <3>1
      <3>3. (IF book[m].key = k THEN book[m].delta ELSE 0) \in Int
        BY BookParts
      <3>4. s[m] = s[m - 1] + IF book[m].key = k THEN book[m].delta ELSE 0
        BY <1>4
      <3>5. s[m] \in Int /\ s[m - 1] \in Int
        BY <2>1, <3>1
      <3> HIDE DEF x
      <3> QED
        BY <1>1, <3>2, <3>3, <3>4, <3>5
    <2> QED
      BY <2>2, <2>3, <2>4
  <1> HIDE DEF x
  <1> DEFINE At(m) == \/ (\A j \in 1 .. m : book[j].key # k) /\ x[m] = initial[k]
                      \/ \E j \in 1 .. m : /\ book[j].key = k /\ x[m] = After(j)
                                           /\ \A i \in j + 1 .. m : book[i].key # k
             T == {m \in 0 .. last : At(m)}
  <1>7. ASSUME NEW m \in 1 .. last, At(m - 1), book[m].key = k
        PROVE  book[m].before = x[m - 1] /\ After(m) = x[m]
    <2>1. FillOK(m) /\ book[m].before \in Int /\ book[m].delta \in Int
      BY BookParts
    <2>2. book[m].before = x[m - 1]
      <3>1. CASE (\A j \in 1 .. m - 1 : book[j].key # k) /\ x[m - 1] = initial[k]
        BY <1>7, <2>1, <3>1 DEF FillOK
      <3>2. CASE \E j \in 1 .. m - 1 : /\ book[j].key = k /\ x[m - 1] = After(j)
                                       /\ \A i \in j + 1 .. m - 1 : book[i].key # k
        <4>1. PICK j \in 1 .. m - 1 : /\ book[j].key = k /\ x[m - 1] = After(j)
                                      /\ \A i \in j + 1 .. m - 1 : book[i].key # k
          BY <3>2
        <4>2. Precedes(j, m)
          BY <1>1, <1>7, <4>1 DEF Precedes
        <4> QED
          BY <2>1, <4>1, <4>2 DEF FillOK
      <3> QED
        BY <1>7, <3>1, <3>2
    <2>3. x[m] = x[m - 1] + book[m].delta
      BY <1>6, <1>7
    <2> QED
      BY <2>2, <2>3 DEF After
  <1>8. \A m \in 0 .. last : At(m)
    <2>1. 0 \in T
      BY <1>1, <1>6
    <2>2. ASSUME NEW m \in 0 .. last - 1, m \in T PROVE m + 1 \in T
      <3>1. m + 1 \in 1 .. last /\ m + 1 \in 0 .. last /\ (m + 1) - 1 = m
        BY <1>1
      <3>2. At(m)
        BY <2>2
      <3>3. CASE book[m + 1].key = k
        <4>1. After(m + 1) = x[m + 1]
          BY <1>7, <3>1, <3>2, <3>3
        <4>2. m + 1 \in 1 .. m + 1 /\ \A i \in (m + 1) + 1 .. m + 1 : book[i].key # k
          BY <3>1
        <4> QED
          BY <3>1, <3>3, <4>1, <4>2
      <3>4. CASE book[m + 1].key # k
        <4>1. x[m + 1] = x[m]
          <5>1. x[m + 1] = x[m] + 0 /\ x[m] \in Int
            BY <1>6, <3>1, <3>4
          <5> QED
            BY <5>1
        <4>2. \A i \in 1 .. m + 1 : i \in 1 .. m \/ i = m + 1
          BY <3>1
        <4>3. \A j \in 1 .. m : j \in 1 .. m + 1 /\ \A i \in j + 1 .. m + 1 :
                                                        i \in j + 1 .. m \/ i = m + 1
          BY <3>1
        <4>4. At(m + 1)
          <5>1. CASE (\A j \in 1 .. m : book[j].key # k) /\ x[m] = initial[k]
            BY <3>4, <4>1, <4>2, <5>1
          <5>2. CASE \E j \in 1 .. m : /\ book[j].key = k /\ x[m] = After(j)
                                       /\ \A i \in j + 1 .. m : book[i].key # k
            <6>1. PICK j \in 1 .. m : /\ book[j].key = k /\ x[m] = After(j)
                                      /\ \A i \in j + 1 .. m : book[i].key # k
              BY <5>2
            <6>2. \A i \in j + 1 .. m + 1 : book[i].key # k
              BY <3>4, <4>3, <6>1
            <6> QED
              BY <4>1, <4>3, <6>1, <6>2
          <5> QED
            BY <3>2, <5>1, <5>2
        <4> QED
          BY <3>1, <4>4
      <3> QED
        BY <3>3, <3>4
    <2> HIDE DEF T
    <2>3. 0 .. last \subseteq T
      BY <1>1, <2>1, <2>2, Induction
    <2> QED
      BY <2>3 DEF T
  <1>9. \A n \in FillsIn(k) : /\ n \in 1 .. last /\ book[n].key = k
                              /\ book[n].before = x[n - 1] /\ After(n) = x[n]
    <2> SUFFICES ASSUME NEW n \in FillsIn(k)
                 PROVE  /\ n \in 1 .. last /\ book[n].key = k
                        /\ book[n].before = x[n - 1] /\ After(n) = x[n]
      OBVIOUS
    <2>1. n \in 1 .. last /\ book[n].key = k
      BY DEF FillsIn, BookInv
    <2>2. n - 1 \in 0 .. last
      BY <1>1, <2>1
    <2>3. At(n - 1)
      BY <1>8, <2>2
    <2> HIDE DEF At
    <2> QED
      BY <1>7, <2>1, <2>3
  <1>10. k \in {"LONG", "SHORT"} => \A n \in 0 .. last : OfSide(k, x[n])
    <2> SUFFICES ASSUME k \in {"LONG", "SHORT"}, NEW n \in 0 .. last PROVE OfSide(k, x[n])
      OBVIOUS
    <2>1. At(n)
      BY <1>8
    <2>2. OfSide(k, initial[k])
      BY DEF BookInv
    <2>3. ASSUME NEW j \in 1 .. n, book[j].key = k PROVE OfSide(k, After(j))
      <3>1. j \in 1 .. last
        BY <1>1
      <3> QED
        BY <2>3, <3>1, BookParts DEF FillOK
    <2> QED
      BY <2>1, <2>2, <2>3
  <1>11. ASSUME NEW n \in 1 .. last
         PROVE  IF n \in FillsIn(k)
                THEN x[n] # x[n - 1] /\ t[n] = t[n - 1] + Taken(x[n - 1], x[n])
                ELSE x[n] = x[n - 1] /\ t[n] = t[n - 1]
    <2>1. n - 1 \in 0 .. last /\ n \in 0 .. last
      BY <1>1
    <2>2. x[n] \in Int /\ x[n - 1] \in Int /\ t[n] \in Int /\ t[n - 1] \in Int
      BY <1>5, <1>6, <2>1
    <2>3. n \in FillsIn(k) <=> book[n].key = k
      BY DEF FillsIn, BookInv
    <2>4. CASE n \in FillsIn(k)
      <3>1. x[n] = x[n - 1] + book[n].delta /\ book[n].delta \in Int \ {0}
        BY <1>6, <2>3, <2>4, BookParts
      <3>2. Reduction(n) = Taken(x[n - 1], x[n])
        BY <1>9, <2>4, ReductionIs
      <3> QED
        BY <1>5, <2>2, <2>3, <2>4, <3>1, <3>2
    <2>5. CASE n \notin FillsIn(k)
      <3>1. x[n] = x[n - 1] + 0 /\ t[n] = t[n - 1] + 0
        BY <1>5, <1>6, <2>3, <2>5
      <3> QED
        BY <2>2, <2>5, <3>1
    <2> QED
      BY <2>4, <2>5
  <1>12. /\ h.at = x /\ h.taken = t /\ h.fills = FillsIn(k) /\ h.name = name /\ h.from = from
    OBVIOUS
  <1> HIDE DEF h, At
  <1>13. IsHistory(h, last)
    <2>1. FillsIn(k) \subseteq 1 .. last
      BY <1>9
    <2> QED
      BY <1>1, <1>5, <1>6, <1>11, <1>12, <2>1 DEF IsHistory
  <1>14. IsHistoryOf(h, k)
    BY <1>6, <1>9, <1>10, <1>12, <1>13 DEF IsHistoryOf
  <1> QED
    BY <1>12, <1>14

(***************************************************************************)
(* The cycle a fill closes, by the history of its key.                     *)
(***************************************************************************)
LEMMA EndsIs ==
  ASSUME BookInv, NEW k \in Keys, NEW h, IsHistoryOf(h, k), NEW j \in 1 .. Len(book),
         book[j].key = k
  PROVE  /\ j \in FillsIn(k) /\ j - 1 \in 0 .. Len(book)
         /\ book[j].before * After(j) <= 0 <=> Crosses(h, j)
         /\ Closes(j) <=> Ends(h, j)
         /\ book[j].before = h.at[j - 1]
  <1>1. /\ j \in FillsIn(k) /\ j - 1 \in 0 .. Len(book)
        /\ book[j].before \in Int /\ After(j) \in Int
    BY BookParts DEF FillsIn
  <1>2. book[j].before = h.at[j - 1] /\ After(j) = h.at[j] /\ j \in h.fills
    BY <1>1 DEF IsHistoryOf
  <1>3. book[j].before * After(j) <= 0 <=> ~Same(book[j].before, After(j))
    BY <1>1, Signs DEF Same
  <1> QED
    BY <1>1, <1>2, <1>3 DEF Crosses, Ends, Closes

LEMMA CycleOfIs ==
  ASSUME BookInv, NEW k \in Keys, NEW h, IsHistoryOf(h, k), NEW i \in 1 .. Len(book),
         book[i].key = k, NEW o, Since(h, o, i - 1)
  PROVE  CycleOf(i) = {j \in FillsIn(k) : o < j /\ j <= i}
  <1>0. FillsIn(k) \subseteq 1 .. Len(book) /\ \A j \in FillsIn(k) : book[j].key = k
    BY DEF FillsIn, BookInv
  <1>1. o \in 0 .. i - 1 /\ (o = 0 \/ Crosses(h, o)) /\ \A j \in o + 1 .. i - 1 : ~Crosses(h, j)
    BY DEF Since
  <1> DEFINE earlier == {j \in FillsIn(k) : j < i /\ book[j].before * After(j) <= 0}
  <1>2. earlier = {j \in FillsIn(k) : j < i /\ Crosses(h, j)}
    <2>1. \A j \in FillsIn(k) : book[j].before * After(j) <= 0 <=> Crosses(h, j)
      BY <1>0, EndsIs
    <2> QED
      BY <2>1
  <1>3. CycleOf(i) = {j \in FillsIn(k) : j <= i /\ \A e \in earlier : e < j}
    BY DEF CycleOf
  <1> HIDE DEF earlier
  <1>4. ASSUME NEW j \in FillsIn(k), j <= i
        PROVE  (\A e \in earlier : e < j) <=> o < j
    <2>1. ASSUME o < j, NEW e \in earlier PROVE e < j
      BY <1>0, <1>1, <1>2, <2>1
    <2>2. ASSUME \A e \in earlier : e < j PROVE o < j
      <3>1. CASE o = 0
        BY <1>0, <3>1
      <3>2. CASE o # 0
        <4>1. o \in FillsIn(k)
          BY <1>1, <3>2 DEF Crosses, IsHistoryOf
        <4>2. o \in earlier
          BY <1>0, <1>1, <1>2, <3>2, <4>1
        <4> QED
          BY <2>2, <4>2
      <3> QED
        BY <3>1, <3>2
    <2> QED
      BY <2>1, <2>2
  <1> QED
    BY <1>3, <1>4

LEMMA PeakIs ==
  ASSUME BookInv, NEW k \in Keys, NEW h, IsHistoryOf(h, k), NEW i \in 1 .. Len(book),
         book[i].key = k, NEW o, Since(h, o, i - 1), NEW max, IsPeak(h, o, i - 1, max)
  PROVE  Peak(i) = max
  <1> DEFINE C == {j \in FillsIn(k) : o < j /\ j <= i}
             S == {Abs(book[j].before) : j \in C}
  <1>0. /\ FillsIn(k) \subseteq 1 .. Len(book) /\ \A j \in FillsIn(k) : book[j].key = k
        /\ Len(book) \in Nat /\ o \in 0 .. i - 1 /\ i \in FillsIn(k)
    BY DEF FillsIn, BookInv, Since
  <1>1. Peak(i) = Max(S)
    <2>1. CycleOf(i) = C
      BY CycleOfIs
    <2> HIDE DEF C
    <2> QED
      BY <2>1 DEF Peak
  <1>2. \A j \in C : book[j].before = h.at[j - 1] /\ j - 1 \in o .. i - 1 /\ j - 1 \in 0 .. Len(book)
    BY <1>0, EndsIs
  <1>3. \A n \in o .. i - 1 : \E j \in C : h.at[j - 1] = h.at[n]
    <2> DEFINE T == {m \in 0 .. (i - 1) - o : \E j \in C : h.at[j - 1] = h.at[(i - 1) - m]}
    <2>1. 0 \in T
      <3>1. i \in C /\ (i - 1) - 0 = i - 1 /\ 0 \in 0 .. (i - 1) - o
        BY <1>0
      <3> HIDE DEF C
      <3> QED
        BY <3>1
    <2>2. ASSUME NEW m \in 0 .. ((i - 1) - o) - 1, m \in T PROVE m + 1 \in T
      <3> DEFINE n == (i - 1) - (m + 1)
      <3>1. /\ n + 1 \in 1 .. Len(book) /\ (n + 1) - 1 = n /\ n + 1 = (i - 1) - m
            /\ m + 1 \in 0 .. (i - 1) - o /\ o < n + 1 /\ n + 1 <= i
        BY <1>0
      <3>2. CASE n + 1 \in FillsIn(k)
        <4>1. n + 1 \in C
          BY <3>1, <3>2
        <4> HIDE DEF C, n
        <4>2. \E j \in C : h.at[j - 1] = h.at[n]
          BY <3>1, <4>1
        <4> QED
          BY <3>1, <4>2 DEF n
      <3>3. CASE n + 1 \notin FillsIn(k)
        <4> HIDE DEF C, n
        <4>1. h.at[n + 1] = h.at[n]
          BY <3>1, <3>3 DEF IsHistoryOf, IsHistory
        <4>2. \E j \in C : h.at[j - 1] = h.at[n]
          BY <2>2, <3>1, <4>1
        <4> QED
          BY <3>1, <4>2 DEF n
      <3> QED
        BY <3>2, <3>3
    <2> HIDE DEF T
    <2>3. 0 .. (i - 1) - o \subseteq T
      <3>1. (i - 1) - o \in Nat
        BY <1>0
      <3> QED
        BY <2>1, <2>2, <3>1, Induction
    <2>4. \A n \in o .. i - 1 : (i - 1) - n \in T /\ (i - 1) - ((i - 1) - n) = n
      BY <1>0, <2>3
    <2> HIDE DEF C
    <2> QED
      BY <2>4 DEF T
  <1>4. \A n \in 0 .. Len(book) : Abs(h.at[n]) \in Nat
    BY HistoryTypes DEF IsHistoryOf
  <1>5. max \in S
    <2>1. PICK n \in o .. i - 1 : max = Abs(h.at[n])
      BY DEF IsPeak
    <2>2. PICK j \in C : h.at[j - 1] = h.at[n]
      BY <1>3
    <2> HIDE DEF C
    <2> QED
      BY <1>2, <2>1, <2>2
  <1>6. \A x \in S : x <= max /\ x \in Nat
    <2> SUFFICES ASSUME NEW j \in C
                 PROVE  Abs(book[j].before) <= max /\ Abs(book[j].before) \in Nat
      OBVIOUS
    <2> HIDE DEF C
    <2> QED
      BY <1>2, <1>4 DEF IsPeak
  <1> HIDE DEF S
  <1>7. \E x \in S : \A y \in S : x >= y
    BY <1>5, <1>6
  <1>8. Max(S) \in S /\ \A y \in S : Max(S) >= y
    BY <1>7 DEF Max
  <1> QED
    BY <1>1, <1>5, <1>6, <1>8

LEMMA ClosedIs ==
  ASSUME BookInv, NEW k \in Keys, NEW h, IsHistoryOf(h, k), NEW i \in 1 .. Len(book),
         book[i].key = k, NEW o, Since(h, o, i - 1)
  PROVE  Closed(i) = h.taken[i] - h.taken[o]
  <1> DEFINE f == [j \in 1 .. i |-> IF j \in CycleOf(i) THEN Reduction(j) ELSE 0]
             s == [m \in 0 .. i |-> IF m <= o THEN 0 ELSE h.taken[m] - h.taken[o]]
  <1>0. /\ FillsIn(k) \subseteq 1 .. Len(book) /\ \A j \in FillsIn(k) : book[j].key = k
        /\ Len(book) \in Nat /\ o \in 0 .. i - 1 /\ i \in Nat /\ i <= Len(book)
        /\ \A m \in 0 .. Len(book) : h.taken[m] \in Int
    BY HistoryTypes DEF FillsIn, BookInv, Since, IsHistoryOf
  <1>1. CycleOf(i) = {j \in FillsIn(k) : o < j /\ j <= i}
    BY CycleOfIs
  <1>2. f \in [1 .. i -> Int]
    <2>1. \A j \in 1 .. i : Reduction(j) \in Int
      <3>1. \A j \in 1 .. i : j \in 1 .. Len(book)
        BY <1>0
      <3> QED
        BY <3>1, ReductionIs
    <2> QED
      BY <2>1
  <1>3. Closed(i) = SumTo(f, i)
    BY DEF Closed
  <1>4. s \in [0 .. i -> Int] /\ s[0] = 0 /\ s[i] = h.taken[i] - h.taken[o]
    <2>1. \A m \in 0 .. i : h.taken[m] \in Int /\ h.taken[o] \in Int
      BY <1>0
    <2>2. s \in [0 .. i -> Int]
      BY <2>1
    <2>3. s[0] = 0 /\ s[i] = h.taken[i] - h.taken[o]
      BY <1>0
    <2> QED
      BY <2>2, <2>3
  <1>5. ASSUME NEW m \in 1 .. i PROVE s[m] = s[m - 1] + f[m]
    <2>1. /\ m \in 1 .. Len(book) /\ m \in 0 .. i /\ m - 1 \in 0 .. i
          /\ m - 1 \in 0 .. Len(book) /\ m \in 0 .. Len(book) /\ o \in 0 .. Len(book)
      BY <1>0
    <2>2. s[m] = (IF m <= o THEN 0 ELSE h.taken[m] - h.taken[o])
          /\ s[m - 1] = (IF m - 1 <= o THEN 0 ELSE h.taken[m - 1] - h.taken[o])
      BY <2>1
    <2>3. f[m] = IF m \in FillsIn(k) /\ o < m THEN Reduction(m) ELSE 0
      BY <1>0, <1>1
    <2> HIDE DEF f, s
    <2>4. h.taken[m] \in Int /\ h.taken[m - 1] \in Int /\ h.taken[o] \in Int
      BY <1>0, <2>1
    <2>5. CASE m \in FillsIn(k)
      <3>1. Reduction(m) = Taken(h.at[m - 1], h.at[m]) /\ Reduction(m) \in Int
        BY <2>1, <2>5, ReductionIs DEF IsHistoryOf
      <3>2. h.taken[m] = h.taken[m - 1] + Reduction(m)
        BY <2>1, <2>5, <3>1 DEF IsHistoryOf, IsHistory
      <3>3. m - 1 <= o /\ ~(m <= o) => h.taken[m - 1] = h.taken[o]
        <4>1. m - 1 <= o /\ ~(m <= o) => m - 1 = o
          BY <1>0
        <4> QED
          BY <4>1
      <3> QED
        BY <1>0, <2>2, <2>3, <2>4, <2>5, <3>1, <3>2, <3>3
    <2>6. CASE m \notin FillsIn(k)
      <3>1. h.taken[m] = h.taken[m - 1]
        BY <2>1, <2>6 DEF IsHistoryOf, IsHistory
      <3>2. m - 1 <= o /\ ~(m <= o) => h.taken[m - 1] = h.taken[o]
        <4>1. m - 1 <= o /\ ~(m <= o) => m - 1 = o
          BY <1>0
        <4> QED
          BY <4>1
      <3> QED
        BY <1>0, <2>2, <2>3, <2>4, <2>6, <3>1, <3>2
    <2> QED
      BY <2>5, <2>6
  <1> HIDE DEF f, s
  <1>6. IsSum(s, f, i)
    BY <1>4, <1>5 DEF IsSum
  <1>7. SumTo(f, i) = s[i]
    BY <1>0, <1>2, <1>6, SumToIs
  <1> QED
    BY <1>3, <1>4, <1>7

\* a complete row of the history is the true one
LEMMA TrueRowIs ==
  ASSUME BookInv, NEW k \in Keys, NEW h, IsHistoryOf(h, k), NEW i \in 1 .. Len(book), Ends(h, i),
         NEW row, RowIs(row, h, i)
  PROVE  /\ Closes(i) /\ book[i].key = k /\ row.id = h.name[i]
         /\ row.side = SideOf(book[i].before)
         /\ row.complete => row.max = Peak(i) /\ row.closed = Closed(i)
  <1>1. i \in FillsIn(k) /\ book[i].key = k
    BY DEF Ends, Crosses, IsHistoryOf, FillsIn
  <1>2. Closes(i) /\ book[i].before = h.at[i - 1]
    BY <1>1, EndsIs
  <1>3. row.complete => row.max = Peak(i) /\ row.closed = Closed(i)
    <2> SUFFICES ASSUME row.complete PROVE row.max = Peak(i) /\ row.closed = Closed(i)
      OBVIOUS
    <2>1. PICK o : Since(h, o, i - 1) /\ IsPeak(h, o, i - 1, row.max)
                   /\ row.closed = h.taken[i] - h.taken[o]
      BY DEF RowIs
    <2> QED
      BY <1>1, <2>1, PeakIs, ClosedIs
  <1> QED
    BY <1>1, <1>2, <1>3 DEF RowIs

(***************************************************************************)
(* Hyperliquid: the rows of a window are those of the cycles that ended in *)
(* it, whole where they began in it.                                       *)
(***************************************************************************)
LEMMA HyperliquidExact ==
  ASSUME BookInv, venue = "HYPERLIQUID", NEW k \in Keys, NEW from \in Nat,
         NEW to \in 0 .. Len(book), from <= to, NEW h, IsHistoryOf(h, k), h.from = from,
         \A i \in 1 .. to : h.name[i] = i
  PROVE  ExactRows(Replay(venue, k, Trades(k, from, to), to).rows, h, to)
  <1> DEFINE trades == Trades(k, from, to)
             last == Len(book)
  <1>0. /\ to \in Nat /\ last \in Nat /\ to <= last /\ IsHistory(h, last) /\ h.fills = 1 .. last
        /\ from \in 0 .. last
    <2>1. FillsIn(k) = 1 .. last
      BY OneKey DEF FillsIn, BookInv
    <2> QED
      BY <2>1 DEF BookInv, IsHistoryOf
  <1>1. trades = [i \in from + 1 .. to |-> FillRow(i)]
    BY TradesAre
  <1>2. /\ DOMAIN trades = from + 1 .. to
        /\ \A n \in from + 1 .. to : /\ IsTrade(trades[n]) /\ trades[n].id = n
                                     /\ trades[n].before = h.at[n - 1]
                                     /\ trades[n].before + trades[n].delta = h.at[n]
    <2>1. DOMAIN trades = from + 1 .. to
      BY <1>1
    <2>2. ASSUME NEW n \in from + 1 .. to
          PROVE  /\ trades[n].id = n /\ trades[n].before = book[n].before
                 /\ trades[n].delta = book[n].delta
      BY <1>1 DEF FillRow
    <2>3. TradesOK(trades, to)
      BY TradesAre
    <2> HIDE DEF trades
    <2>4. ASSUME NEW n \in from + 1 .. to
          PROVE  /\ IsTrade(trades[n]) /\ trades[n].id = n
                 /\ trades[n].before = h.at[n - 1]
                 /\ trades[n].before + trades[n].delta = h.at[n]
      <3>1. n \in FillsIn(k)
        BY <1>0 DEF IsHistoryOf
      <3>2. book[n].before = h.at[n - 1] /\ After(n) = h.at[n]
        BY <3>1 DEF IsHistoryOf
      <3>3. n \in DOMAIN trades
        BY <2>1
      <3> QED
        BY <2>2, <2>3, <3>2, <3>3 DEF TradesOK, After
    <2> QED
      BY <2>1, <2>4
  <1>3. Runnable(trades, to)
    <2>1. TradesOK(trades, to)
      BY TradesAre
    <2> HIDE DEF trades
    <2> QED
      BY <2>1 DEF TradesOK, Runnable
  <1>4. Window(trades, from, to)
    BY WindowIs
  <1> HIDE DEF trades
  <1>5. PICK r : IsRun(r, "HYPERLIQUID", k, trades, to) /\ Replay(venue, k, trades, to) = r[to]
    BY <1>0, ReplayIsRun
  <1> DEFINE T == {m \in 0 .. to : m >= from =>
                      /\ ExactCycle(Joined(r[m].cycle, h.at[m]), h, m)
                      /\ ExactRows(r[m].rows, h, m)}
  <1>6. ASSUME NEW m \in 0 .. to, m = from
        PROVE  ExactCycle(Joined(r[m].cycle, h.at[m]), h, m) /\ ExactRows(r[m].rows, h, m)
    <2>1. r[m] = Start
      <3>1. IF m <= from THEN r[m] = Start
            ELSE Tracks(r[m].cycle, trades[m].before + trades[m].delta)
        BY <1>0, <1>3, <1>4, <1>5, HyperliquidRows
      <3>2. m <= from
        BY <1>0, <1>6
      <3> QED
        BY <3>1, <3>2
    <2>2. m \in 0 .. last /\ h.at[m] \in Int /\ Abs(h.at[m]) \in Nat
      <3>1. m \in 0 .. last
        BY <1>0
      <3> QED
        BY <1>0, <3>1, HistoryTypes
    <2>3. ExactRows(r[m].rows, h, m)
      <3>1. h.from + 1 .. m = {}
        BY <1>0, <1>6
      <3> QED
        BY <2>1, <3>1, StartIs DEF ExactRows
    <2>4. CASE h.at[m] = 0
      BY <2>1, <2>3, <2>4, StartIs DEF Joined, ExactCycle, Tracks
    <2>5. CASE h.at[m] # 0
      <3> DEFINE c == NewCycle(SideOf(h.at[m]), FALSE, Abs(h.at[m]))
      <3>1. Joined(r[m].cycle, h.at[m]) = c
        BY <2>1, <2>5, StartIs DEF Joined
      <3>2. CycleIs(c, SideOf(h.at[m]), FALSE, Abs(h.at[m]), Abs(h.at[m]), 0)
        <4>1. SideOf(h.at[m]) \in {"LONG", "SHORT"} /\ Abs(h.at[m]) \in Int
          BY <2>2 DEF SideOf
        <4> QED
          BY <4>1, NewCycleIs, Zenon
      <3> HIDE DEF c
      <3>3. PICK o \in 0 .. m : Since(h, o, m)
        BY <1>0, <2>2, SinceExists
      <3>4. ~(o > h.from) /\ 0 \in Nat /\ Abs(h.at[m]) >= Abs(h.at[m])
        BY <1>0, <1>6, <2>2
      <3>5. Tracks(c, h.at[m])
        BY <2>5, <3>2, <3>4 DEF CycleIs, Tracks
      <3>6. ExactCycle(c, h, m)
        BY <3>2, <3>3, <3>4, <3>5 DEF CycleIs, ExactCycle
      <3> QED
        BY <2>3, <3>1, <3>6
    <2> QED
      BY <2>4, <2>5
  <1>7. 0 \in T
    BY <1>0, <1>6
  <1>8. ASSUME NEW m \in 0 .. to - 1, m \in T PROVE m + 1 \in T
    <2>1. /\ m + 1 \in 1 .. to /\ m + 1 \in 0 .. to /\ (m + 1) - 1 = m /\ m \in 0 .. to
          /\ m \in 0 .. last - 1 /\ m \in 0 .. last /\ m + 1 \in 0 .. last
      BY <1>0
    <2>2. CASE m + 1 < from
      BY <1>0, <2>1, <2>2
    <2>3. CASE m + 1 = from
      BY <1>6, <2>1, <2>3
    <2>4. CASE m >= from
      <3> DEFINE row == trades[m + 1]
                 new == HyperliquidStep(r[m], row)
      <3>1. m + 1 \in from + 1 .. to /\ m + 1 \in h.fills
        BY <1>0, <2>1, <2>4
      <3>2. IsTrade(row) /\ row.id = m + 1 /\ row.before = h.at[m] /\ row.before + row.delta = h.at[m + 1]
        BY <1>2, <2>1, <3>1
      <3>3. r[m + 1] = new
        <4>1. r[m + 1] = IF m + 1 \in DOMAIN trades THEN HyperliquidStep(r[m], trades[m + 1])
                         ELSE r[m]
          BY <1>5, <2>1 DEF IsRun, Step
        <4> QED
          BY <1>2, <3>1, <4>1
      <3>4. r[m] \in State /\ (r[m].cycle = NoCycle \/ Tracks(r[m].cycle, h.at[m]))
        <4>1. /\ r[m] \in State
              /\ IF m <= from THEN r[m] = Start
                 ELSE Tracks(r[m].cycle, trades[m].before + trades[m].delta)
          BY <1>0, <1>3, <1>4, <1>5, <2>1, HyperliquidRows
        <4>2. m <= from => r[m].cycle = NoCycle
          BY <4>1, StartIs
        <4>3. ~(m <= from) => m \in from + 1 .. to
          BY <1>0, <2>1
        <4> QED
          BY <1>2, <4>1, <4>2, <4>3
      <3>5. h.at[m] \in Int /\ h.at[m + 1] \in Int
        BY <1>0, <2>1, HistoryTypes
      <3> HIDE DEF row
      <3>6. Moved(r[m], Joined(r[m].cycle, h.at[m]), new, h.at[m], h.at[m + 1], m + 1)
        <4>1. Moved(r[m], Joined(r[m].cycle, row.before), new, row.before, row.before + row.delta,
                    row.id)
          BY <3>2, <3>4, <3>5, HyperliquidMoves
        <4> QED
          BY <3>2, <4>1
      <3> HIDE DEF new
      <3>7. ExactCycle(Joined(r[m].cycle, h.at[m]), h, m) /\ ExactRows(r[m].rows, h, m)
        BY <1>8, <2>4
      <3>8. h.name[m + 1] = m + 1 /\ m >= h.from
        BY <2>1, <2>4
      <3>9. ExactCycle(new.cycle, h, m + 1) /\ ExactRows(new.rows, h, m + 1)
        BY <1>0, <2>1, <3>1, <3>6, <3>7, <3>8, MovedExact
      <3>10. Joined(new.cycle, h.at[m + 1]) = new.cycle
        <4>1. NoCycle.side = "NONE"
          BY DEF NoCycle
        <4>2. SideOf(h.at[m + 1]) # "NONE"
          BY DEF SideOf
        <4>3. h.at[m + 1] # 0 => new.cycle # NoCycle
          BY <3>9, <4>1, <4>2 DEF ExactCycle, Tracks
        <4> QED
          BY <4>3 DEF Joined
      <3> QED
        BY <2>1, <3>3, <3>9, <3>10
    <2> QED
      BY <1>0, <2>1, <2>2, <2>3, <2>4
  <1> HIDE DEF T
  <1>9. 0 .. to \subseteq T
    BY <1>0, <1>7, <1>8, Induction
  <1>10. to \in 0 .. to /\ to >= from
    BY <1>0
  <1> QED
    BY <1>5, <1>9, <1>10 DEF T, trades

(***************************************************************************)
(* Binance: an order is one trade, in whatever pieces it was filled.       *)
(***************************************************************************)
LEMMA QuantityNext ==
  ASSUME BookInv, NEW m \in 0 .. Len(book) - 1, NEW order
  PROVE  /\ Quantity(order, 0) = 0 /\ Quantity(order, m) \in Int
         /\ Quantity(order, m + 1) =
               Quantity(order, m) + IF book[m + 1].trade = order THEN book[m + 1].delta ELSE 0
  <1>0. Len(book) \in Nat /\ m \in 0 .. Len(book) /\ m + 1 \in 0 .. Len(book) /\ m \in Nat
        /\ 0 \in 0 .. Len(book) /\ m + 1 \in 1 .. m + 1 /\ (m + 1) - 1 = m
    BY DEF BookInv
  <1>1. PICK z : IsFilled(z, order, 0) /\ Quantity(order, 0) = z[0]
    BY <1>0, QuantityIs
  <1>2. Quantity(order, 0) = 0
    BY <1>1 DEF IsFilled, IsSum
  <1>3. PICK s : IsFilled(s, order, m + 1) /\ Quantity(order, m + 1) = s[m + 1]
    BY <1>0, QuantityIs
  <1>4. PICK u : IsFilled(u, order, m) /\ Quantity(order, m) = u[m]
    BY <1>0, QuantityIs
  <1> DEFINE d(i) == IF book[i].trade = order THEN book[i].delta ELSE 0
             f == [i \in 1 .. m |-> d(i)]
             t == [i \in 0 .. m |-> s[i]]
  <1>5. /\ s \in [0 .. m + 1 -> Int] /\ s[0] = 0
        /\ \A i \in 1 .. m + 1 : s[i] = s[i - 1] + d(i)
    BY <1>3 DEF IsFilled, IsSum
  <1>6. f \in [1 .. m -> Int]
    <2>1. \A i \in 1 .. m : i \in 1 .. Len(book)
      BY <1>0
    <2>2. \A i \in 1 .. m : book[i].delta \in Int
      BY <2>1, BookParts
    <2> QED
      BY <2>2
  <1>7. IsSum(t, f, m)
    <2>1. t \in [0 .. m -> Int]
      <3>1. \A i \in 0 .. m : s[i] \in Int
        BY <1>0, <1>5
      <3> QED
        BY <3>1
    <2>2. t[0] = 0
      BY <1>0, <1>5
    <2>3. ASSUME NEW i \in 1 .. m PROVE t[i] = t[i - 1] + f[i]
      <3>1. i \in 1 .. m + 1 /\ i \in 0 .. m /\ i - 1 \in 0 .. m
        BY <1>0
      <3>2. t[i] = s[i] /\ t[i - 1] = s[i - 1] /\ f[i] = d(i)
        BY <3>1
      <3> HIDE DEF t, f, d
      <3> QED
        BY <1>5, <3>1, <3>2
    <2> HIDE DEF t, f
    <2> QED
      BY <2>1, <2>2, <2>3 DEF IsSum
  <1>8. IsSum(u, f, m)
    BY <1>4 DEF IsFilled
  <1> HIDE DEF t, f
  <1>9. t = u
    BY <1>0, <1>6, <1>7, <1>8, OneSum
  <1>10. u[m] = s[m] /\ s[m] \in Int
    BY <1>0, <1>5, <1>9 DEF t
  <1>11. s[m + 1] = s[m] + d(m + 1)
    BY <1>0, <1>5
  <1> QED
    BY <1>2, <1>3, <1>4, <1>10, <1>11

LEMMA QuantityStays ==
  ASSUME BookInv, NEW order, NEW n \in 0 .. Len(book), NEW m \in 0 .. n,
         \A i \in m + 1 .. n : book[i].trade # order
  PROVE  Quantity(order, n) = Quantity(order, m)
  <1>0. Len(book) \in Nat /\ n - m \in Nat /\ n \in Nat /\ m \in Nat
    BY DEF BookInv
  <1> DEFINE T == {x \in 0 .. n - m : Quantity(order, m + x) = Quantity(order, m)}
  <1>1. 0 \in T
    BY <1>0
  <1>2. ASSUME NEW x \in 0 .. (n - m) - 1, x \in T PROVE x + 1 \in T
    <2>1. /\ m + x \in 0 .. Len(book) - 1 /\ m + (x + 1) = (m + x) + 1 /\ x + 1 \in 0 .. n - m
          /\ (m + x) + 1 \in m + 1 .. n
      BY <1>0
    <2>2. Quantity(order, (m + x) + 1) = Quantity(order, m + x) + 0
          /\ Quantity(order, m + x) \in Int
      BY <2>1, QuantityNext
    <2>3. Quantity(order, m + (x + 1)) = Quantity(order, m + x)
      BY <2>1, <2>2
    <2> QED
      BY <1>2, <2>1, <2>3
  <1> HIDE DEF T
  <1>3. 0 .. n - m \subseteq T
    BY <1>0, <1>1, <1>2, Induction
  <1>4. n - m \in T /\ m + (n - m) = n
    BY <1>0, <1>3
  <1> QED
    BY <1>4 DEF T

LEMMA LastKnownIs ==
  ASSUME BookInv, NEW to \in 0 .. Len(book), NEW i \in 1 .. to
  PROVE  /\ LastKnown(i, to) \in 1 .. to /\ i <= LastKnown(i, to)
         /\ book[LastKnown(i, to)].trade = book[i].trade
         /\ \A j \in 1 .. to : book[j].trade = book[i].trade => j <= LastKnown(i, to)
         /\ LastKnown(i, to) \in LastFills(to)
  <1> DEFINE S == {j \in FillsOf(book[i].trade) : j <= to}
             l == LastKnown(i, to)
  <1>0. to \in Nat /\ DOMAIN book = 1 .. Len(book) /\ Len(book) \in Nat
    BY DEF BookInv
  <1>1. /\ S \subseteq 1 .. to /\ i \in S
        /\ \A j \in 1 .. to : book[j].trade = book[i].trade <=> j \in S
    BY <1>0 DEF FillsOf
  <1>2. l = Max(S)
    BY DEF LastKnown
  <1> HIDE DEF S, l
  <1>3. l \in S /\ \A x \in S : x <= l
    BY <1>0, <1>1, <1>2, MaxOf
  <1>4. l \in 1 .. to /\ book[l].trade = book[i].trade
    BY <1>1, <1>3
  <1>5. ASSUME NEW j \in FillsOf(book[l].trade) PROVE j <= l \/ j > to
    <2>1. j \in Nat /\ j \in 1 .. Len(book) /\ book[j].trade = book[i].trade
      BY <1>0, <1>4 DEF FillsOf
    <2> QED
      BY <1>0, <1>1, <1>3, <2>1
  <1>6. l \in LastFills(to)
    BY <1>4, <1>5 DEF LastFills
  <1> QED
    BY <1>1, <1>3, <1>4, <1>6 DEF l

LEMMA LastIs ==
  ASSUME BookInv, NEW to \in 0 .. Len(book), NEW i \in 1 .. to
  PROVE  /\ i \in LastFills(to) <=> \A j \in i + 1 .. to : book[j].trade # book[i].trade
         /\ i \in LastFills(to) => LastKnown(i, to) = i
         /\ i \notin LastFills(to) => \E j \in i + 1 .. to : book[j].trade = book[i].trade
  <1>0. to \in Nat /\ DOMAIN book = 1 .. Len(book) /\ Len(book) \in Nat
    BY DEF BookInv
  <1>1. i \in LastFills(to) <=> \A j \in i + 1 .. to : book[j].trade # book[i].trade
    BY <1>0 DEF LastFills, FillsOf
  <1>2. i \in LastFills(to) => LastKnown(i, to) = i
    <2> SUFFICES ASSUME i \in LastFills(to), NEW l, l = LastKnown(i, to) PROVE l = i
      OBVIOUS
    <2>1. l \in 1 .. to /\ i <= l /\ book[l].trade = book[i].trade
      BY LastKnownIs
    <2>2. l \notin i + 1 .. to
      BY <1>1, <2>1
    <2> QED
      BY <1>0, <2>1, <2>2
  <1> QED
    BY <1>1, <1>2

LEMMA SameLastKnown ==
  ASSUME NEW i, NEW j, NEW to, book[i].trade = book[j].trade
  PROVE  LastKnown(i, to) = LastKnown(j, to)
  BY DEF LastKnown

\* what a reconstruction of Binance trades knows of the position
Knows(mode, k, state, b) ==
    /\ b \in Int /\ state \in State /\ Tracks(state.cycle, b)
    /\ IF mode = "ONE_WAY" THEN state.position = b ELSE k \in {"LONG", "SHORT"} /\ OfSide(k, b)

LEMMA BinanceMoves ==
  ASSUME NEW mode \in {"ONE_WAY", "HEDGE"}, NEW k, NEW state, NEW b, Knows(mode, k, state, b),
         NEW row, IsTrade(row), NEW q, q = b + row.delta, mode = "HEDGE" => OfSide(k, q)
  PROVE  /\ Moved(state, state.cycle, Step(mode, k, state, row), b, q, row.id)
         /\ Knows(mode, k, Step(mode, k, state, row), q)
  <1>0. b \in Int /\ state \in State /\ Tracks(state.cycle, b) /\ row.delta \in Int /\ q \in Int
    BY DEF Knows, IsTrade
  <1>1. CASE mode = "ONE_WAY"
    <2>1. Step(mode, k, state, row) = OneWayStep(state, row) /\ state.position = b
      BY <1>1 DEF Step, Knows
    <2>2. /\ OneWayStep(state, row).position = q
          /\ Moved(state, state.cycle, OneWayStep(state, row), b, q, row.id)
      BY <1>0, <2>1, OneWayMoves
    <2>3. OneWayStep(state, row) \in State /\ Tracks(OneWayStep(state, row).cycle, q)
      BY <1>0, <2>2, MovedTracks DEF Moved
    <2> QED
      BY <1>0, <1>1, <2>1, <2>2, <2>3 DEF Knows
  <1>2. CASE mode = "HEDGE"
    <2>1. Step(mode, k, state, row) = HedgeStep(k, state, row) /\ OfSide(k, b)
          /\ k \in {"LONG", "SHORT"} /\ OfSide(k, q) /\ mode # "ONE_WAY"
      BY <1>2 DEF Step, Knows
    <2> DEFINE new == HedgeStep(k, state, row)
    <2>2. \E c : \E o, x \in Int :
             /\ Moved(state, c, new, o, x, row.id)
             /\ OfSide(k, b + row.delta) => c = state.cycle /\ o = b /\ x = b + row.delta
      BY <1>0, <2>1, HedgeMoves
    <2> HIDE DEF new
    <2>3. Moved(state, state.cycle, new, b, q, row.id)
      BY <2>1, <2>2
    <2>4. new \in State /\ Tracks(new.cycle, q)
      BY <1>0, <2>3, MovedTracks DEF Moved
    <2> QED
      BY <1>0, <2>1, <2>3, <2>4 DEF Knows, new
  <1> QED
    BY <1>1, <1>2

\* two steps of one direction are one step: what lies between them
LEMMA Between ==
  ASSUME NEW state, NEW c, NEW p \in Int, NEW q \in Int, NEW x \in Int, Tracks(c, p),
         NEW name, NEW mid, NEW new, Moved(state, c, mid, p, q, name),
         Moved(state, c, new, p, x, name), (p < q /\ q < x) \/ (p > q /\ q > x)
  PROVE  Moved(mid, mid.cycle, new, q, x, name)
  <1>0. new \in State /\ mid \in State /\ Abs(p) \in Nat /\ Abs(q) \in Nat /\ Abs(x) \in Nat
    BY Arithmetic DEF Moved
  <1>1. p # 0 => c.max \in Int /\ c.max >= Abs(p) /\ c.closed \in Nat
    BY DEF Tracks, Cycle
  <1>2. CASE p = 0 \/ ~Same(p, q)
    <2>1. CASE q = 0
      <3>1. p # 0 /\ ~Same(p, x) /\ ~Same(q, x) /\ x # 0 /\ new.rows = mid.rows
        BY <1>2, <2>1 DEF Same, Moved
      <3> QED
        BY <1>0, <2>1, <3>1 DEF Moved
    <2>2. CASE q # 0
      <3>1. /\ Same(q, x) /\ x # 0 /\ ~Same(p, q) /\ ~Same(p, x) /\ ~(Abs(x) < Abs(q))
            /\ SideOf(q) = SideOf(x) /\ Most(Abs(q), Abs(x)) = Abs(x)
        BY <1>2, <2>2 DEF Same, Abs, SideOf, Most
      <3>2. new.rows = mid.rows
        BY <1>2, <3>1 DEF Moved
      <3>3. CycleIs(mid.cycle, SideOf(q), TRUE, Abs(q), Abs(q), 0)
        BY <2>2, <3>1 DEF Moved
      <3>4. CycleIs(new.cycle, SideOf(x), TRUE, Abs(x), Abs(x), 0)
        BY <3>1 DEF Moved
      <3>5. mid.cycle.closed + 0 = 0 /\ mid.cycle.max = Abs(q) /\ mid.cycle.complete = TRUE
        BY <3>3 DEF CycleIs
      <3>6. CycleIs(new.cycle, SideOf(q), mid.cycle.complete, Abs(x), Most(mid.cycle.max, Abs(x)),
                    mid.cycle.closed + 0)
        BY <3>1, <3>4, <3>5
      <3> QED
        BY <1>0, <3>1, <3>2, <3>6 DEF Moved
    <2> QED
      BY <2>1, <2>2
  <1>3. CASE p # 0 /\ Same(p, q)
    <2>0. q # 0 /\ SideOf(p) = SideOf(q)
      BY <1>3 DEF Same, SideOf
    <2>1. /\ mid.rows = state.rows
          /\ CycleIs(mid.cycle, SideOf(p), c.complete, Abs(q), Most(c.max, Abs(q)),
                     c.closed + IF Abs(q) < Abs(p) THEN Abs(p) - Abs(q) ELSE 0)
      BY <1>3, <2>0 DEF Moved
    <2>2. /\ mid.cycle.complete = c.complete /\ mid.cycle.max = Most(c.max, Abs(q))
          /\ mid.cycle.closed = c.closed + IF Abs(q) < Abs(p) THEN Abs(p) - Abs(q) ELSE 0
      BY <2>1 DEF CycleIs
    <2>3. CASE Same(q, x)
      <3>1. Same(p, x) /\ x # 0 /\ (Abs(q) < Abs(p) <=> Abs(x) < Abs(q))
            /\ (Abs(q) < Abs(p) => Abs(x) < Abs(p)) /\ (~(Abs(q) < Abs(p)) => ~(Abs(x) < Abs(p)))
        BY <1>3, <2>3 DEF Same, Abs
      <3>2. /\ new.rows = state.rows
            /\ CycleIs(new.cycle, SideOf(p), c.complete, Abs(x), Most(c.max, Abs(x)),
                       c.closed + IF Abs(x) < Abs(p) THEN Abs(p) - Abs(x) ELSE 0)
        BY <3>1, <1>3 DEF Moved
      <3>3. Most(Most(c.max, Abs(q)), Abs(x)) = Most(c.max, Abs(x))
        BY <1>0, <1>1, <1>3, <3>1 DEF Most
      <3>4. (c.closed + IF Abs(q) < Abs(p) THEN Abs(p) - Abs(q) ELSE 0)
                + (IF Abs(x) < Abs(q) THEN Abs(q) - Abs(x) ELSE 0)
            = c.closed + IF Abs(x) < Abs(p) THEN Abs(p) - Abs(x) ELSE 0
        BY <1>0, <1>1, <1>3, <3>1
      <3>5. CycleIs(new.cycle, SideOf(q), mid.cycle.complete, Abs(x), Most(mid.cycle.max, Abs(x)),
                    mid.cycle.closed + IF Abs(x) < Abs(q) THEN Abs(q) - Abs(x) ELSE 0)
        BY <2>0, <2>2, <3>2, <3>3, <3>4
      <3> QED
        BY <1>0, <2>0, <2>1, <2>3, <3>1, <3>2, <3>5 DEF Moved
    <2>4. CASE ~Same(q, x)
      <3>1. ~Same(p, x) /\ Abs(q) < Abs(p)
        BY <1>3, <2>4 DEF Same, Abs
      <3>2. Most(c.max, Abs(q)) = c.max
        BY <1>0, <1>1, <1>3, <3>1 DEF Most
      <3>3. mid.cycle.closed + Abs(q) = c.closed + Abs(p)
        BY <1>0, <1>1, <1>3, <2>2, <3>1
      <3>4. new.rows = mid.rows \cup {[id |-> name, side |-> SideOf(q),
                                       complete |-> mid.cycle.complete, max |-> mid.cycle.max,
                                       closed |-> mid.cycle.closed + Abs(q)]}
        BY <1>3, <2>0, <2>1, <2>2, <3>1, <3>2, <3>3 DEF Moved
      <3>5. x # 0 => CycleIs(new.cycle, SideOf(x), TRUE, Abs(x), Abs(x), 0)
        BY <3>1 DEF Moved
      <3>6. x = 0 => new.cycle = NoCycle
        BY DEF Moved
      <3> QED
        BY <1>0, <2>0, <2>4, <3>4, <3>5, <3>6 DEF Moved
    <2> QED
      BY <2>3, <2>4
  <1> QED
    BY <1>2, <1>3

\* no order of k is filled on both sides of m
Settled(k, to, m) ==
    \A i, j \in FillsIn(k) : i <= m /\ m < j /\ j <= to => book[i].trade # book[j].trade

\* l, the latest fill of k, is not the last of its order; what the order has
\* made of the position since b is known to nobody yet
Open(h, k, to, m, b, l) ==
    /\ l \in FillsIn(k) /\ l <= m /\ \A i \in l + 1 .. m : i \notin FillsIn(k)
    /\ \E j \in m + 1 .. to : book[j].trade = book[l].trade
    /\ Same(h.at[m] - b, book[l].delta) /\ h.at[m] - b = Quantity(book[l].trade, m)

\* a run has come to `state' and knows the position b; had it seen the part of
\* the open order that is filled, it would have come to v
Replayed(state, h, k, to, m, b, v) ==
    /\ Knows(venue, k, state, b) /\ ExactCycle(v.cycle, h, m) /\ ExactRows(v.rows, h, m)
    /\ \/ b = h.at[m] /\ v = state /\ Settled(k, to, m)
       \/ \E l \in 1 .. to : /\ Open(h, k, to, m, b, l)
                             /\ Moved(state, state.cycle, v, b, h.at[m], h.name[l])

HistoryFor(h, k, to) ==
    /\ IsHistoryOf(h, k) /\ h.from = 0 /\ \A i \in 1 .. to : h.name[i] = LastKnown(i, to)

LEMMA FillsInIs ==
  ASSUME BookInv, NEW k
  PROVE  /\ DOMAIN book = 1 .. Len(book) /\ Len(book) \in Nat
         /\ \A i : i \in FillsIn(k) <=> i \in 1 .. Len(book) /\ book[i].key = k
  BY DEF BookInv, FillsIn

LEMMA QuietReplayed ==
  ASSUME BookInv, NEW k \in Keys, NEW to \in 0 .. Len(book), NEW h, HistoryFor(h, k, to),
         NEW m \in 0 .. to - 1, m + 1 \notin FillsIn(k),
         NEW state, NEW b, NEW v, Replayed(state, h, k, to, m, b, v)
  PROVE  Replayed(state, h, k, to, m + 1, b, v)
  <1>0. /\ to \in Nat /\ m \in Nat /\ m \in 0 .. Len(book) - 1 /\ m + 1 \in 1 .. to /\ m + 1 \in 1 .. Len(book)
        /\ Len(book) \in Nat /\ DOMAIN book = 1 .. Len(book)
        /\ \A i : i \in FillsIn(k) <=> i \in 1 .. Len(book) /\ book[i].key = k
    BY FillsInIs
  <1>1. IsHistory(h, Len(book)) /\ h.fills = FillsIn(k)
    BY DEF HistoryFor, IsHistoryOf
  <1>2. ExactCycle(v.cycle, h, m + 1) /\ ExactRows(v.rows, h, m + 1)
    <2>1. ExactCycle(v.cycle, h, m) /\ ExactRows(v.rows, h, m)
      BY DEF Replayed
    <2> QED
      BY <1>0, <1>1, <2>1, QuietExact
  <1>3. h.at[m + 1] = h.at[m]
    <2>1. (m + 1) - 1 = m
      BY <1>0
    <2> QED
      BY <1>0, <1>1, <2>1 DEF IsHistory
  <1>4. CASE b = h.at[m] /\ v = state /\ Settled(k, to, m)
    <2>1. Settled(k, to, m + 1)
      <3>1. \A i \in FillsIn(k) : i # m + 1 /\ i \in Nat
        BY <1>0
      <3> QED
        BY <1>0, <1>4, <3>1 DEF Settled
    <2> QED
      BY <1>2, <1>3, <1>4, <2>1 DEF Replayed
  <1>5. ASSUME NEW l \in 1 .. to, Open(h, k, to, m, b, l),
               Moved(state, state.cycle, v, b, h.at[m], h.name[l])
        PROVE  Replayed(state, h, k, to, m + 1, b, v)
    <2>1. PICK j \in m + 1 .. to : book[j].trade = book[l].trade
      BY <1>5 DEF Open
    <2>2. book[m + 1].trade # book[l].trade
      <3>1. book[l].key = k /\ book[m + 1].key # k
        BY <1>0, <1>5 DEF Open
      <3>2. l \in 1 .. Len(book)
        BY <1>0
      <3> QED
        BY <1>0, <3>1, <3>2 DEF BookInv
    <2>3. j \in (m + 1) + 1 .. to
      BY <1>0, <2>1, <2>2
    <2>4. Quantity(book[l].trade, m + 1) = Quantity(book[l].trade, m)
      <3>1. /\ Quantity(book[l].trade, m + 1) = Quantity(book[l].trade, m) + 0
            /\ Quantity(book[l].trade, m) \in Int
        BY <1>0, <2>2, QuantityNext
      <3> QED
        BY <3>1
    <2>5. l <= m + 1 /\ \A i \in l + 1 .. m + 1 : i \in l + 1 .. m \/ i = m + 1
      BY <1>0, <1>5 DEF Open
    <2>6. Open(h, k, to, m + 1, b, l)
      BY <1>3, <1>5, <2>1, <2>3, <2>4, <2>5 DEF Open
    <2>7. Moved(state, state.cycle, v, b, h.at[m + 1], h.name[l])
      BY <1>3, <1>5
    <2> QED
      BY <1>2, <2>6, <2>7 DEF Replayed
  <1> QED
    BY <1>4, <1>5 DEF Replayed

\* with a fill of k, taken together with the part of its order before it
LEMMA FillReplayed ==
  ASSUME BookInv, venue # "HYPERLIQUID", Reconstructible, NEW k \in Keys,
         NEW to \in 0 .. Len(book), NEW h, HistoryFor(h, k, to),
         NEW m \in 0 .. to - 1, m + 1 \in FillsIn(k),
         NEW state, NEW b, NEW v, Replayed(state, h, k, to, m, b, v)
  PROVE  /\ h.at[m + 1] - b = Quantity(book[m + 1].trade, m + 1)
         /\ Same(h.at[m + 1] - b, book[m + 1].delta)
         /\ \A row : IsTrade(row) /\ row.id = h.name[m + 1] /\ row.delta = h.at[m + 1] - b =>
               LET new == Step(venue, k, state, row) IN
               /\ Moved(state, state.cycle, new, b, h.at[m + 1], h.name[m + 1])
               /\ Knows(venue, k, new, h.at[m + 1])
               /\ ExactCycle(new.cycle, h, m + 1) /\ ExactRows(new.rows, h, m + 1)
  <1> DEFINE f == m + 1
             o == book[f].trade
             d == book[f].delta
             q == h.at[f]
             p == h.at[m]
  <1>0. /\ to \in Nat /\ m \in Nat /\ m \in 0 .. Len(book) - 1 /\ f \in 1 .. to /\ f \in 1 .. Len(book)
        /\ Len(book) \in Nat /\ DOMAIN book = 1 .. Len(book) /\ (m + 1) - 1 = m
        /\ m \in 0 .. Len(book) /\ f \in 0 .. Len(book)
        /\ \A i : i \in FillsIn(k) <=> i \in 1 .. Len(book) /\ book[i].key = k
    BY FillsInIs
  <1>1. /\ IsHistory(h, Len(book)) /\ h.fills = FillsIn(k) /\ p \in Int /\ q \in Int
        /\ d \in Int \ {0} /\ q = p + d /\ book[f].key = k
    <2>1. IsHistory(h, Len(book)) /\ h.fills = FillsIn(k)
      BY DEF HistoryFor, IsHistoryOf
    <2>2. book[f].before = p /\ After(f) = q
      BY <1>0 DEF HistoryFor, IsHistoryOf
    <2>3. d \in Int \ {0} /\ book[f].key = k
      BY <1>0, BookParts
    <2> QED
      BY <1>0, <2>1, <2>2, <2>3, HistoryTypes DEF After
  <1>2. /\ Knows(venue, k, state, b) /\ b \in Int /\ Tracks(state.cycle, b)
        /\ ExactCycle(v.cycle, h, m) /\ ExactRows(v.rows, h, m)
    BY DEF Replayed, Knows
  <1>3. Quantity(o, f) = Quantity(o, m) + d /\ Quantity(o, m) \in Int
    BY <1>0, QuantityNext
  <1>4. venue \in {"ONE_WAY", "HEDGE"} /\ (venue = "HEDGE" => OfSide(k, q))
    <2>1. venue = "HEDGE" => k \in {"LONG", "SHORT"}
      BY DEF Keys
    <2> QED
      BY <1>0, <2>1, FillConstants DEF BookInv, HistoryFor, IsHistoryOf
  <1>5. m >= h.from
    BY <1>0 DEF HistoryFor
  <1>6. CASE b = p /\ v = state /\ Settled(k, to, m)
    <2>1. \A i \in 1 .. m : book[i].trade # o
      <3> SUFFICES ASSUME NEW i \in 1 .. m, book[i].trade = o PROVE FALSE
        OBVIOUS
      <3>1. i \in 1 .. Len(book) /\ i <= m /\ m < f /\ f <= to
        BY <1>0
      <3>2. book[i].key = k
        BY <1>0, <1>1, <3>1 DEF BookInv
      <3> QED
        BY <1>0, <1>6, <3>1, <3>2 DEF Settled
    <2>2. Quantity(o, m) = 0
      <3>1. 0 \in 0 .. m /\ \A i \in 0 + 1 .. m : book[i].trade # o
        BY <1>0, <2>1
      <3>2. Quantity(o, m) = Quantity(o, 0)
        BY <1>0, <3>1, QuantityStays
      <3> QED
        BY <1>0, <3>2, QuantityNext
    <2>3. q - b = Quantity(o, f) /\ Same(q - b, d)
      BY <1>1, <1>3, <1>6, <2>2 DEF Same
    <2>4. ASSUME NEW row, IsTrade(row), row.id = h.name[f], row.delta = q - b
          PROVE  LET new == Step(venue, k, state, row) IN
                 /\ Moved(state, state.cycle, new, b, q, h.name[f])
                 /\ Knows(venue, k, new, q)
                 /\ ExactCycle(new.cycle, h, f) /\ ExactRows(new.rows, h, f)
      <3> DEFINE new == Step(venue, k, state, row)
      <3>1. q = b + row.delta
        BY <1>1, <1>2, <2>4
      <3>2. Moved(state, state.cycle, new, b, q, h.name[f]) /\ Knows(venue, k, new, q)
        BY <1>2, <1>4, <2>4, <3>1, BinanceMoves
      <3> HIDE DEF new
      <3>3. ExactCycle(new.cycle, h, f) /\ ExactRows(new.rows, h, f)
        BY <1>0, <1>1, <1>2, <1>5, <1>6, <3>2, MovedExact
      <3> QED
        BY <3>2, <3>3 DEF new
    <2> QED
      BY <2>3, <2>4
  <1>7. ASSUME NEW l \in 1 .. to, Open(h, k, to, m, b, l),
               Moved(state, state.cycle, v, b, p, h.name[l])
        PROVE  /\ q - b = Quantity(o, f) /\ Same(q - b, d)
               /\ \A row : IsTrade(row) /\ row.id = h.name[f] /\ row.delta = q - b =>
                     LET new == Step(venue, k, state, row) IN
                     /\ Moved(state, state.cycle, new, b, q, h.name[f])
                     /\ Knows(venue, k, new, q)
                     /\ ExactCycle(new.cycle, h, f) /\ ExactRows(new.rows, h, f)
    <2>1. /\ l \in FillsIn(k) /\ l <= m /\ Same(p - b, book[l].delta)
          /\ p - b = Quantity(book[l].trade, m)
      BY <1>7 DEF Open
    <2>2. book[l].trade = o
      <3>1. PICK j \in m + 1 .. to : book[j].trade = book[l].trade
        BY <1>7 DEF Open
      <3>2. l \in DOMAIN book /\ j \in DOMAIN book /\ f \in l .. j /\ book[f].key = book[l].key
        BY <1>0, <1>1, <2>1
      <3> QED
        BY <3>1, <3>2 DEF Reconstructible
    <2>3. Same(book[l].delta, d) /\ book[l].delta \in Int
      <3>1. l \in 1 .. Len(book)
        BY <1>0
      <3> QED
        BY <1>0, <2>2, <3>1, BookParts DEF BookInv
    <2>4. /\ q - b = Quantity(o, f) /\ Same(q - b, d)
          /\ (b < p /\ p < q) \/ (b > p /\ p > q)
      <3> HIDE DEF f, o, d, q, p
      <3> QED
        BY <1>1, <1>2, <1>3, <2>1, <2>2, <2>3 DEF Same
    <2>5. h.name[l] = h.name[f]
      BY <1>0, <2>2, SameLastKnown DEF HistoryFor
    <2>6. ASSUME NEW row, IsTrade(row), row.id = h.name[f], row.delta = q - b
          PROVE  LET new == Step(venue, k, state, row) IN
                 /\ Moved(state, state.cycle, new, b, q, h.name[f])
                 /\ Knows(venue, k, new, q)
                 /\ ExactCycle(new.cycle, h, f) /\ ExactRows(new.rows, h, f)
      <3> DEFINE new == Step(venue, k, state, row)
      <3>1. q = b + row.delta
        BY <1>1, <1>2, <2>6
      <3>2. Moved(state, state.cycle, new, b, q, h.name[f]) /\ Knows(venue, k, new, q)
        BY <1>2, <1>4, <2>6, <3>1, BinanceMoves
      <3> HIDE DEF new
      <3>3. Moved(v, v.cycle, new, p, q, h.name[f])
        <4> HIDE DEF f, q, p
        <4> QED
          BY <1>1, <1>2, <1>7, <2>4, <2>5, <3>2, Between
      <3>4. ExactCycle(new.cycle, h, f) /\ ExactRows(new.rows, h, f)
        BY <1>0, <1>1, <1>2, <1>5, <3>3, MovedExact
      <3> QED
        BY <3>2, <3>4 DEF new
    <2> QED
      BY <2>4, <2>6
  <1> QED
    BY <1>6, <1>7 DEF Replayed

LEMMA BinanceExact ==
  ASSUME BookInv, venue # "HYPERLIQUID", Reconstructible, NEW k \in Keys, NEW from \in Nat,
         NEW to \in 0 .. Len(book), NEW h, HistoryFor(h, k, to)
  PROVE  ExactRows(Replay(venue, k, Trades(k, from, to), to).rows, h, to)
  <1> DEFINE trades == Trades(k, from, to)
             last == Len(book)
  <1>0. /\ to \in Nat /\ last \in Nat /\ DOMAIN book = 1 .. last /\ IsHistory(h, last)
        /\ h.at[0] = 0 /\ h.from = 0
        /\ \A i : i \in FillsIn(k) <=> i \in 1 .. last /\ book[i].key = k
    BY FillsInIs DEF HistoryFor, IsHistoryOf, Reconstructible
  <1>1. trades = [i \in FillsIn(k) \cap LastFills(to) |->
                    [id |-> i, delta |-> Quantity(book[i].trade, to)]]
    BY TradesAre
  <1>2. /\ DOMAIN trades = FillsIn(k) \cap LastFills(to)
        /\ \A i \in FillsIn(k) \cap LastFills(to) :
              trades[i].id = i /\ trades[i].delta = Quantity(book[i].trade, to)
    BY <1>1
  <1>3. \A i \in DOMAIN trades : IsTrade(trades[i])
    <2>1. TradesOK(trades, to)
      BY TradesAre
    <2> HIDE DEF trades
    <2> QED
      BY <2>1 DEF TradesOK
  <1> HIDE DEF trades
  <1>4. PICK r : IsRun(r, venue, k, trades, to) /\ Replay(venue, k, trades, to) = r[to]
    BY <1>0, ReplayIsRun
  <1> DEFINE T == {m \in 0 .. to : \E b, v : Replayed(r[m], h, k, to, m, b, v)}
  <1>5. 0 \in T
    <2>1. r[0] = Start
      BY <1>4 DEF IsRun
    <2>2. Tracks(NoCycle, 0)
      BY DEF Tracks
    <2>3. Knows(venue, k, Start, 0)
      <3>1. venue = "ONE_WAY" \/ k \in {"LONG", "SHORT"}
        BY FillConstants DEF BookInv, Keys
      <3>2. OfSide(k, 0)
        BY DEF OfSide
      <3>3. 0 \in Int
        OBVIOUS
      <3> QED
        BY <2>2, <3>1, <3>2, <3>3, StartIs DEF Knows
    <2>4. ExactCycle(Start.cycle, h, 0)
      BY <1>0, <2>2, StartIs DEF ExactCycle
    <2>5. ExactRows(Start.rows, h, 0)
      <3>1. h.from + 1 .. 0 = {}
        BY <1>0
      <3> QED
        BY <3>1, StartIs DEF ExactRows
    <2>6. Settled(k, to, 0)
      BY <1>0 DEF Settled
    <2>7. Replayed(r[0], h, k, to, 0, 0, Start)
      BY <1>0, <2>1, <2>3, <2>4, <2>5, <2>6 DEF Replayed
    <2> QED
      BY <1>0, <2>7
  <1>6. ASSUME NEW m \in 0 .. to - 1, m \in T PROVE m + 1 \in T
    <2> DEFINE f == m + 1
    <2>1. PICK b, v : Replayed(r[m], h, k, to, m, b, v)
      BY <1>6
    <2>2. f \in 1 .. to /\ f \in 0 .. to /\ f \in 1 .. last /\ f \in 0 .. last /\ (m + 1) - 1 = m
      BY <1>0
    <2>3. r[f] = IF f \in DOMAIN trades THEN Step(venue, k, r[m], trades[f]) ELSE r[m]
      <3> SUFFICES r[f] = IF f \in DOMAIN trades THEN Step(venue, k, r[f - 1], trades[f])
                          ELSE r[f - 1]
        BY <2>2
      <3> HIDE DEF f
      <3> QED
        BY <1>4, <2>2 DEF IsRun
    <2>4. CASE f \notin FillsIn(k)
      <3>1. r[f] = r[m]
        BY <1>2, <2>3, <2>4
      <3>2. Replayed(r[m], h, k, to, m + 1, b, v)
        BY <2>1, <2>4, QuietReplayed
      <3> QED
        BY <2>2, <3>1, <3>2
    <2>5. CASE f \in FillsIn(k)
      <3> DEFINE o == book[f].trade
                 q == h.at[f]
                 name == h.name[f]
      <3>1. /\ q - b = Quantity(o, f) /\ Same(q - b, book[f].delta)
            /\ \A row : IsTrade(row) /\ row.id = name /\ row.delta = q - b =>
                  LET new == Step(venue, k, r[m], row) IN
                  /\ Moved(r[m], r[m].cycle, new, b, q, name)
                  /\ Knows(venue, k, new, q)
                  /\ ExactCycle(new.cycle, h, f) /\ ExactRows(new.rows, h, f)
        BY <2>1, <2>5, FillReplayed
      <3>2. b \in Int /\ q \in Int /\ Knows(venue, k, r[m], b)
        BY <1>0, <2>1, <2>2, HistoryTypes DEF Replayed, Knows
      <3>3. name = LastKnown(f, to) /\ name \in 1 .. to
        BY <2>2, LastKnownIs DEF HistoryFor
      <3> HIDE DEF q, name
      <3>4. CASE f \in LastFills(to)
        <4>1. f \in DOMAIN trades /\ trades[f].id = f /\ trades[f].delta = Quantity(o, to)
              /\ IsTrade(trades[f]) /\ r[f] = Step(venue, k, r[m], trades[f])
          BY <1>2, <1>3, <2>3, <2>5, <3>4
        <4>2. name = f
          BY <2>2, <3>3, <3>4, LastIs
        <4>3. Quantity(o, to) = Quantity(o, f)
          <5>1. \A j \in f + 1 .. to : book[j].trade # o
            BY <2>2, <3>4, LastIs
          <5>2. f \in 0 .. to
            BY <2>2
          <5> HIDE DEF f
          <5> QED
            BY <5>1, <5>2, QuantityStays DEF o
        <4>4. /\ Knows(venue, k, r[f], q)
              /\ ExactCycle(r[f].cycle, h, f) /\ ExactRows(r[f].rows, h, f)
          BY <3>1, <4>1, <4>2, <4>3
        <4>5. Settled(k, to, f)
          <5> SUFFICES ASSUME NEW i \in FillsIn(k), NEW j \in FillsIn(k), i <= f, f < j, j <= to,
                              book[i].trade = book[j].trade
                       PROVE  FALSE
            BY DEF Settled
          <5>1. i \in DOMAIN book /\ j \in DOMAIN book /\ f \in i .. j /\ book[f].key = book[i].key
                /\ j \in f + 1 .. to
            BY <1>0, <2>2, <2>5
          <5>2. book[f].trade = book[i].trade
            BY <5>1 DEF Reconstructible
          <5> QED
            BY <2>2, <3>4, <5>1, <5>2, LastIs
        <4>6. Replayed(r[f], h, k, to, f, q, r[f])
          BY <4>4, <4>5 DEF Replayed, q
        <4> QED
          BY <2>2, <4>6
      <3>5. CASE f \notin LastFills(to)
        <4> DEFINE row == [id |-> name, delta |-> q - b]
                   new == Step(venue, k, r[m], row)
        <4>1. r[f] = r[m]
          BY <1>2, <2>3, <3>5
        <4>2. IsTrade(row) /\ row.id = name /\ row.delta = q - b
          BY <3>1, <3>2, <3>3 DEF IsTrade, Same
        <4> HIDE DEF row
        <4>3. /\ Moved(r[m], r[m].cycle, new, b, q, name)
              /\ ExactCycle(new.cycle, h, f) /\ ExactRows(new.rows, h, f)
          BY <3>1, <4>2
        <4> HIDE DEF new
        <4>4. Open(h, k, to, f, b, f)
          <5>1. \E j \in f + 1 .. to : book[j].trade = book[f].trade
            BY <2>2, <3>5, LastIs
          <5>2. f <= f /\ \A i \in f + 1 .. f : i \notin FillsIn(k)
            BY <2>2
          <5> QED
            BY <2>5, <3>1, <5>1, <5>2 DEF Open, q
        <4>5. Replayed(r[f], h, k, to, f, b, new)
          BY <2>2, <3>2, <4>1, <4>3, <4>4 DEF Replayed, q, name
        <4> QED
          BY <2>2, <4>5
      <3> QED
        BY <3>4, <3>5
    <2> QED
      BY <2>4, <2>5
  <1> HIDE DEF T
  <1>7. 0 .. to \subseteq T
    BY <1>0, <1>5, <1>6, Induction
  <1>8. to \in T
    BY <1>0, <1>7
  <1>9. PICK b, v : Replayed(r[to], h, k, to, to, b, v)
    BY <1>8 DEF T
  <1>10. v = r[to]
    <2>1. ASSUME NEW l \in 1 .. to, Open(h, k, to, to, b, l) PROVE FALSE
      <3>1. to + 1 .. to = {}
        BY <1>0
      <3> QED
        BY <2>1, <3>1 DEF Open
    <2> QED
      BY <1>9, <2>1 DEF Replayed
  <1>11. ExactRows(r[to].rows, h, to)
    BY <1>9, <1>10 DEF Replayed
  <1> QED
    BY <1>4, <1>11 DEF trades

(***************************************************************************)
(* What an adapter call answers.                                           *)
(***************************************************************************)
\* what closes the position is against it
LEMMA CloseSide ==
  ASSUME BookInv, NEW i \in 1 .. Len(book), Closes(i)
  PROVE  SideOf(book[i].before) = SideOf(-book[i].delta)
  <1> DEFINE p == book[i].before
             d == book[i].delta
  <1>1. p \in Int /\ d \in Int /\ p # 0 /\ After(i) = p + d
    BY BookParts DEF After, Closes
  <1>2. ~Same(p, p + d)
    <2>1. p * (p + d) <= 0
      BY <1>1 DEF Closes
    <2> QED
      BY <1>1, <2>1, Signs DEF Same
  <1> HIDE DEF p, d
  <1>3. SideOf(p) = SideOf(-d)
    BY <1>1, <1>2 DEF Same, SideOf
  <1> QED
    BY <1>3 DEF p, d

\* the fill before the cycle's first is the one that opened it
LEMMA OpenedByIs ==
  ASSUME BookInv, venue = "HYPERLIQUID", NEW k \in Keys, NEW h, IsHistoryOf(h, k),
         NEW i \in 1 .. Len(book), NEW o, Since(h, o, i - 1)
  PROVE  OpenedBy(i) = o /\ o \in Nat
  <1>0. /\ o \in 0 .. i - 1 /\ Len(book) \in Nat /\ FillsIn(k) = 1 .. Len(book)
        /\ book[i].key = k /\ i \in Nat
    BY OneKey DEF Since, FillsIn, BookInv
  <1>1. CycleOf(i) = {j \in 1 .. Len(book) : o < j /\ j <= i}
    BY <1>0, CycleOfIs
  <1>2. o + 1 \in CycleOf(i) /\ \A x \in CycleOf(i) : o + 1 <= x /\ x \in Nat
    BY <1>0, <1>1
  <1>3. Min(CycleOf(i)) \in CycleOf(i) /\ \A x \in CycleOf(i) : Min(CycleOf(i)) <= x
    BY <1>2 DEF Min
  <1>4. Min(CycleOf(i)) = o + 1
    BY <1>0, <1>2, <1>3
  <1> QED
    BY <1>0, <1>4 DEF OpenedBy

\* what Hyperliquid's adapter calls complete is what happened
IsTrue(row) ==
    row.complete =>
        /\ Closes(row.id) /\ row.side = SideOf(book[row.id].before)
        /\ row.max = Peak(row.id) /\ row.closed = Closed(row.id)

HyperliquidTrue(rows, from, to) ==
    /\ \A row \in rows : IsTrue(row)
    /\ \A i \in from + 1 .. to : Closes(i) =>
           \E row \in rows : row.id = i /\ (~(OpenedBy(i) <= from) => row.complete)

LEMMA HyperliquidRebuilt ==
  ASSUME BookInv, venue = "HYPERLIQUID", NEW from \in Nat, NEW to \in 0 .. Len(book), from <= to
  PROVE  HyperliquidTrue(Rebuilt(from, to), from, to)
  <1> SUFFICES ASSUME NEW name, name = [i \in 1 .. to |-> i], NEW k, k = "BOTH"
               PROVE  HyperliquidTrue(Rebuilt(from, to), from, to)
    OBVIOUS
  <1> DEFINE rows == Replay(venue, k, Trades(k, from, to), to).rows
  <1>0. k \in Keys /\ Keys = {k} /\ Len(book) \in Nat /\ \A i \in 1 .. Len(book) : book[i].key = k
    BY OneKey DEF BookInv
  <1>1. PICK h : IsHistoryOf(h, k) /\ h.from = from /\ h.name = name
    <2>1. k \in Keys
      BY <1>0
    <2>2. \A x \in Keys : \A f \in Nat : \A n :
             \E g : IsHistoryOf(g, x) /\ g.from = f /\ g.name = n
      BY HistoryExists
    <2>3. \A n : \E g : IsHistoryOf(g, k) /\ g.from = from /\ g.name = n
      BY <2>1, <2>2
    <2> QED
      BY <2>3
  <1>2. \A i \in 1 .. to : h.name[i] = i
    BY <1>1
  <1>3. ExactRows(rows, h, to)
    BY <1>0, <1>1, <1>2, HyperliquidExact
  <1>4. Rebuilt(from, to) = {row \in rows : from < row.id}
    <2>1. UNION {Replay(venue, key, Trades(key, from, to), to).rows : key \in Keys} = rows
      BY <1>0
    <2> QED
      BY <2>1 DEF Rebuilt
  <1> HIDE DEF rows
  <1>5. ASSUME NEW row \in rows PROVE IsTrue(row)
    <2>1. PICK i \in from + 1 .. to : Ends(h, i) /\ RowIs(row, h, i)
      BY <1>1, <1>3 DEF ExactRows
    <2>2. i \in 1 .. to /\ i \in 1 .. Len(book)
      BY <1>0, <2>1
    <2>3. /\ Closes(i) /\ row.id = h.name[i] /\ row.side = SideOf(book[i].before)
          /\ row.complete => row.max = Peak(i) /\ row.closed = Closed(i)
      BY <1>0, <1>1, <2>1, <2>2, TrueRowIs
    <2>4. row.id = i
      BY <1>2, <2>2, <2>3
    <2> QED
      BY <2>3, <2>4 DEF IsTrue
  <1>6. ASSUME NEW i \in from + 1 .. to, Closes(i)
        PROVE  \E row \in rows : /\ row.id = i /\ from < row.id
                                 /\ ~(OpenedBy(i) <= from) => row.complete
    <2>1. i \in 1 .. to /\ i \in 1 .. Len(book) /\ from < i
      BY <1>0
    <2>2. Ends(h, i)
      BY <1>0, <1>1, <1>6, <2>1, EndsIs
    <2>3. PICK row \in rows : RowIs(row, h, i)
      BY <1>1, <1>3, <2>2 DEF ExactRows
    <2>4. PICK o : Since(h, o, i - 1) /\ (row.complete <=> o > h.from)
      BY <2>3 DEF RowIs
    <2>5. OpenedBy(i) = o /\ o \in Nat
      BY <1>0, <1>1, <2>1, <2>4, OpenedByIs
    <2>6. row.id = i
      BY <1>2, <2>1, <2>3 DEF RowIs
    <2>7. ~(OpenedBy(i) <= from) => row.complete
      BY <1>1, <2>4, <2>5
    <2> QED
      BY <2>1, <2>6, <2>7
  <1> QED
    BY <1>4, <1>5, <1>6 DEF HyperliquidTrue

\* a cycle that ends began with a fill, when the history begins flat
LEMMA SeenFromStart ==
  ASSUME NEW last, NEW h, IsHistory(h, last), h.at[0] = 0, NEW i \in 1 .. last, Ends(h, i),
         NEW o, Since(h, o, i - 1)
  PROVE  o > 0
  <1>0. /\ last \in Nat /\ i - 1 \in Nat /\ o \in 0 .. i - 1 /\ h.at[i - 1] # 0
        /\ \A j \in o + 1 .. i - 1 : ~Crosses(h, j)
    BY DEF IsHistory, Since, Ends
  <1> SUFFICES ASSUME o = 0 PROVE FALSE
    BY <1>0
  <1> DEFINE T == {m \in 0 .. i - 1 : h.at[m] = 0}
  <1>1. 0 \in T
    BY <1>0
  <1>2. ASSUME NEW m \in 0 .. (i - 1) - 1, m \in T PROVE m + 1 \in T
    <2>1. /\ m + 1 \in o + 1 .. i - 1 /\ m + 1 \in 0 .. i - 1 /\ m + 1 \in 1 .. last
          /\ (m + 1) - 1 = m /\ h.at[m] = 0
      BY <1>0, <1>2
    <2>2. CASE m + 1 \in h.fills
      <3>1. Same(h.at[m], h.at[m + 1])
        BY <1>0, <2>1, <2>2 DEF Crosses
      <3> QED
        BY <2>1, <3>1 DEF Same
    <2>3. CASE m + 1 \notin h.fills
      <3>1. h.at[m + 1] = h.at[m]
        BY <2>1, <2>3 DEF IsHistory
      <3> QED
        BY <2>1, <3>1
    <2> QED
      BY <2>2, <2>3
  <1> HIDE DEF T
  <1>3. 0 .. i - 1 \subseteq T
    BY <1>0, <1>1, <1>2, Induction
  <1>4. i - 1 \in T
    BY <1>0, <1>3
  <1> QED
    BY <1>0, <1>4 DEF T

\* without what only Hyperliquid stores
Fact(row) == [id |-> row.id, side |-> row.side, max |-> row.max, closed |-> row.closed]

LEMMA BinanceRows ==
  ASSUME BookInv, venue # "HYPERLIQUID", Reconstructible, NEW k \in Keys, NEW from \in Nat,
         NEW to \in 0 .. Len(book), NEW rows, rows = Replay(venue, k, Trades(k, from, to), to).rows
  PROVE  /\ \A row \in rows : \E i \in 1 .. to :
               Closes(i) /\ row.id = LastKnown(i, to) /\ Fact(row) = TrueRow(i, LastKnown(i, to))
         /\ \A i \in 1 .. to : Closes(i) /\ book[i].key = k =>
               \E row \in rows :
                   row.id = LastKnown(i, to) /\ Fact(row) = TrueRow(i, LastKnown(i, to))
  <1> SUFFICES ASSUME NEW name, name = [i \in 1 .. to |-> LastKnown(i, to)]
               PROVE  /\ \A row \in rows : \E i \in 1 .. to :
                            /\ Closes(i) /\ row.id = LastKnown(i, to)
                            /\ Fact(row) = TrueRow(i, LastKnown(i, to))
                      /\ \A i \in 1 .. to : Closes(i) /\ book[i].key = k =>
                            \E row \in rows : /\ row.id = LastKnown(i, to)
                                              /\ Fact(row) = TrueRow(i, LastKnown(i, to))
    OBVIOUS
  <1>1. PICK h : IsHistoryOf(h, k) /\ h.from = 0 /\ h.name = name
    <2>1. \A f \in Nat : \A n : \E g : IsHistoryOf(g, k) /\ g.from = f /\ g.name = n
      BY HistoryExists
    <2>2. \A n : \E g : IsHistoryOf(g, k) /\ g.from = 0 /\ g.name = n
      BY <2>1
    <2> QED
      BY <2>2
  <1>2. /\ to \in Nat /\ Len(book) \in Nat /\ IsHistory(h, Len(book)) /\ h.at[0] = 0
        /\ \A i \in 1 .. to : h.name[i] = LastKnown(i, to)
    BY <1>1 DEF IsHistoryOf, Reconstructible, BookInv
  <1>3. ExactRows(rows, h, to)
    <2>1. HistoryFor(h, k, to)
      BY <1>1, <1>2 DEF HistoryFor
    <2> QED
      BY <2>1, BinanceExact
  <1>4. ASSUME NEW row, NEW i \in 1 .. to, Ends(h, i), RowIs(row, h, i)
        PROVE  /\ Closes(i) /\ row.id = LastKnown(i, to)
               /\ Fact(row) = TrueRow(i, LastKnown(i, to))
    <2>0. i \in 1 .. Len(book)
      BY <1>2
    <2>1. PICK o : Since(h, o, i - 1) /\ (row.complete <=> o > h.from)
      BY <1>4 DEF RowIs
    <2>2. row.complete
      BY <1>1, <1>2, <1>4, <2>0, <2>1, SeenFromStart
    <2>3. /\ Closes(i) /\ row.id = h.name[i] /\ row.side = SideOf(book[i].before)
          /\ row.complete => row.max = Peak(i) /\ row.closed = Closed(i)
      BY <1>1, <1>4, <2>0, TrueRowIs
    <2> QED
      BY <1>2, <2>2, <2>3 DEF Fact, TrueRow
  <1>5. ASSUME NEW row \in rows
        PROVE  \E i \in 1 .. to : /\ Closes(i) /\ row.id = LastKnown(i, to)
                                  /\ Fact(row) = TrueRow(i, LastKnown(i, to))
    <2>1. PICK i \in h.from + 1 .. to : Ends(h, i) /\ RowIs(row, h, i)
      BY <1>3 DEF ExactRows
    <2>2. i \in 1 .. to
      BY <1>1, <2>1
    <2> QED
      BY <1>4, <2>1, <2>2
  <1>6. ASSUME NEW i \in 1 .. to, Closes(i), book[i].key = k
        PROVE  \E row \in rows : /\ row.id = LastKnown(i, to)
                                 /\ Fact(row) = TrueRow(i, LastKnown(i, to))
    <2>1. i \in 1 .. Len(book) /\ i \in h.from + 1 .. to
      BY <1>1, <1>2
    <2>2. Ends(h, i)
      BY <1>1, <1>6, <2>1, EndsIs
    <2>3. PICK row \in rows : RowIs(row, h, i)
      BY <1>3, <2>1, <2>2 DEF ExactRows
    <2> QED
      BY <1>4, <2>2, <2>3
  <1> QED
    BY <1>5, <1>6

\* what Binance's adapter answers is what happened
BinanceTrue(rows, from, to) ==
    Facts(rows) = {TrueRow(i, LastKnown(i, to)) :
                   i \in {c \in {n \in 1 .. to : Closes(n)} : LastKnown(c, to) > from}}

LEMMA BinanceRebuilt ==
  ASSUME BookInv, venue # "HYPERLIQUID", Reconstructible, NEW from \in Nat,
         NEW to \in 0 .. Len(book)
  PROVE  BinanceTrue(Rebuilt(from, to), from, to)
  <1> DEFINE R(k) == Replay(venue, k, Trades(k, from, to), to).rows
             closed == {c \in {n \in 1 .. to : Closes(n)} : LastKnown(c, to) > from}
  <1>0. to \in Nat /\ Len(book) \in Nat /\ \A i \in 1 .. to : book[i].key \in Keys
    <2>1. to \in Nat /\ Len(book) \in Nat
      BY DEF BookInv
    <2>2. \A i \in 1 .. to : i \in 1 .. Len(book)
      BY <2>1
    <2> QED
      BY <2>1, <2>2, BookParts
  <1>1. /\ \A k \in Keys : \A row \in R(k) : \E i \in 1 .. to :
              Closes(i) /\ row.id = LastKnown(i, to) /\ Fact(row) = TrueRow(i, LastKnown(i, to))
        /\ \A k \in Keys : \A i \in 1 .. to : Closes(i) /\ book[i].key = k =>
              \E row \in R(k) :
                  row.id = LastKnown(i, to) /\ Fact(row) = TrueRow(i, LastKnown(i, to))
    <2> SUFFICES ASSUME NEW k \in Keys, NEW rows, rows = R(k)
                 PROVE  /\ \A row \in rows : \E i \in 1 .. to :
                              /\ Closes(i) /\ row.id = LastKnown(i, to)
                              /\ Fact(row) = TrueRow(i, LastKnown(i, to))
                        /\ \A i \in 1 .. to : Closes(i) /\ book[i].key = k =>
                              \E row \in rows : /\ row.id = LastKnown(i, to)
                                                /\ Fact(row) = TrueRow(i, LastKnown(i, to))
      OBVIOUS
    <2>1. rows = Replay(venue, k, Trades(k, from, to), to).rows
      OBVIOUS
    <2> HIDE DEF R, closed
    <2> QED
      BY <2>1, BinanceRows
  <1>2. /\ Rebuilt(from, to) = {row \in UNION {R(k) : k \in Keys} : from < row.id}
        /\ Facts(Rebuilt(from, to)) = {Fact(row) : row \in Rebuilt(from, to)}
    BY DEF Rebuilt, Facts, Fact
  <1> HIDE DEF R
  <1>3. ASSUME NEW row \in Rebuilt(from, to)
        PROVE  \E i \in closed : Fact(row) = TrueRow(i, LastKnown(i, to))
    <2>1. PICK k \in Keys : row \in R(k)
      BY <1>2
    <2>2. PICK i \in 1 .. to : /\ Closes(i) /\ row.id = LastKnown(i, to)
                               /\ Fact(row) = TrueRow(i, LastKnown(i, to))
      BY <1>1, <2>1
    <2>3. LastKnown(i, to) \in Nat
      BY <1>0, LastKnownIs
    <2>4. LastKnown(i, to) > from
      BY <1>2, <2>2, <2>3
    <2> QED
      BY <2>2, <2>4
  <1>4. ASSUME NEW i \in closed
        PROVE  \E row \in Rebuilt(from, to) : Fact(row) = TrueRow(i, LastKnown(i, to))
    <2>1. i \in 1 .. to /\ Closes(i) /\ LastKnown(i, to) > from /\ book[i].key \in Keys
      BY <1>0
    <2>2. PICK row \in R(book[i].key) :
             row.id = LastKnown(i, to) /\ Fact(row) = TrueRow(i, LastKnown(i, to))
      BY <1>1, <2>1
    <2>3. LastKnown(i, to) \in Nat
      BY <1>0, <2>1, LastKnownIs
    <2>4. row \in Rebuilt(from, to)
      BY <1>2, <2>1, <2>2, <2>3
    <2> QED
      BY <2>2, <2>4
  <1> HIDE DEF closed
  <1>5. {Fact(row) : row \in Rebuilt(from, to)} = {TrueRow(i, LastKnown(i, to)) : i \in closed}
    BY <1>3, <1>4
  <1> QED
    BY <1>2, <1>5 DEF BinanceTrue, closed

(***************************************************************************)
(* What has happened stays as it was when the book grows.                  *)
(***************************************************************************)
Grows ==
    /\ Len(book) \in Nat /\ DOMAIN book = 1 .. Len(book)
    /\ Len(book') \in Nat /\ DOMAIN book' = 1 .. Len(book') /\ Len(book) <= Len(book')
    /\ \A i \in 1 .. Len(book) : book'[i] = book[i]
    /\ UNCHANGED <<venue, initial>>

LEMMA CycleStays ==
  ASSUME Grows, NEW i \in 1 .. Len(book)
  PROVE  /\ After(i)' = After(i) /\ (Closes(i)' <=> Closes(i)) /\ CycleOf(i)' = CycleOf(i)
         /\ Reduction(i)' = Reduction(i) /\ CycleOf(i) \subseteq 1 .. i
  <1>0. /\ Len(book) \in Nat /\ DOMAIN book = 1 .. Len(book)
        /\ Len(book') \in Nat /\ DOMAIN book' = 1 .. Len(book') /\ Len(book) <= Len(book')
        /\ \A j \in 1 .. Len(book) : book'[j] = book[j]
    BY DEF Grows
  <1>1. \A j \in 1 .. Len(book) : After(j)' = After(j)
    BY <1>0 DEF After
  <1>2. Closes(i)' <=> Closes(i)
    BY <1>0, <1>1 DEF Closes
  <1>3. Reduction(i)' = Reduction(i)
    BY <1>0 DEF Reduction
  <1>4. {j \in FillsIn(book[i].key) : j <= i}' = {j \in FillsIn(book[i].key) : j <= i}
    BY <1>0 DEF FillsIn
  <1> DEFINE E == {j \in FillsIn(book[i].key) : j < i /\ book[j].before * After(j) <= 0}
  <1>5. E' = E
    BY <1>0, <1>1 DEF FillsIn
  <1>6. CycleOf(i) = {j \in {n \in FillsIn(book[i].key) : n <= i} : \A e \in E : e < j}
    BY DEF CycleOf
  <1>7. CycleOf(i)' = {j \in {n \in FillsIn(book[i].key) : n <= i}' : \A e \in E' : e < j}
    BY DEF CycleOf
  <1>8. CycleOf(i) \subseteq 1 .. i
    BY <1>0 DEF CycleOf, FillsIn
  <1> HIDE DEF E
  <1>9. CycleOf(i)' = CycleOf(i)
    BY <1>4, <1>5, <1>6, <1>7
  <1> QED
    BY <1>1, <1>2, <1>3, <1>8, <1>9

LEMMA FactsStay ==
  ASSUME Grows, NEW i \in 1 .. Len(book)
  PROVE  /\ Peak(i)' = Peak(i) /\ Closed(i)' = Closed(i) /\ OpenedBy(i)' = OpenedBy(i)
         /\ SideOf(book[i].before)' = SideOf(book[i].before)
         /\ \A id : TrueRow(i, id)' = TrueRow(i, id)
         /\ \A to \in 0 .. Len(book) : LastKnown(i, to)' = LastKnown(i, to)
  <1>0. /\ Len(book) \in Nat /\ DOMAIN book = 1 .. Len(book)
        /\ Len(book') \in Nat /\ DOMAIN book' = 1 .. Len(book') /\ Len(book) <= Len(book')
        /\ \A j \in 1 .. Len(book) : book'[j] = book[j]
    BY DEF Grows
  <1>1. CycleOf(i)' = CycleOf(i) /\ CycleOf(i) \subseteq 1 .. Len(book)
    BY <1>0, CycleStays
  <1>2. \A j \in 1 .. i : Reduction(j)' = Reduction(j)
    BY <1>0, CycleStays
  <1>3. Peak(i)' = Peak(i)
    <2>1. {Abs(book[j].before) : j \in CycleOf(i)}' = {Abs(book[j].before) : j \in CycleOf(i)}
      BY <1>0, <1>1 DEF Abs
    <2> QED
      BY <2>1 DEF Peak, Max
  <1>4. Closed(i)' = Closed(i)
    <2> DEFINE f == [j \in 1 .. i |-> IF j \in CycleOf(i) THEN Reduction(j) ELSE 0]
    <2>1. f' = f
      BY <1>1, <1>2
    <2>2. Closed(i) = SumTo(f, i) /\ Closed(i)' = SumTo(f', i)
      BY DEF Closed, SumTo
    <2> HIDE DEF f
    <2> QED
      BY <2>1, <2>2
  <1>5. OpenedBy(i)' = OpenedBy(i)
    BY <1>1 DEF OpenedBy, Min
  <1>6. SideOf(book[i].before)' = SideOf(book[i].before)
    BY <1>0 DEF SideOf
  <1>7. \A id : TrueRow(i, id)' = TrueRow(i, id)
    BY <1>3, <1>4, <1>6 DEF TrueRow
  <1>8. ASSUME NEW to \in 0 .. Len(book) PROVE LastKnown(i, to)' = LastKnown(i, to)
    <2>1. {j \in FillsOf(book[i].trade) : j <= to}' = {j \in FillsOf(book[i].trade) : j <= to}
      BY <1>0 DEF FillsOf
    <2> QED
      BY <2>1 DEF LastKnown, Max
  <1> QED
    BY <1>3, <1>4, <1>5, <1>6, <1>7, <1>8

LEMMA ReconstructibleBefore ==
  ASSUME Grows, Reconstructible'
  PROVE  Reconstructible
  <1>0. /\ Len(book) \in Nat /\ DOMAIN book = 1 .. Len(book)
        /\ Len(book') \in Nat /\ DOMAIN book' = 1 .. Len(book') /\ Len(book) <= Len(book')
        /\ \A j \in 1 .. Len(book) : book'[j] = book[j]
        /\ initial' = initial /\ Keys' = Keys
    BY DEF Grows, Keys
  <1>1. \A k \in Keys : initial[k] = 0
    BY <1>0 DEF Reconstructible
  <1>2. ASSUME NEW i \in DOMAIN book, NEW j \in DOMAIN book, NEW n \in i .. j,
               book[i].trade = book[j].trade, book[n].key = book[i].key
        PROVE  book[n].trade = book[i].trade
    <2>1. /\ i \in DOMAIN book' /\ j \in DOMAIN book'
          /\ book'[i] = book[i] /\ book'[j] = book[j] /\ book'[n] = book[n]
      BY <1>0
    <2> QED
      BY <1>2, <2>1 DEF Reconstructible
  <1> QED
    BY <1>1, <1>2 DEF Reconstructible

AnswerTrue(a) ==
    IF venue = "HYPERLIQUID" THEN HyperliquidTrue(a.rows, a.from, a.to)
    ELSE Reconstructible => BinanceTrue(a.rows, a.from, a.to)

\* some row says that the position which fill i closed was closed
Covered(i, rows) ==
    \E row \in rows :
        /\ row.side = SideOf(book[i].before)
        /\ IF venue = "HYPERLIQUID" THEN row.id = i ELSE book[row.id].order = book[i].order

LEMMA IsTrueStays ==
  ASSUME Grows, NEW row, row.id \in 1 .. Len(book)
  PROVE  IsTrue(row)' <=> IsTrue(row)
  <1> SUFFICES ASSUME NEW i, i = row.id PROVE IsTrue(row)' <=> IsTrue(row)
    OBVIOUS
  <1>1. /\ Peak(i)' = Peak(i) /\ Closed(i)' = Closed(i) /\ (Closes(i)' <=> Closes(i))
        /\ SideOf(book[i].before)' = SideOf(book[i].before)
    BY CycleStays, FactsStay
  <1>2. IsTrue(row) <=> (row.complete => /\ Closes(i) /\ row.side = SideOf(book[i].before)
                                         /\ row.max = Peak(i) /\ row.closed = Closed(i))
    BY DEF IsTrue
  <1>3. IsTrue(row)' <=> (row.complete => /\ Closes(i)' /\ row.side = SideOf(book[i].before)'
                                          /\ row.max = Peak(i)' /\ row.closed = Closed(i)')
    BY DEF IsTrue
  <1> QED
    BY <1>1, <1>2, <1>3

LEMMA AnswerTrueStays ==
  ASSUME Grows, NEW a, a.from \in Nat, a.to \in 0 .. Len(book), AnswerTrue(a),
         \A row \in a.rows : row.id \in 1 .. Len(book)
  PROVE  AnswerTrue(a)'
  <1> SUFFICES ASSUME NEW rows, NEW from \in Nat, NEW to \in 0 .. Len(book),
                      rows = a.rows, from = a.from, to = a.to
               PROVE  AnswerTrue(a)'
    OBVIOUS
  <1>0. /\ to \in Nat /\ venue' = venue /\ \A i \in 1 .. to : i \in 1 .. Len(book)
        /\ Len(book) \in Nat
    BY DEF Grows
  <1>1. CASE venue = "HYPERLIQUID"
    <2>1. HyperliquidTrue(rows, from, to)
      BY <1>1 DEF AnswerTrue
    <2>2. \A row \in rows : IsTrue(row)'
      BY <2>1, IsTrueStays DEF HyperliquidTrue
    <2>3. ASSUME NEW i \in from + 1 .. to, Closes(i)'
          PROVE  \E row \in rows : row.id = i /\ (~(OpenedBy(i)' <= from) => row.complete)
      <3>1. i \in 1 .. Len(book)
        BY <1>0
      <3>2. Closes(i) /\ OpenedBy(i)' = OpenedBy(i)
        BY <2>3, <3>1, CycleStays, FactsStay
      <3> QED
        BY <2>1, <3>2 DEF HyperliquidTrue
    <2>4. HyperliquidTrue(rows, from, to)'
      BY <2>2, <2>3 DEF HyperliquidTrue
    <2> QED
      BY <1>0, <1>1, <2>4 DEF AnswerTrue
  <1>2. CASE venue # "HYPERLIQUID"
    <2> SUFFICES ASSUME Reconstructible' PROVE BinanceTrue(rows, from, to)'
      BY <1>0, <1>2 DEF AnswerTrue
    <2>1. BinanceTrue(rows, from, to)
      BY <1>2, ReconstructibleBefore DEF AnswerTrue
    <2>2. \A i \in 1 .. to : (Closes(i)' <=> Closes(i)) /\ LastKnown(i, to)' = LastKnown(i, to)
      BY <1>0, CycleStays, FactsStay
    <2>3. \A i \in 1 .. to : \A id : TrueRow(i, id)' = TrueRow(i, id)
      BY <1>0, FactsStay
    <2> DEFINE C == {c \in {n \in 1 .. to : Closes(n)} : LastKnown(c, to) > from}
    <2>4. C' = C /\ C \subseteq 1 .. to
      BY <2>2
    <2>5. \A i \in C : TrueRow(i, LastKnown(i, to))' = TrueRow(i, LastKnown(i, to))
      <3> SUFFICES ASSUME NEW i \in 1 .. to, NEW l, l = LastKnown(i, to)
                   PROVE  TrueRow(i, LastKnown(i, to))' = TrueRow(i, LastKnown(i, to))
        OBVIOUS
      <3>1. LastKnown(i, to)' = l
        BY <2>2
      <3>2. TrueRow(i, l)' = TrueRow(i, l)
        BY <2>3
      <3> QED
        BY <3>1, <3>2 DEF TrueRow
    <2>6. BinanceTrue(rows, from, to) <=>
             Facts(rows) = {TrueRow(i, LastKnown(i, to)) : i \in C}
      BY DEF BinanceTrue
    <2>7. BinanceTrue(rows, from, to)' <=>
             Facts(rows)' = {TrueRow(i, LastKnown(i, to))' : i \in C'}
      BY DEF BinanceTrue
    <2>8. Facts(rows)' = Facts(rows)
      BY DEF Facts
    <2> HIDE DEF C
    <2> QED
      BY <2>1, <2>4, <2>5, <2>6, <2>7, <2>8
  <1> QED
    BY <1>1, <1>2

LEMMA CoveredStays ==
  ASSUME Grows, NEW i \in 1 .. Len(book), NEW rows, \A row \in rows : row.id \in 1 .. Len(book)
  PROVE  Covered(i, rows)' <=> Covered(i, rows)
  BY DEF Covered, Grows, SideOf

(***************************************************************************)
(* The second invariant: what is answered and what is stored is true, and  *)
(* nothing that closed before the cursor is missing.                       *)
(***************************************************************************)
Missing(i) == Closes(i) /\ (venue = "HYPERLIQUID" \/ Reconstructible) /\ ~Covered(i, stored)

TrueInv ==
    /\ venue = "HYPERLIQUID" => pc["script"] = "idle" /\ \A row \in stored : IsTrue(row)
    /\ \A w \in Workers : pc[w] = "read" => AnswerTrue(answer[w])
    /\ pc["sync"] = "read" => answer["sync"].from <= cursor
    /\ \A i \in 1 .. cursor : ~Missing(i)

\* what IInv says of the sizes
LEMMA Bounds ==
  ASSUME IInv
  PROVE  /\ Len(book) \in Nat /\ DOMAIN book = 1 .. Len(book)
         /\ cursor \in 0 .. Len(book) /\ readTo \in 0 .. Len(book)
         /\ pc \in [Workers -> {"idle", "read"}] /\ DOMAIN answer = Workers
         /\ \A row \in stored : RowOK(row, readTo) /\ row.id \in 1 .. Len(book)
         /\ \A w \in Workers :
               /\ AnswerOK(answer[w])
               /\ answer[w].from \in Nat /\ answer[w].to \in 0 .. Len(book)
               /\ answer[w].from <= answer[w].to
               /\ \A row \in answer[w].rows :
                     RowOK(row, answer[w].to) /\ row.id \in 1 .. Len(book)
  <1>1. /\ Len(book) \in Nat /\ DOMAIN book = 1 .. Len(book)
        /\ readTo \in 0 .. Len(book) /\ cursor \in 0 .. readTo
        /\ pc \in [Workers -> {"idle", "read"}] /\ DOMAIN answer = Workers
        /\ \A row \in stored : RowOK(row, readTo)
        /\ \A w \in Workers : AnswerOK(answer[w])
    BY DEF IInv, BookInv, RowsInv
  <1>2. \A row \in stored : row.id \in 1 .. Len(book)
    BY <1>1 DEF RowOK
  <1>3. ASSUME NEW w \in Workers
        PROVE  /\ answer[w].from \in Nat /\ answer[w].to \in 0 .. Len(book)
               /\ answer[w].from <= answer[w].to
               /\ \A row \in answer[w].rows :
                     RowOK(row, answer[w].to) /\ row.id \in 1 .. Len(book)
    BY <1>1 DEF AnswerOK, RowOK
  <1> QED
    BY <1>1, <1>2, <1>3

LEMMA InitTrue == Init => TrueInv
  <1> SUFFICES ASSUME Init PROVE TrueInv
    OBVIOUS
  <1>1. pc["sync"] = "idle" /\ pc["script"] = "idle" /\ stored = {} /\ cursor = 0
        /\ \A w \in Workers : pc[w] = "idle"
    BY DEF Init, Workers
  <1> QED
    BY <1>1 DEF TrueInv

\* the book may grow, what is stored and answered stays
LEMMA GrowsTrue ==
  ASSUME IInv, TrueInv, Grows, UNCHANGED <<stored, cursor, pc, answer>>
  PROVE  TrueInv'
  <1>1. venue = "HYPERLIQUID" => \A row \in stored : IsTrue(row)'
    BY Bounds, IsTrueStays DEF TrueInv
  <1>2. ASSUME NEW w \in Workers, pc[w] = "read" PROVE AnswerTrue(answer[w])'
    <2> SUFFICES ASSUME NEW a, a = answer[w], a = answer'[w] PROVE AnswerTrue(a)'
      BY DEF AnswerTrue, HyperliquidTrue, BinanceTrue
    <2> QED
      BY <1>2, Bounds, AnswerTrueStays DEF TrueInv
  <1>3. ASSUME NEW i \in 1 .. cursor PROVE ~Missing(i)'
    <2> SUFFICES ASSUME NEW rows, rows = stored, rows = stored', Closes(i)',
                        venue = "HYPERLIQUID" \/ Reconstructible'
                 PROVE  Covered(i, rows)'
      BY DEF Missing, Covered, Grows
    <2>1. i \in 1 .. Len(book) /\ \A row \in rows : row.id \in 1 .. Len(book)
      BY Bounds
    <2>2. Closes(i) /\ (venue = "HYPERLIQUID" \/ Reconstructible)
      BY <2>1, CycleStays, ReconstructibleBefore
    <2>3. Covered(i, rows)
      BY <2>2 DEF TrueInv, Missing
    <2> QED
      BY <2>1, <2>3, CoveredStays
  <1> QED
    BY <1>1, <1>2, <1>3 DEF TrueInv, Grows

LEMMA FillTrue ==
  ASSUME IInv, TrueInv, NEW k \in Keys, NEW delta \in Deltas,
         NEW order \in 1 .. MaxFills, NEW trade \in 1 .. MaxFills,
         Fill(k, delta, order, trade)
  PROVE  TrueInv'
  <1> SUFFICES ASSUME NEW n, n = Len(book) + 1 PROVE TrueInv'
    OBVIOUS
  <1>1. /\ Len(book) \in Nat /\ Len(book') = n /\ book' \in Seq(Fills)'
        /\ \A i \in 1 .. Len(book) : book'[i] = book[i]
    BY Appended DEF IInv
  <1>2. Grows
    BY <1>1, Bounds DEF Grows, Fill
  <1> QED
    BY <1>2, GrowsTrue DEF Fill

LEMMA SameBook ==
  ASSUME IInv, UNCHANGED <<venue, initial, book>>
  PROVE  Grows
  BY Bounds DEF Grows

LEMMA ReadTrue ==
  ASSUME IInv, TrueInv, NEW w \in Workers, Read(w)
  PROVE  TrueInv'
  <1> SUFFICES ASSUME NEW from, NEW to,
                      from = IF w = "sync" THEN Most(cursor - Overlap, 0) ELSE 0, to = Len(book)
               PROVE  TrueInv'
    OBVIOUS
  <1>0. /\ answer' = [answer EXCEPT ![w] = [rows |-> Rebuilt(from, to), from |-> from, to |-> to]]
        /\ pc' = [pc EXCEPT ![w] = "read"]
        /\ UNCHANGED <<venue, initial, book, stored, cursor>>
        /\ pc[w] = "idle" /\ (w = "sync" \/ venue # "HYPERLIQUID")
    BY DEF Read
  <1>1. /\ from \in Nat /\ to \in 0 .. Len(book) /\ from <= to /\ (w = "sync" => from <= cursor)
        /\ pc \in [Workers -> {"idle", "read"}] /\ DOMAIN answer = Workers
        /\ "sync" \in Workers /\ "script" \in Workers
    BY Bounds, Constants DEF Most, Workers
  <1>2. Grows
    BY <1>0, SameBook
  <1>3. AnswerTrue([rows |-> Rebuilt(from, to), from |-> from, to |-> to])
    BY <1>1, HyperliquidRebuilt, BinanceRebuilt DEF AnswerTrue, IInv
  <1>4. ASSUME NEW v \in Workers, pc'[v] = "read" PROVE AnswerTrue(answer[v])'
    <2>1. CASE v = w
      <3> SUFFICES ASSUME NEW a, a = [rows |-> Rebuilt(from, to), from |-> from, to |-> to]
                   PROVE  AnswerTrue(a)'
        <4>1. answer'[v] = [rows |-> Rebuilt(from, to), from |-> from, to |-> to]
          BY <1>0, <1>1, <2>1
        <4> QED
          BY <4>1 DEF AnswerTrue, HyperliquidTrue, BinanceTrue
      <3>1. a.from = from /\ a.to = to /\ a.rows = Rebuilt(from, to)
        OBVIOUS
      <3>2. \A row \in a.rows : row.id \in 1 .. Len(book)
        BY <1>1, <3>1, RebuiltRows DEF IInv
      <3> QED
        BY <1>1, <1>2, <1>3, <3>1, <3>2, AnswerTrueStays
    <2>2. CASE v # w
      <3>1. answer'[v] = answer[v] /\ pc[v] = "read"
        BY <1>0, <1>1, <1>4, <2>2
      <3> SUFFICES ASSUME NEW a, a = answer[v], a = answer'[v] PROVE AnswerTrue(a)'
        BY <3>1 DEF AnswerTrue, HyperliquidTrue, BinanceTrue
      <3> QED
        BY <1>2, <3>1, Bounds, AnswerTrueStays DEF TrueInv
    <2> QED
      BY <2>1, <2>2
  <1>5. venue = "HYPERLIQUID" => pc'["script"] = "idle" /\ \A row \in stored : IsTrue(row)'
    <2>1. venue = "HYPERLIQUID" => \A row \in stored : IsTrue(row)'
      BY <1>2, Bounds, IsTrueStays DEF TrueInv
    <2> QED
      BY <1>0, <1>1, <2>1 DEF TrueInv
  <1>6. pc'["sync"] = "read" => answer'["sync"].from <= cursor
    BY <1>0, <1>1 DEF TrueInv
  <1>7. \A i \in 1 .. cursor : ~Missing(i)'
    BY <1>0 DEF TrueInv, Missing, Covered, Closes, After, Reconstructible, Keys
  <1> QED
    BY <1>0, <1>4, <1>5, <1>6, <1>7 DEF TrueInv

\* a session that ends writes rows of its answer and loses nothing
LEMMA DoneTrue ==
  ASSUME IInv, TrueInv, NEW w \in Workers, Done(w), pc[w] = "read",
         \A row \in stored' : row \in stored \/ row \in answer[w].rows,
         w = "script" => cursor' = cursor,
         \A i \in 1 .. cursor' :
            Closes(i) /\ (venue = "HYPERLIQUID" \/ Reconstructible) => Covered(i, stored')
  PROVE  TrueInv'
  <1>0. /\ UNCHANGED <<venue, initial, book, readTo>>
        /\ pc' = [pc EXCEPT ![w] = "idle"] /\ answer' = [answer EXCEPT ![w] = NoAnswer]
        /\ pc \in [Workers -> {"idle", "read"}] /\ DOMAIN answer = Workers
        /\ "sync" \in Workers /\ "script" \in Workers
    BY Bounds DEF Done, Workers
  <1>1. Grows
    BY <1>0, SameBook
  <1>2. ASSUME NEW v \in Workers, pc'[v] = "read" PROVE AnswerTrue(answer[v])'
    <2>1. answer'[v] = answer[v] /\ pc[v] = "read"
      BY <1>0, <1>2
    <2> SUFFICES ASSUME NEW a, a = answer[v], a = answer'[v] PROVE AnswerTrue(a)'
      BY <2>1 DEF AnswerTrue, HyperliquidTrue, BinanceTrue
    <2> QED
      BY <1>1, <2>1, Bounds, AnswerTrueStays DEF TrueInv
  <1>3. ASSUME venue = "HYPERLIQUID", NEW row \in stored' PROVE IsTrue(row)'
    <2>1. IsTrue(row) /\ row.id \in 1 .. Len(book)
      <3>1. HyperliquidTrue(answer[w].rows, answer[w].from, answer[w].to)
        BY <1>3 DEF TrueInv, AnswerTrue
      <3> QED
        BY <1>3, <3>1, Bounds DEF TrueInv, HyperliquidTrue
    <2> QED
      BY <1>1, <2>1, IsTrueStays
  <1>4. venue = "HYPERLIQUID" => pc'["script"] = "idle"
    BY <1>0 DEF TrueInv
  <1>5. pc'["sync"] = "read" => answer'["sync"].from <= cursor'
    <2>1. CASE w = "sync"
      BY <1>0, <2>1
    <2>2. CASE w = "script"
      BY <1>0, <2>2 DEF TrueInv
    <2> QED
      BY <2>1, <2>2 DEF Workers
  <1>6. \A i \in 1 .. cursor' : ~Missing(i)'
    BY <1>0 DEF Missing, Covered, Closes, After, Reconstructible, Keys
  <1> QED
    BY <1>0, <1>2, <1>3, <1>4, <1>5, <1>6 DEF TrueInv

\* a row is replaced by one of the same fill, which says the same of its side
LEMMA UpsertedCovers ==
  ASSUME IInv, NEW i, NEW rows \in SUBSET stored, NEW w \in Workers,
         Covered(i, rows) \/ Covered(i, answer[w].rows)
  PROVE  Covered(i, Upserted(rows, answer[w].rows))
  <1>1. \A row \in stored : row.side = SideOf(-book[row.id].delta)
    BY DEF IInv, RowsInv, RowOK
  <1>2. \A row \in answer[w].rows : row.side = SideOf(-book[row.id].delta)
    BY Bounds DEF RowOK
  <1>3. CASE Covered(i, rows)
    <2>1. PICK row \in rows :
             /\ row.side = SideOf(book[i].before)
             /\ IF venue = "HYPERLIQUID" THEN row.id = i ELSE book[row.id].order = book[i].order
      BY <1>3 DEF Covered
    <2>2. CASE \A item \in answer[w].rows : item.id # row.id
      BY <2>1, <2>2 DEF Covered, Upserted
    <2>3. ASSUME NEW item \in answer[w].rows, item.id = row.id
          PROVE  Covered(i, Upserted(rows, answer[w].rows))
      <3>1. item.side = row.side
        BY <1>1, <1>2, <2>3
      <3> QED
        BY <2>1, <2>3, <3>1 DEF Covered, Upserted
    <2> QED
      BY <2>2, <2>3
  <1>4. CASE Covered(i, answer[w].rows)
    BY <1>4 DEF Covered, Upserted
  <1> QED
    BY <1>3, <1>4

\* what closed in its window, an answer covers
LEMMA AnswerCovers ==
  ASSUME IInv, NEW w \in Workers, AnswerTrue(answer[w]),
         NEW i \in answer[w].from + 1 .. answer[w].to, Closes(i),
         venue = "HYPERLIQUID" \/ Reconstructible
  PROVE  Covered(i, answer[w].rows)
  <1> SUFFICES ASSUME NEW rows, NEW from \in Nat, NEW to \in 0 .. Len(book),
                      rows = answer[w].rows, from = answer[w].from, to = answer[w].to
               PROVE  Covered(i, rows)
    BY Bounds
  <1>0. i \in from + 1 .. to /\ i \in 1 .. to /\ i \in 1 .. Len(book) /\ Len(book) \in Nat
    BY Bounds
  <1>1. CASE venue = "HYPERLIQUID"
    <2>1. PICK row \in rows : row.id = i
      BY <1>0, <1>1 DEF AnswerTrue, HyperliquidTrue
    <2>2. row.side = SideOf(-book[i].delta)
      BY <2>1, Bounds DEF RowOK
    <2>3. row.side = SideOf(book[i].before)
      BY <1>0, <2>2, CloseSide DEF IInv
    <2> QED
      BY <1>1, <2>1, <2>3 DEF Covered
  <1>2. CASE venue # "HYPERLIQUID"
    <2> SUFFICES ASSUME NEW l, l = LastKnown(i, to) PROVE Covered(i, rows)
      OBVIOUS
    <2>1. Facts(rows) = {TrueRow(n, LastKnown(n, to)) :
                         n \in {c \in {m \in 1 .. to : Closes(m)} : LastKnown(c, to) > from}}
      BY <1>2 DEF AnswerTrue, BinanceTrue
    <2>2. l \in 1 .. to /\ i <= l /\ book[l].order = book[i].order
      <3>1. l \in 1 .. to /\ i <= l /\ book[l].trade = book[i].trade
        BY <1>0, LastKnownIs DEF IInv
      <3>2. l \in 1 .. Len(book)
        BY <1>0, <3>1
      <3> QED
        BY <1>0, <3>1, <3>2 DEF IInv, BookInv
    <2>3. l > from
      BY <1>0, <2>2
    <2>4. TrueRow(i, l) \in Facts(rows)
      BY <1>0, <2>1, <2>3
    <2>5. PICK row \in rows :
             TrueRow(i, l) = [id |-> row.id, side |-> row.side, max |-> row.max,
                              closed |-> row.closed]
      BY <2>4 DEF Facts
    <2>6. row.id = l /\ row.side = SideOf(book[i].before)
      BY <2>5 DEF TrueRow
    <2> QED
      BY <1>2, <2>2, <2>6 DEF Covered
  <1> QED
    BY <1>1, <1>2

LEMMA SyncTrue ==
  ASSUME IInv, TrueInv, CommitSync
  PROVE  TrueInv'
  <1> SUFFICES ASSUME NEW w, w = "sync", w \in Workers PROVE TrueInv'
    BY DEF Workers
  <1>1. /\ pc[w] = "read" /\ stored' = Upserted(stored, answer[w].rows)
        /\ cursor' = answer[w].to /\ Done(w)
    BY DEF CommitSync
  <1>2. \A row \in stored' : row \in stored \/ row \in answer[w].rows
    BY <1>1 DEF Upserted
  <1>3. ASSUME NEW i \in 1 .. cursor', Closes(i), venue = "HYPERLIQUID" \/ Reconstructible
        PROVE  Covered(i, stored')
    <2>1. /\ answer[w].from \in Nat /\ answer[w].from <= cursor /\ cursor \in Nat
          /\ answer[w].to \in Nat /\ i \in 1 .. answer[w].to
      BY <1>1, Bounds DEF TrueInv
    <2>2. CASE i <= answer[w].from
      <3>1. i \in 1 .. cursor
        BY <2>1, <2>2
      <3>2. Covered(i, stored)
        BY <1>3, <3>1 DEF TrueInv, Missing
      <3> QED
        BY <1>1, <3>2, UpsertedCovers
    <2>3. CASE ~(i <= answer[w].from)
      <3>1. i \in answer[w].from + 1 .. answer[w].to
        BY <2>1, <2>3
      <3>2. Covered(i, answer[w].rows)
        BY <1>1, <1>3, <3>1, AnswerCovers DEF TrueInv
      <3> QED
        BY <1>1, <3>2, UpsertedCovers
    <2> QED
      BY <2>2, <2>3
  <1> QED
    BY <1>1, <1>2, <1>3, DoneTrue

LEMMA RebuildTrue ==
  ASSUME IInv, TrueInv, CommitRebuild
  PROVE  TrueInv'
  <1> SUFFICES ASSUME NEW w, w = "script", w \in Workers PROVE TrueInv'
    BY DEF Workers
  <1>1. /\ pc[w] = "read" /\ stored' = Upserted(stored, answer[w].rows)
        /\ cursor' = cursor /\ Done(w)
    BY DEF CommitRebuild
  <1>2. \A row \in stored' : row \in stored \/ row \in answer[w].rows
    BY <1>1 DEF Upserted
  <1>3. \A i \in 1 .. cursor' :
           Closes(i) /\ (venue = "HYPERLIQUID" \/ Reconstructible) => Covered(i, stored')
    BY <1>1, UpsertedCovers DEF TrueInv, Missing
  <1> QED
    BY <1>1, <1>2, <1>3, DoneTrue

\* a row that the cleanup removes leaves the order the row that was rebuilt
LEMMA CleanupTrue ==
  ASSUME IInv, TrueInv, CommitCleanup
  PROVE  TrueInv'
  <1> SUFFICES ASSUME NEW w, w = "script", w \in Workers PROVE TrueInv'
    BY DEF Workers
  <1> DEFINE groups == Groups(answer[w].to)
             kept == stored \ UNION {Surplus(g) : g \in groups}
  <1>1. /\ pc[w] = "read" /\ stored' = Upserted(kept, answer[w].rows)
        /\ cursor' = cursor /\ Done(w) /\ \A g \in groups : Cardinality(Matches(g)) = 1
    BY DEF CommitCleanup
  <1>2. kept \in SUBSET stored
    OBVIOUS
  <1>3. \A row \in stored' : row \in stored \/ row \in answer[w].rows
    BY <1>1, <1>2 DEF Upserted
  <1>4. ASSUME NEW i \in 1 .. cursor', Closes(i), venue = "HYPERLIQUID" \/ Reconstructible
        PROVE  Covered(i, stored')
    <2>1. Covered(i, stored) /\ venue # "HYPERLIQUID"
      BY <1>1, <1>4 DEF TrueInv, Missing
    <2>2. PICK row \in stored :
             row.side = SideOf(book[i].before) /\ book[row.id].order = book[i].order
      BY <2>1 DEF Covered
    <2>3. CASE row \in kept
      <3>1. Covered(i, kept)
        <4> HIDE DEF kept
        <4> QED
          BY <2>1, <2>2, <2>3 DEF Covered
      <3> QED
        BY <1>1, <1>2, <3>1, UpsertedCovers
    <2>4. CASE row \notin kept
      <3>1. PICK g \in groups : row \in Surplus(g)
        BY <2>4
      <3>2. row \in g
        BY <3>1 DEF Surplus
      <3>3. PICK side, order : g = Fragments(side, order, answer[w].to)
        BY <3>1 DEF Groups
      <3>4. \A other \in g : /\ other \in stored /\ other.side = side
                             /\ book[other.id].order = order
        BY <3>3 DEF Fragments
      <3>5. Matches(g) # {}
        <4>1. Cardinality(Matches(g)) = 1
          BY <1>1, <3>1
        <4>2. Cardinality({}) = 0
          BY FS_EmptySet
        <4> HIDE DEF groups
        <4> QED
          BY <4>1, <4>2
      <3>6. PICK item \in answer[w].rows : \E other \in g : other.id = item.id
        BY <3>5 DEF Matches
      <3>7. PICK other \in g : other.id = item.id
        BY <3>6
      <3>8. /\ item.side = SideOf(-book[item.id].delta)
            /\ other.side = SideOf(-book[other.id].delta)
        BY <3>4, Bounds DEF RowOK
      <3>9. item.side = row.side /\ book[item.id].order = book[row.id].order
        BY <3>2, <3>4, <3>7, <3>8
      <3>10. Covered(i, answer[w].rows)
        BY <2>1, <2>2, <3>9 DEF Covered
      <3> QED
        BY <1>1, <1>2, <3>10, UpsertedCovers
    <2> QED
      BY <2>3, <2>4
  <1> HIDE DEF kept, groups
  <1> QED
    BY <1>1, <1>3, <1>4, DoneTrue

LEMMA GiveUpTrue ==
  ASSUME IInv, TrueInv, NEW w \in Workers, GiveUp(w)
  PROVE  TrueInv'
  <1>1. pc[w] = "read" /\ stored' = stored /\ cursor' = cursor /\ Done(w)
    BY DEF GiveUp
  <1>2. \A i \in 1 .. cursor' :
           Closes(i) /\ (venue = "HYPERLIQUID" \/ Reconstructible) => Covered(i, stored')
    BY <1>1 DEF TrueInv, Missing
  <1> QED
    BY <1>1, <1>2, DoneTrue

LEMMA StepTrue == IInv /\ TrueInv /\ [Next]_vars => TrueInv'
  <1> SUFFICES ASSUME IInv, TrueInv, [Next]_vars PROVE TrueInv'
    OBVIOUS
  <1>1. CASE \E k \in Keys, delta \in Deltas, order, trade \in 1 .. MaxFills :
                 Fill(k, delta, order, trade)
    BY <1>1, FillTrue
  <1>2. CASE \E w \in Workers : Read(w) \/ GiveUp(w)
    BY <1>2, ReadTrue, GiveUpTrue
  <1>3. CASE CommitSync
    BY <1>3, SyncTrue
  <1>4. CASE CommitRebuild
    BY <1>4, RebuildTrue
  <1>5. CASE CommitCleanup
    BY <1>5, CleanupTrue
  <1>6. CASE UNCHANGED vars
    BY <1>6, SameBook, GrowsTrue DEF vars
  <1> QED
    BY <1>1, <1>2, <1>3, <1>4, <1>5, <1>6 DEF Next

\* What is answered and what Hyperliquid's rows say is true, and nothing that
\* closed before the cursor is missing.
THEOREM SpecTrue == Spec => [](IInv /\ TrueInv)
  BY InitInv, InitTrue, StepInv, StepTrue, PTL DEF Spec

\* What an adapter call answers are the cycles that really closed in its
\* window, whole, however the orders were filled and wherever the call cut them.
THEOREM SpecRowsAreCycles == Spec => []RowsAreCycles
  <1>1. IInv /\ TrueInv => RowsAreCycles
    <2> SUFFICES ASSUME IInv, TrueInv, NEW w \in Workers, pc[w] = "read",
                        NEW a, a = answer[w], NEW closings, closings = {i \in 1 .. a.to : Closes(i)}
                 PROVE  IF venue = "HYPERLIQUID"
                        THEN Facts({row \in a.rows : row.complete}) \subseteq
                                 {TrueRow(i, i) : i \in closings}
                        ELSE Reconstructible =>
                                 Facts(a.rows) = {TrueRow(i, LastKnown(i, a.to)) :
                                     i \in {c \in closings : LastKnown(c, a.to) > a.from}}
      BY DEF RowsAreCycles
    <2>1. AnswerTrue(a)
      BY DEF TrueInv
    <2>2. CASE venue = "HYPERLIQUID"
      <3>1. ASSUME NEW row \in a.rows, row.complete
            PROVE  [id |-> row.id, side |-> row.side, max |-> row.max, closed |-> row.closed]
                      \in {TrueRow(i, i) : i \in closings}
        <4>1. /\ Closes(row.id) /\ row.side = SideOf(book[row.id].before)
              /\ row.max = Peak(row.id) /\ row.closed = Closed(row.id)
          BY <2>1, <2>2, <3>1 DEF AnswerTrue, HyperliquidTrue, IsTrue
        <4>2. row.id \in closings
          BY <4>1, Bounds DEF RowOK
        <4> QED
          BY <4>1, <4>2 DEF TrueRow
      <3> QED
        BY <2>2, <3>1 DEF Facts
    <2>3. CASE venue # "HYPERLIQUID"
      BY <2>1, <2>3 DEF AnswerTrue, BinanceTrue
    <2> QED
      BY <2>2, <2>3
  <1> QED
    BY <1>1, SpecTrue, PTL

\* Every position that was closed before the cursor has a row: of its closing
\* fill, or of its closing order.
THEOREM SpecClosesAreStored == Spec => []ClosesAreStored
  <1>1. IInv /\ TrueInv => ClosesAreStored
    BY DEF TrueInv, Missing, Covered, ClosesAreStored
  <1> QED
    BY <1>1, SpecTrue, PTL

\* A synchronisation replaces a complete row by one that knows less only when
\* its window begins after the fill that opened the cycle.
THEOREM SpecCompleteRowsStay == Spec => CompleteRowsStay
  <1> DEFINE Stays(r) ==
                \/ \E s \in stored' : s.id = r.id /\ s.complete /\ s.closed >= r.closed
                \/ /\ pc["sync"] = "read" /\ pc'["sync"] = "idle"
                   /\ OpenedBy(r.id) <= answer["sync"].from
  <1>1. ASSUME IInv, TrueInv, [Next]_vars, venue = "HYPERLIQUID", NEW r \in stored, r.complete
        PROVE  Stays(r)
    <2>1. /\ r.closed \in Nat /\ r.id \in 1 .. Len(book) /\ IsTrue(r)
          /\ pc["script"] = "idle" /\ "sync" \in Workers /\ "script" \in Workers
      BY <1>1, Bounds DEF TrueInv, RowOK, Row, Workers
    <2>2. CASE r \in stored'
      BY <1>1, <2>1, <2>2
    <2>3. CASE CommitSync
      <3> SUFFICES ASSUME NEW a, a = answer["sync"], NEW i, i = r.id PROVE Stays(r)
        OBVIOUS
      <3>1. /\ stored' = Upserted(stored, a.rows) /\ pc["sync"] = "read" /\ pc'["sync"] = "idle"
            /\ AnswerTrue(a)
        BY <1>1, <2>1, <2>3, Bounds DEF CommitSync, Done, TrueInv
      <3>2. CASE \A item \in a.rows : item.id # i
        BY <2>2, <3>1, <3>2 DEF Upserted
      <3>3. ASSUME NEW item \in a.rows, item.id = i, ~(OpenedBy(i) <= a.from) PROVE Stays(r)
        <4>1. i \in a.from + 1 .. a.to
          <5>1. AnswerOK(a) /\ a.from \in Nat /\ a.to \in Nat
            BY <1>1, <2>1, Bounds
          <5>2. RowOK(item, a.to) /\ item.id > a.from
            BY <3>3, <5>1 DEF AnswerOK
          <5> QED
            BY <3>3, <5>1, <5>2 DEF RowOK
        <4>2. Closes(i) /\ r.closed = Closed(i)
          BY <1>1, <2>1 DEF IsTrue
        <4>3. PICK s \in a.rows : s.id = i /\ s.complete
          BY <1>1, <3>1, <3>3, <4>1, <4>2 DEF AnswerTrue, HyperliquidTrue
        <4>4. s.closed = Closed(i)
          BY <1>1, <3>1, <4>3 DEF AnswerTrue, HyperliquidTrue, IsTrue
        <4>5. s \in stored' /\ s.closed >= r.closed
          BY <2>1, <3>1, <4>2, <4>4 DEF Upserted
        <4> QED
          BY <4>3, <4>5
      <3>4. CASE OpenedBy(i) <= a.from
        BY <3>1, <3>4
      <3> QED
        BY <3>2, <3>3, <3>4
    <2>4. ASSUME NEW k \in Keys, NEW delta \in Deltas,
         NEW order \in 1 .. MaxFills, NEW trade \in 1 .. MaxFills,
                 Fill(k, delta, order, trade)
          PROVE  Stays(r)
      BY <2>2, <2>4 DEF Fill
    <2>5. ASSUME NEW w \in Workers, Read(w) \/ GiveUp(w) PROVE Stays(r)
      BY <2>2, <2>5 DEF Read, GiveUp
    <2>6. ~CommitRebuild /\ ~CommitCleanup
      BY <2>1 DEF CommitRebuild, CommitCleanup
    <2>7. CASE UNCHANGED vars
      BY <2>2, <2>7 DEF vars
    <2> HIDE DEF Stays
    <2> QED
      BY <1>1, <2>3, <2>4, <2>5, <2>6, <2>7 DEF Next
  <1>2. IInv /\ TrueInv /\ [Next]_vars =>
           [venue = "HYPERLIQUID" => \A r \in stored : r.complete => Stays(r)]_vars
    BY <1>1
  <1> QED
    BY <1>2, SpecTrue, PTL DEF CompleteRowsStay, Spec
=============================================================================
