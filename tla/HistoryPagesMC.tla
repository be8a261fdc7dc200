--------------------------- MODULE HistoryPagesMC ---------------------------
(***************************************************************************)
(* HistoryPages for TLC: every endpoint, and records of every content.     *)
(***************************************************************************)
EXTENDS HistoryPages

MCEndpoints == Bundles \cup Sliced \cup ByTime \cup Cumulative

C(amount, fee, stable) ==
    [amount |-> amount, fee |-> fee, stable |-> stable, usdc |-> FALSE]

\* all alike, or one or two that differ from the others
Alike(c)     == [r \in Records |-> c]
Odd(c)       == [r \in Records |-> IF r = 2 THEN c ELSE C("known", FALSE, TRUE)]
MCContents   == {Alike(C("known", fee, TRUE)) : fee \in BOOLEAN} \cup
                {Odd(C(amount, fee, stable)) : amount \in {"unknown", "untold"},
                                               fee \in BOOLEAN, stable \in BOOLEAN} \cup
                {Odd(C("converted", fee, TRUE)) : fee \in BOOLEAN} \cup
                {Odd([C("known", TRUE, TRUE) EXCEPT !.usdc = TRUE])}
=============================================================================
