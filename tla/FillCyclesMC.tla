---------------------------- MODULE FillCyclesMC ----------------------------
(***************************************************************************)
(* FillCycles for TLC: the three ways positions are rebuilt from fills.    *)
(***************************************************************************)
EXTENDS FillCycles

MCVenues == {"ONE_WAY", "HEDGE", "HYPERLIQUID"}

\* in one-way mode most properties assume a history that begins flat
MCHeld == [v \in MCVenues |-> IF v = "ONE_WAY" THEN {0} ELSE {0, 1}]
=============================================================================
