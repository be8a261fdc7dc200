------------------------- MODULE ClosedPositionsMC -------------------------
(***************************************************************************)
(* Values of the constants of ClosedPositions for TLC.                     *)
(***************************************************************************)
EXTENDS ClosedPositions, TLC

CONSTANTS s1, x1, i1, i2, i3

\* OKX uses one posId again for every cycle
MCOnePosition == [c \in Cycles |-> 1]

IdSymmetry == Permutations({i1, i2, i3})
=============================================================================
