--------------------------- MODULE AccountSyncMC ---------------------------
(***************************************************************************)
(* Values of the constants of AccountSync for TLC.                         *)
(***************************************************************************)
EXTENDS AccountSync, TLC

CONSTANTS s1, s2, b1, server, script, k1, c1, h1

\* s1 and s2 are sessions of the server unless a run says otherwise
MCServerOnly == [w \in Workers |-> server]
MCScripts == [w \in Workers |-> IF w = s1 THEN server ELSE script]

MCKeyOf == [f \in ClosedFacts |-> k1]

\* positions fall due most often, as with the 15, 60, 60 and 300 seconds of
\* config.py; 9 keeps a stream out of the way after its first sync
MCPositionsFirst == [positions |-> 1, closed_positions |-> 2,
                     balance |-> 9, history |-> 2]
MCOften == [positions |-> 1, closed_positions |-> 1,
            balance |-> 9, history |-> 2]
MCHistory == [positions |-> 9, closed_positions |-> 9,
              balance |-> 9, history |-> 1]

SessionSymmetry == Permutations({s1, s2})
=============================================================================
