--------------------------- MODULE ReadModelsMC ---------------------------
(* Values of the constants of ReadModels for TLC. *)
EXTENDS ReadModels, TLC

CONSTANTS boot, round, daily, manual, w1, w2

\* the server's jobs: startup, the scheduled round of syncs, the daily
\* calibration, and POST /sync/refresh
KindOfJob == boot :> "startup" @@ round :> "sync" @@ daily :> "calibration"
             @@ manual :> "sync"
KindOf == [j \in Jobs |-> KindOfJob[j]]

\* w1 writes for the scheduled round, w2 in a script
RoundAndScript == [w \in Writers |-> IF w = w1 THEN round ELSE Script]
OnlyRound      == [w \in Writers |-> round]
============================================================================
