------------------------------ MODULE ServerMC ------------------------------
(***************************************************************************)
(* Server for TLC: one configured name and one that is only added by       *)
(* request.                                                                *)
(***************************************************************************)
EXTENDS Server

CONSTANTS n1, n2, r1

MCNames    == {n1, n2}
MCEnabled  == {n1}
MCRequests == {r1}
MCRecorded == {{0, 1}, {1, 2}}
=============================================================================
