---------------------------- MODULE MirrorLedger ----------------------------
(***************************************************************************)
(* What the mirror of one exchange account promises, without a word on     *)
(* sessions, locks, rows and cursors: records happen at the exchange, are  *)
(* listed by its history endpoints some time later, and are stored by      *)
(* writers. A writer begins while the account exists and takes effect      *)
(* once, as a whole, or not at all. A record that the mirror has passed,   *)
(* and will not look for again, is stored; a stored record stays.          *)
(***************************************************************************)
CONSTANTS
    Facts,    \* records of the exchange
    Writers   \* whoever may write rows of the account

VARIABLES
    happened, \* records that exist at the exchange
    listed,   \* those its history endpoints return
    stored,   \* those the mirror has a row of
    passed,   \* those no later request is bound to return
    writing,  \* the writers under way
    deleted   \* the account was deleted

vars == <<happened, listed, stored, passed, writing, deleted>>

Init ==
    /\ happened = {} /\ listed = {} /\ stored = {} /\ passed = {}
    /\ writing = {}
    /\ deleted = FALSE

Happen(f) ==
    /\ f \notin happened
    /\ happened' = happened \cup {f}
    /\ UNCHANGED <<listed, stored, passed, writing, deleted>>

List(f) ==
    /\ f \in happened \ listed
    /\ listed' = listed \cup {f}
    /\ UNCHANGED <<happened, stored, passed, writing, deleted>>

Begin(w) ==
    /\ ~deleted
    /\ w \notin writing
    /\ writing' = writing \cup {w}
    /\ UNCHANGED <<happened, listed, stored, passed, deleted>>

\* a writer that saw an older state may take back what has been passed
Store(w) ==
    /\ w \in writing
    /\ stored \subseteq stored' /\ stored' \subseteq stored \cup listed
    /\ passed' \subseteq stored'
    /\ writing' = writing \ {w}
    /\ UNCHANGED <<happened, listed, deleted>>

\* errors and crashes; a crash ends every writer of a process
Abandon ==
    /\ writing' \subseteq writing
    /\ UNCHANGED <<happened, listed, stored, passed, deleted>>

Delete ==
    /\ ~deleted
    /\ deleted' = TRUE
    /\ UNCHANGED <<happened, listed, stored, passed, writing>>

Next ==
    \/ \E f \in Facts : Happen(f) \/ List(f)
    \/ \E w \in Writers : Begin(w) \/ Store(w)
    \/ Abandon
    \/ Delete

Spec == Init /\ [][Next]_vars

\* What follows for a reader of the mirror: it shows only what the exchange has
\* listed, and all that it has passed.
Faithful == passed \subseteq stored /\ stored \subseteq listed /\ listed \subseteq happened
=============================================================================
