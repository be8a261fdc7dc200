------------------------ MODULE MirrorLedger_proofs ------------------------
(***************************************************************************)
(* What a reader of the mirror may rely on follows from its promises.      *)
(***************************************************************************)
EXTENDS MirrorLedger, TLAPS

\* The mirror shows only what the exchange has listed, and everything that no
\* later request is bound to return.
THEOREM SpecFaithful == Spec => []Faithful
  <1>1. Init => Faithful
    BY DEF Init, Faithful
  <1>2. Faithful /\ [Next]_vars => Faithful'
    <2> SUFFICES ASSUME Faithful, [Next]_vars PROVE Faithful'
      OBVIOUS
    <2>1. ASSUME NEW f \in Facts, Happen(f) \/ List(f) PROVE Faithful'
      BY <2>1 DEF Happen, List, Faithful
    <2>2. ASSUME NEW w \in Writers, Begin(w) PROVE Faithful'
      BY <2>2 DEF Begin, Faithful
    <2>3. ASSUME NEW w \in Writers, Store(w) PROVE Faithful'
      BY <2>3 DEF Store, Faithful
    <2>4. CASE Abandon \/ Delete \/ UNCHANGED vars
      BY <2>4 DEF Abandon, Delete, vars, Faithful
    <2> QED
      BY <2>1, <2>2, <2>3, <2>4 DEF Next
  <1> QED
    BY <1>1, <1>2, PTL DEF Spec
=============================================================================
