--------------------------- MODULE TranslationMC ---------------------------
(***************************************************************************)
(* Small instances of Translation.                                          *)
(***************************************************************************)
EXTENDS Translation, TLC
CONSTANTS a1, a2, s1, s2, t1, t2, w1
\* One account holds both outcomes, another the older one only, under its event's title.
MCShows == [s \in Syncs |-> [a \in Assets |->
              IF a = a1 THEN {IF s = s1 THEN t1 ELSE t2}
              ELSE IF s = s1 THEN Texts ELSE {}]]
MCCreatedAt == [a \in Assets |-> IF a = a1 THEN 1 ELSE 2]
====
