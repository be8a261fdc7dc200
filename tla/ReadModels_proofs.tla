------------------------- MODULE ReadModels_proofs -------------------------
(***************************************************************************)
(* Theorems about ReadModels for every set of rows, days, writers and      *)
(* jobs: its types, the order of refreshes, the totals of incremental      *)
(* refreshes and the age of cached answers.                                *)
(***************************************************************************)
EXTENDS ReadModels, TLAPS

\* The actions, one by one.
Actions ==
    \/ Tick
    \/ \E w \in Writers, r \in Rows, day \in Days \cup {NoDay} : Flush(w, r, day)
    \/ \E w \in Writers : CommitWrite(w)
    \/ \E w \in Writers : Rollback(w)
    \/ \E j \in Jobs : Begin(j)
    \/ \E j \in Jobs : ReadPayload(j)
    \/ \E j \in Jobs : ReadAffected(j)
    \/ \E j \in Jobs : Rebuild(j)
    \/ \E j \in Jobs : CommitRefresh(j)
    \/ \E j \in Jobs : Lock(j)
    \/ \E j \in Jobs : FailRefresh(j)
    \/ Crash

\* Next is the disjunction of the actions.
LEMMA NextActions == Next => Actions
BY Zenon DEF Next, Actions, Work


(***************************************************************************)
(* Types.                                                                  *)
(***************************************************************************)
\* Every variable starts in its type.
LEMMA TypeInit == ASSUME Init PROVE TypeOK
<1>1. 0 \in Time /\ 1 \in Time
  BY ReadModelsConstants DEF Time
<1>2. Empty \in [Days -> SUBSET Versions]
  BY DEF Empty
<1>. QED
  BY <1>1, <1>2 DEF Init, TypeOK

\* Resetting a job keeps the types of the job variables.
LEMMA TypeReset ==
    ASSUME TypeOK, NEW j \in Jobs, Reset(j)
    PROVE  /\ pc' \in [Jobs -> {"idle", "pnl", "locked", "read", "affected", "rebuilt"}]
           /\ calc' \in [Jobs -> Time] /\ since' \in [Jobs -> Time]
           /\ payload' \in [Jobs -> SUBSET Versions]
           /\ affected' \in [Jobs -> SUBSET Days]
           /\ totals' \in [Jobs -> [Days -> SUBSET Versions]]
<1>1. 0 \in Time
  BY ReadModelsConstants DEF Time
<1>2. Empty \in [Days -> SUBSET Versions]
  BY DEF Empty
<1>. QED
  BY <1>1, <1>2 DEF TypeOK, Reset

\* A version of a row is a version.
LEMMA VersionType ==
    ASSUME TypeOK, NEW r \in Rows
    PROVE  Version(r) \in Versions
BY DEF TypeOK, Version, Versions

\* A step keeps the types.
LEMMA TypeStep == ASSUME TypeOK, [Next]_vars PROVE TypeOK'
<1>1. CASE Tick
  BY <1>1, ReadModelsConstants DEF Tick, TypeOK, Time, dbVars, jobVars
<1>2. ASSUME NEW w \in Writers, NEW r \in Rows, NEW day \in Days \cup {NoDay}, Flush(w, r, day)
      PROVE  TypeOK'
  BY <1>2 DEF Flush, TypeOK, Time, dbVars, jobVars
<1>3. ASSUME NEW w \in Writers, CommitWrite(w) PROVE TypeOK'
  <2>1. write[w] \in [row : Rows, day : Days \cup {NoDay}, updatedAt : Time]
    BY <1>3 DEF CommitWrite, Writing, TypeOK
  <2>2. facts' \in [Rows -> [day : Days \cup {NoDay}, updatedAt : Time, committedAt : Time]]
    BY <1>3, <2>1 DEF CommitWrite, TypeOK
  <2>3. overtaken' \subseteq Rows
    BY <1>3, <2>1 DEF CommitWrite, TypeOK
  <2>4. write' \in [Writers -> {NoWrite} \cup [row : Rows, day : Days \cup {NoDay}, updatedAt : Time]]
    BY <1>3 DEF CommitWrite, TypeOK
  <2>. QED
    BY <1>3, <2>2, <2>3, <2>4 DEF CommitWrite, TypeOK, jobVars
<1>4. ASSUME NEW w \in Writers, Rollback(w) PROVE TypeOK'
  BY <1>4 DEF Rollback, TypeOK, dbVars, jobVars
<1>5. ASSUME NEW j \in Jobs, Begin(j) PROVE TypeOK'
  BY <1>5 DEF Begin, TypeOK, dbVars
<1>7. ASSUME NEW j \in Jobs, ReadPayload(j) PROVE TypeOK'
  <2>1. {Version(r) : r \in Stored} \in SUBSET Versions
    BY VersionType DEF Stored
  <2>. QED
    BY <1>7, <2>1 DEF ReadPayload, TypeOK, dbVars
<1>8. ASSUME NEW j \in Jobs, ReadAffected(j) PROVE TypeOK'
  <2>1. ChangedDays(since[j]) \in SUBSET Days
    BY DEF ChangedDays, Stored, TypeOK
  <2>2. affected' \in [Jobs -> SUBSET Days]
    <3> DEFINE days == IF Full(j) \/ summaries = Empty THEN Days
                       ELSE IF since[j] = 0 THEN {} ELSE ChangedDays(since[j])
    <3>1. days \in SUBSET Days
      BY <2>1
    <3>2. affected' = [affected EXCEPT ![j] = days]
      BY <1>8 DEF ReadAffected
    <3>. QED
      BY <3>1, <3>2 DEF TypeOK
  <2>. QED
    BY <1>8, <2>2 DEF ReadAffected, TypeOK, dbVars
<1>9. ASSUME NEW j \in Jobs, Rebuild(j) PROVE TypeOK'
  <2>1. \A d \in Days : Sum(d) \in SUBSET Versions
    BY VersionType DEF Sum, Stored
  <2>2. [d \in Days |-> IF d \in affected[j] THEN Sum(d) ELSE summaries[d]]
          \in [Days -> SUBSET Versions]
    BY <2>1 DEF TypeOK
  <2>. QED
    BY <1>9, <2>2 DEF Rebuild, TypeOK, dbVars
<1>10. ASSUME NEW j \in Jobs, CommitRefresh(j) PROVE TypeOK'
  <2>1. /\ model' \in [calculatedAt : Time, payload : SUBSET Versions]
        /\ summaries' \in [Days -> SUBSET Versions]
        /\ serving' \in BOOLEAN
    BY <1>10 DEF CommitRefresh, TypeOK
  <2>. QED
    BY <1>10, <2>1, TypeReset DEF CommitRefresh, TypeOK
<1>11. ASSUME NEW j \in Jobs, Lock(j) PROVE TypeOK'
  BY <1>11 DEF Lock, TypeOK, dbVars
<1>12. ASSUME NEW j \in Jobs, FailRefresh(j) PROVE TypeOK'
  BY <1>12, TypeReset DEF FailRefresh, TypeOK, dbVars
<1>13. CASE Crash
  <2>1. 0 \in Time /\ Empty \in [Days -> SUBSET Versions]
    BY ReadModelsConstants DEF Time, Empty
  <2>. QED
    BY <1>13, <2>1 DEF Crash, TypeOK, dbVars
<1>14. CASE UNCHANGED vars
  BY <1>14 DEF vars, dbVars, jobVars, TypeOK
<1>. QED
  BY <1>1, <1>2, <1>3, <1>4, <1>5, <1>7, <1>8, <1>9, <1>10, <1>11, <1>12,
     <1>13, <1>14, NextActions DEF Actions

\* Type correctness, for every value of the constants.
THEOREM SpecTypeOK == Spec => []TypeOK
<1>1. Init => TypeOK
  BY TypeInit
<1>2. TypeOK /\ [Next]_vars => TypeOK'
  BY TypeStep
<1>. QED
  BY <1>1, <1>2, PTL DEF Spec

(***************************************************************************)
(* The order of refreshes.                                                 *)
(***************************************************************************)
\* Only one refresh holds the row lock, it was calculated after the committed
\* one, and nothing is calculated in the future.
LockInv ==
    /\ now >= 1 /\ model.calculatedAt <= now
    /\ \A i, j \in Holding : i = j
    /\ \A j \in Holding : /\ since[j] = model.calculatedAt
                          /\ model.calculatedAt <= calc[j]
                          /\ 1 <= calc[j] /\ calc[j] <= now

\* What LockInv is about is untouched.
LEMMA LockFrame ==
    ASSUME LockInv, UNCHANGED <<now, model, since, calc>>, Holding' \subseteq Holding
    PROVE  LockInv'
BY DEF LockInv

\* Jobs that go idle leave the others as they are.
LEMMA LockReset ==
    ASSUME TypeOK, LockInv, NEW j \in Jobs, Reset(j), UNCHANGED <<now, model>>
    PROVE  LockInv'
<1>1. \A i \in Holding' : i \in Holding /\ i # j
  BY DEF Reset, Holding, TypeOK
<1>2. \A i \in Holding' : since'[i] = since[i] /\ calc'[i] = calc[i]
  BY <1>1 DEF Reset, TypeOK, Holding
<1>. QED
  BY <1>1, <1>2 DEF LockInv

\* A step keeps LockInv.
LEMMA LockStep == ASSUME TypeOK, LockInv, [Next]_vars PROVE LockInv'
<1>0. now \in Nat /\ model.calculatedAt \in Nat /\ \A j \in Jobs : calc[j] \in Nat
  BY ReadModelsConstants DEF TypeOK, Time
<1>1. CASE Tick
  <2>1. Holding' = Holding
    BY <1>1 DEF Tick, jobVars, Holding
  <2>. QED
    BY <1>0, <1>1, <2>1 DEF Tick, LockInv, dbVars, jobVars, Holding
<1>2. ASSUME NEW w \in Writers, NEW r \in Rows, NEW day \in Days \cup {NoDay}, Flush(w, r, day)
      PROVE  LockInv'
  BY <1>2, LockFrame DEF Flush, dbVars, jobVars, Holding
<1>3. ASSUME NEW w \in Writers, CommitWrite(w) PROVE LockInv'
  BY <1>3, LockFrame DEF CommitWrite, jobVars, Holding
<1>4. ASSUME NEW w \in Writers, Rollback(w) PROVE LockInv'
  BY <1>4, LockFrame DEF Rollback, dbVars, jobVars, Holding
<1>5. ASSUME NEW j \in Jobs, Begin(j) PROVE LockInv'
  BY <1>5, LockFrame DEF Begin, dbVars, Holding, TypeOK
<1>7. ASSUME NEW j \in Jobs, ReadPayload(j) PROVE LockInv'
  BY <1>7, LockFrame DEF ReadPayload, dbVars, Holding, TypeOK
<1>8. ASSUME NEW j \in Jobs, ReadAffected(j) PROVE LockInv'
  BY <1>8, LockFrame DEF ReadAffected, dbVars, Holding, TypeOK
<1>9. ASSUME NEW j \in Jobs, Rebuild(j) PROVE LockInv'
  BY <1>9, LockFrame DEF Rebuild, dbVars, Holding, TypeOK
<1>10. ASSUME NEW j \in Jobs, CommitRefresh(j) PROVE LockInv'
  <2>1. j \in Holding
    BY <1>10 DEF CommitRefresh, Holding
  <2>2. Holding' = {}
    BY <1>10, <2>1 DEF CommitRefresh, Reset, Holding, LockInv, TypeOK
  <2>3. model'.calculatedAt = calc[j] /\ now' = now
    BY <1>10 DEF CommitRefresh
  <2>. QED
    BY <2>1, <2>2, <2>3 DEF LockInv
<1>11. ASSUME NEW j \in Jobs, Lock(j) PROVE LockInv'
  <2>1. Holding' = {j}
    BY <1>11 DEF Lock, Holding, TypeOK
  <2>2. since'[j] = model.calculatedAt /\ calc'[j] = now /\ UNCHANGED <<now, model>>
    BY <1>11 DEF Lock, TypeOK, dbVars
  <2>. QED
    BY <1>0, <2>1, <2>2 DEF LockInv
<1>12. ASSUME NEW j \in Jobs, FailRefresh(j) PROVE LockInv'
  BY <1>12, LockReset DEF FailRefresh, dbVars
<1>13. CASE Crash
  <2>1. Holding' = {} /\ UNCHANGED <<now, model>>
    BY <1>13 DEF Crash, Holding, dbVars
  <2>. QED
    BY <2>1 DEF LockInv
<1>14. CASE UNCHANGED vars
  BY <1>14, LockFrame DEF vars, dbVars, jobVars, Holding
<1>. QED
  BY <1>1, <1>2, <1>3, <1>4, <1>5, <1>7, <1>8, <1>9, <1>10, <1>11, <1>12,
     <1>13, <1>14, NextActions DEF Actions

\* LockInv holds of every state.
LEMMA SpecLockInv == Spec => []LockInv
<1>1. Init => LockInv
  BY DEF Init, LockInv, Holding
<1>2. TypeOK /\ LockInv /\ [Next]_vars => LockInv'
  BY LockStep
<1>. QED
  BY <1>1, <1>2, SpecTypeOK, PTL DEF Spec

\* The committed models change in one action only.
LEMMA ModelStep ==
    ASSUME [Next]_vars
    PROVE  \/ UNCHANGED model
           \/ \E j \in Jobs : CommitRefresh(j)
<1>1. \A j \in Jobs : \/ Begin(j) \/ ReadPayload(j)
                      \/ ReadAffected(j) \/ Rebuild(j) \/ Lock(j) \/ FailRefresh(j)
                      => UNCHANGED model
  BY DEF Begin, ReadPayload, ReadAffected, Rebuild, Lock,
         FailRefresh, dbVars
<1>2. \A w \in Writers : \/ CommitWrite(w) \/ Rollback(w)
                         \/ \E r \in Rows, day \in Days \cup {NoDay} : Flush(w, r, day)
                         => UNCHANGED model
  BY DEF CommitWrite, Rollback, Flush, dbVars
<1>3. Tick \/ Crash \/ UNCHANGED vars => UNCHANGED model
  BY DEF Tick, Crash, vars, dbVars
<1>. QED
  BY <1>1, <1>2, <1>3, NextActions DEF Actions

\* However many jobs refresh at once, a commit never puts an earlier
\* calculation over a later one.
THEOREM SpecModelsNeverGoBack == Spec => ModelsNeverGoBack
<1>1. TypeOK /\ LockInv /\ [Next]_vars => model'.calculatedAt >= model.calculatedAt
  <2> SUFFICES ASSUME TypeOK, LockInv, [Next]_vars
               PROVE  model'.calculatedAt >= model.calculatedAt
    OBVIOUS
  <2>0. model.calculatedAt \in Nat /\ \A j \in Jobs : calc[j] \in Nat
    BY ReadModelsConstants DEF TypeOK, Time
  <2>1. CASE UNCHANGED model
    BY <2>0, <2>1
  <2>2. ASSUME NEW j \in Jobs, CommitRefresh(j)
        PROVE  model'.calculatedAt >= model.calculatedAt
    BY <2>0, <2>2 DEF CommitRefresh, LockInv, Holding
  <2>. QED
    BY <2>1, <2>2, ModelStep
<1>. QED
  BY <1>1, SpecTypeOK, SpecLockInv, PTL DEF Spec, ModelsNeverGoBack

(***************************************************************************)
(* The daily totals.                                                       *)
(***************************************************************************)
\* The rows a refresh calculated at `limit' answers for.
Due(limit) == {r \in Stored \ overtaken : facts[r].updatedAt < limit}

\* What the committed totals hold, and what a refresh that has read the changed
\* days, or has summed them up, will commit.
CountInv ==
    /\ model.calculatedAt = 0 => summaries = Empty
    /\ \A r \in Due(model.calculatedAt) : Counted(r)
    /\ \A j \in Jobs : pc[j] = "affected" =>
         \A r \in Due(calc[j]) : facts[r].day \in affected[j] \/ Counted(r)
    /\ \A j \in Jobs : pc[j] = "rebuilt" =>
         \A r \in Due(calc[j]) : Version(r) \in totals[j][facts[r].day]

\* The facts and the totals are untouched and no refresh gets further.
LEMMA CountFrame ==
    ASSUME CountInv, UNCHANGED <<facts, overtaken, model, summaries>>,
           \A j \in Jobs : pc'[j] \in {"affected", "rebuilt"} =>
               /\ pc'[j] = pc[j] /\ calc'[j] = calc[j]
               /\ affected'[j] = affected[j] /\ totals'[j] = totals[j]
    PROVE  CountInv'
BY DEF CountInv, Due, Stored, Counted, Version

\* A stored row has a day.
LEMMA StoredDay == ASSUME TypeOK, NEW r \in Stored PROVE r \in Rows /\ facts[r].day \in Days
BY DEF TypeOK, Stored

\* The commit of a writer is overtaken or concerns no refresh but later ones.
LEMMA CountCommitWrite ==
    ASSUME TypeOK, CountInv, NEW w \in Writers, CommitWrite(w)
    PROVE  CountInv'
<1> DEFINE q == write[w].row
           late == Overtakes(write[w].updatedAt)
<1>1. q \in Rows
  BY DEF CommitWrite, Writing, TypeOK
<1>2. /\ facts'[q].updatedAt = write[w].updatedAt
      /\ \A r \in Rows \ {q} : facts'[r] = facts[r]
  BY <1>1 DEF CommitWrite, TypeOK
<1>3. /\ late => q \in overtaken'
      /\ \A r \in Rows \ {q} : r \in overtaken' <=> r \in overtaken
  BY DEF CommitWrite
<1>4. \A r \in Rows \ {q} :
        /\ Version(r)' = Version(r)
        /\ Counted(r)' = Counted(r)
        /\ r \in Stored' <=> r \in Stored
  BY <1>2 DEF Version, Counted, Stored, CommitWrite
<1>5. ASSUME NEW limit \in Nat, NEW r \in Rows \ {q}, r \in Stored', r \notin overtaken',
             facts'[r].updatedAt < limit
      PROVE  r \in Due(limit)
  BY <1>2, <1>3, <1>4, <1>5 DEF Due
<1>6. UNCHANGED <<model, summaries, pc, calc, affected, totals>>
  BY DEF CommitWrite, jobVars
<1>7. model.calculatedAt \in Nat /\ \A j \in Jobs : calc[j] \in Nat
  BY ReadModelsConstants DEF TypeOK, Time
<1>8. /\ q \notin Due(model.calculatedAt)'
      /\ \A j \in Jobs : pc[j] \in {"affected", "rebuilt"} => q \notin Due(calc[j])'
  <2>1. write[w].updatedAt \in Nat
    BY ReadModelsConstants DEF CommitWrite, Writing, TypeOK, Time
  <2>. QED
    BY <1>2, <1>3, <1>6, <1>7, <2>1 DEF Due, Overtakes
<1>9. Due(model.calculatedAt)' \subseteq Due(model.calculatedAt) \ {q}
  BY <1>5, <1>6, <1>7, <1>8 DEF Due, Stored
<1>10. \A j \in Jobs : pc[j] \in {"affected", "rebuilt"} =>
          Due(calc[j])' \subseteq Due(calc[j]) \ {q}
  BY <1>5, <1>6, <1>7, <1>8 DEF Due, Stored
<1>11. \A limit : Due(limit) \subseteq Rows
  BY DEF Due, Stored
<1>12. (\A r \in Due(model.calculatedAt) : Counted(r))'
  BY <1>4, <1>9, <1>11 DEF CountInv
<1>13. (\A j \in Jobs : pc[j] = "affected" =>
          \A r \in Due(calc[j]) : facts[r].day \in affected[j] \/ Counted(r))'
  BY <1>2, <1>4, <1>6, <1>10, <1>11 DEF CountInv
<1>14. (\A j \in Jobs : pc[j] = "rebuilt" =>
          \A r \in Due(calc[j]) : Version(r) \in totals[j][facts[r].day])'
  BY <1>2, <1>4, <1>6, <1>10, <1>11 DEF CountInv
<1>. QED
  BY <1>6, <1>12, <1>13, <1>14 DEF CountInv

\* The days an incremental refresh leaves alone were counted by an earlier one.
LEMMA CountReadAffected ==
    ASSUME TypeOK, LockInv, CountInv, NEW j \in Jobs, ReadAffected(j)
    PROVE  CountInv'
<1>1. /\ UNCHANGED <<facts, overtaken, model, summaries, calc, totals>>
      /\ pc'[j] = "affected"
      /\ \A i \in Jobs \ {j} : pc'[i] = pc[i] /\ affected'[i] = affected[i]
  BY DEF ReadAffected, dbVars, TypeOK
<1>2. since[j] = model.calculatedAt
  BY DEF ReadAffected, LockInv, Holding
<1>3. ASSUME NEW r \in Due(calc[j]) PROVE facts[r].day \in affected'[j] \/ Counted(r)
  <2>1. r \in Rows /\ facts[r].day \in Days /\ r \in Stored
    BY StoredDay DEF Due
  <2>2. CASE Full(j) \/ summaries = Empty
    BY <2>1, <2>2 DEF ReadAffected, TypeOK
  <2>3. CASE ~(Full(j) \/ summaries = Empty)
    <3>1. since[j] # 0
      BY <1>2, <2>3 DEF CountInv
    <3>2. affected'[j] = ChangedDays(since[j])
      BY <2>3, <3>1 DEF ReadAffected, TypeOK
    <3>3. CASE facts[r].updatedAt >= since[j]
      BY <2>1, <3>2, <3>3 DEF ChangedDays
    <3>4. CASE ~(facts[r].updatedAt >= since[j])
      <4>1. facts[r].updatedAt < model.calculatedAt
        BY <1>2, <2>1, <3>4, ReadModelsConstants DEF TypeOK, Time
      <4>. QED
        BY <4>1 DEF Due, CountInv
    <3>. QED
      BY <3>3, <3>4
  <2>. QED
    BY <2>2, <2>3
<1>4. \A limit : Due(limit)' = Due(limit)
  BY <1>1 DEF Due, Stored
<1>5. \A r \in Rows : Counted(r)' = Counted(r) /\ Version(r)' = Version(r)
  BY <1>1 DEF Counted, Version
<1>6. (\A i \in Jobs : pc[i] = "affected" =>
         \A r \in Due(calc[i]) : facts[r].day \in affected[i] \/ Counted(r))'
  <2> SUFFICES ASSUME NEW i \in Jobs, pc'[i] = "affected", NEW r \in Due(calc[i])
               PROVE  facts[r].day \in affected'[i] \/ Counted(r)
    BY <1>1 DEF Due, Stored, Counted, Version
  <2>. QED
    BY <1>1, <1>3 DEF CountInv
<1>7. (\A i \in Jobs : pc[i] = "rebuilt" =>
         \A r \in Due(calc[i]) : Version(r) \in totals[i][facts[r].day])'
  BY <1>1, <1>4 DEF CountInv, Version
<1>8. (\A r \in Due(model.calculatedAt) : Counted(r))'
  BY <1>1, <1>4 DEF CountInv, Counted, Version
<1>. QED
  BY <1>1, <1>6, <1>7, <1>8 DEF CountInv

\* The rebuilt days are those of the fact tables, the others are carried over.
LEMMA CountRebuild ==
    ASSUME TypeOK, CountInv, NEW j \in Jobs, Rebuild(j)
    PROVE  CountInv'
<1>1. /\ UNCHANGED <<facts, overtaken, model, summaries, calc, affected>>
      /\ pc'[j] = "rebuilt"
      /\ \A i \in Jobs \ {j} : pc'[i] = pc[i] /\ totals'[i] = totals[i]
  BY DEF Rebuild, dbVars, TypeOK
<1>2. ASSUME NEW r \in Due(calc[j]) PROVE Version(r) \in totals'[j][facts[r].day]
  <2>1. r \in Rows /\ facts[r].day \in Days /\ r \in Stored
    BY StoredDay DEF Due
  <2>2. totals'[j][facts[r].day] = IF facts[r].day \in affected[j]
                                   THEN Sum(facts[r].day) ELSE summaries[facts[r].day]
    BY <2>1 DEF Rebuild, TypeOK
  <2>3. Version(r) \in Sum(facts[r].day)
    BY <2>1 DEF Sum
  <2>4. facts[r].day \in affected[j] \/ Version(r) \in summaries[facts[r].day]
    BY DEF Rebuild, CountInv, Counted
  <2>. QED
    BY <2>2, <2>3, <2>4
<1>3. \A i \in Jobs : pc'[i] = "rebuilt" =>
         \A r \in Due(calc[i]) : Version(r) \in totals'[i][facts[r].day]
  BY <1>1, <1>2 DEF CountInv
<1>. QED
  BY <1>1, <1>3 DEF CountInv, Due, Stored, Counted, Version

\* What a refresh commits is what it has summed up, and nobody else is between.
LEMMA CountCommitRefresh ==
    ASSUME TypeOK, LockInv, CountInv, NEW j \in Jobs, CommitRefresh(j)
    PROVE  CountInv'
<1>1. /\ UNCHANGED <<facts, overtaken>>
      /\ model'.calculatedAt = calc[j] /\ summaries' = totals[j]
  BY DEF CommitRefresh
<1>2. j \in Holding
  BY DEF CommitRefresh, Holding
<1>3. \A i \in Jobs : pc'[i] \notin {"affected", "rebuilt"}
  BY <1>2 DEF CommitRefresh, Reset, Holding, LockInv, TypeOK
<1>4. \A r \in Due(calc[j]) : Version(r) \in totals[j][facts[r].day]
  BY DEF CommitRefresh, CountInv
<1>5. (\A r \in Due(model.calculatedAt) : Counted(r))'
  BY <1>1, <1>4 DEF Due, Stored, Counted, Version
<1>6. model'.calculatedAt # 0
  BY <1>1, <1>2 DEF LockInv, TypeOK, Time
<1>. QED
  BY <1>3, <1>5, <1>6 DEF CountInv

\* A step keeps CountInv.
LEMMA CountStep == ASSUME TypeOK, LockInv, CountInv, [Next]_vars PROVE CountInv'
<1>1. CASE Tick
  BY <1>1, CountFrame DEF Tick, dbVars, jobVars
<1>2. ASSUME NEW w \in Writers, NEW r \in Rows, NEW day \in Days \cup {NoDay}, Flush(w, r, day)
      PROVE  CountInv'
  BY <1>2, CountFrame DEF Flush, dbVars, jobVars
<1>3. ASSUME NEW w \in Writers, Rollback(w) PROVE CountInv'
  BY <1>3, CountFrame DEF Rollback, dbVars, jobVars
<1>4. ASSUME NEW j \in Jobs, Begin(j) PROVE CountInv'
  BY <1>4, CountFrame DEF Begin, dbVars, TypeOK
<1>6. ASSUME NEW j \in Jobs, ReadPayload(j) PROVE CountInv'
  BY <1>6, CountFrame DEF ReadPayload, dbVars, TypeOK
<1>7. ASSUME NEW j \in Jobs, Lock(j) PROVE CountInv'
  BY <1>7, CountFrame DEF Lock, dbVars, TypeOK
<1>8. ASSUME NEW j \in Jobs, FailRefresh(j) PROVE CountInv'
  BY <1>8, CountFrame DEF FailRefresh, Reset, dbVars, TypeOK
<1>9. CASE Crash
  BY <1>9, CountFrame DEF Crash, dbVars
<1>10. CASE UNCHANGED vars
  BY <1>10, CountFrame DEF vars, dbVars, jobVars
<1>. QED
  BY <1>1, <1>2, <1>3, <1>4, <1>6, <1>7, <1>8, <1>9, <1>10,
     CountCommitWrite, CountReadAffected, CountRebuild, CountCommitRefresh,
     NextActions DEF Actions

\* No interleaving of writers, incremental and full refreshes, failures and
\* crashes leaves a row out that was committed on time.
THEOREM SpecOnTimeRowsCounted == Spec => []OnTimeRowsCounted
<1>1. Init => CountInv
  BY DEF Init, CountInv, Due, Stored
<1>2. TypeOK /\ LockInv /\ CountInv /\ [Next]_vars => CountInv'
  BY CountStep
<1>3. CountInv => OnTimeRowsCounted
  BY DEF CountInv, Due, OnTimeRowsCounted
<1>. QED
  BY <1>1, <1>2, <1>3, SpecTypeOK, SpecLockInv, PTL DEF Spec

(***************************************************************************)
(* The age of a cached payload.                                            *)
(***************************************************************************)
\* A payload lacks no row committed before its calculated_at.
PayloadInv ==
    /\ \A r \in Stored : facts[r].committedAt < model.calculatedAt => Version(r) \in model.payload
    /\ \A j \in Jobs : pc[j] \in {"read", "affected", "rebuilt"} =>
         \A r \in Stored : facts[r].committedAt < calc[j] => Version(r) \in payload[j]

\* The facts and the models are untouched and no refresh reads its payload.
LEMMA PayloadFrame ==
    ASSUME PayloadInv, UNCHANGED <<facts, model>>,
           \A j \in Jobs : pc'[j] \in {"read", "affected", "rebuilt"} =>
               /\ pc[j] \in {"read", "affected", "rebuilt"}
               /\ calc'[j] = calc[j] /\ payload'[j] = payload[j]
    PROVE  PayloadInv'
BY DEF PayloadInv, Stored, Version

\* A row is committed after every calculated_at there is.
LEMMA PayloadCommitWrite ==
    ASSUME TypeOK, LockInv, PayloadInv, NEW w \in Writers, CommitWrite(w)
    PROVE  PayloadInv'
<1> DEFINE q == write[w].row
<1>1. q \in Rows
  BY DEF CommitWrite, Writing, TypeOK
<1>2. /\ facts'[q].committedAt = now
      /\ \A r \in Rows \ {q} : facts'[r] = facts[r]
  BY <1>1 DEF CommitWrite, TypeOK
<1>3. UNCHANGED <<model, pc, calc, payload>>
  BY DEF CommitWrite, jobVars
<1>4. /\ ~(now < model.calculatedAt)
      /\ \A j \in Jobs : pc[j] \in {"read", "affected", "rebuilt"} => ~(now < calc[j])
  BY ReadModelsConstants DEF LockInv, Holding, TypeOK, Time
<1>5. Stored' \subseteq Rows
  BY DEF Stored
<1>6. \A r \in Rows \ {q} : Version(r)' = Version(r) /\ (r \in Stored' => r \in Stored)
  BY <1>2 DEF Version, Stored
<1>7. (\A r \in Stored : facts[r].committedAt < model.calculatedAt => Version(r) \in model.payload)'
  BY <1>2, <1>3, <1>4, <1>5, <1>6 DEF PayloadInv
<1>8. (\A j \in Jobs : pc[j] \in {"read", "affected", "rebuilt"} =>
         \A r \in Stored : facts[r].committedAt < calc[j] => Version(r) \in payload[j])'
  BY <1>2, <1>3, <1>4, <1>5, <1>6 DEF PayloadInv
<1>. QED
  BY <1>7, <1>8 DEF PayloadInv

\* A step keeps PayloadInv.
LEMMA PayloadStep == ASSUME TypeOK, LockInv, PayloadInv, [Next]_vars PROVE PayloadInv'
<1>1. CASE Tick
  BY <1>1, PayloadFrame DEF Tick, dbVars, jobVars
<1>2. ASSUME NEW w \in Writers, NEW r \in Rows, NEW day \in Days \cup {NoDay}, Flush(w, r, day)
      PROVE  PayloadInv'
  BY <1>2, PayloadFrame DEF Flush, dbVars, jobVars
<1>3. ASSUME NEW w \in Writers, Rollback(w) PROVE PayloadInv'
  BY <1>3, PayloadFrame DEF Rollback, dbVars, jobVars
<1>4. ASSUME NEW j \in Jobs, Begin(j) PROVE PayloadInv'
  BY <1>4, PayloadFrame DEF Begin, dbVars, TypeOK
<1>6. ASSUME NEW j \in Jobs, ReadPayload(j) PROVE PayloadInv'
  <2>1. /\ UNCHANGED <<facts, model, calc>>
        /\ payload'[j] = {Version(r) : r \in Stored}
        /\ \A i \in Jobs \ {j} : pc'[i] = pc[i] /\ payload'[i] = payload[i]
    BY <1>6 DEF ReadPayload, dbVars, TypeOK
  <2>. QED
    BY <2>1 DEF PayloadInv, Stored, Version
<1>7. ASSUME NEW j \in Jobs, ReadAffected(j) PROVE PayloadInv'
  BY <1>7, PayloadFrame DEF ReadAffected, dbVars, TypeOK
<1>8. ASSUME NEW j \in Jobs, Rebuild(j) PROVE PayloadInv'
  BY <1>8, PayloadFrame DEF Rebuild, dbVars, TypeOK
<1>9. ASSUME NEW j \in Jobs, CommitRefresh(j) PROVE PayloadInv'
  <2>1. /\ UNCHANGED facts
        /\ model'.calculatedAt = calc[j] /\ model'.payload = payload[j]
    BY <1>9 DEF CommitRefresh
  <2>2. \A i \in Jobs : pc'[i] \notin {"read", "affected", "rebuilt"}
    BY <1>9 DEF CommitRefresh, Reset, Holding, LockInv, TypeOK
  <2>. QED
    BY <1>9, <2>1, <2>2 DEF CommitRefresh, PayloadInv, Stored, Version
<1>10. ASSUME NEW j \in Jobs, Lock(j) PROVE PayloadInv'
  BY <1>10, PayloadFrame DEF Lock, dbVars, TypeOK
<1>11. ASSUME NEW j \in Jobs, FailRefresh(j) PROVE PayloadInv'
  BY <1>11, PayloadFrame DEF FailRefresh, Reset, dbVars, TypeOK
<1>12. CASE Crash
  BY <1>12, PayloadFrame DEF Crash, dbVars
<1>13. CASE UNCHANGED vars
  BY <1>13, PayloadFrame DEF vars, dbVars, jobVars
<1>. QED
  BY <1>1, <1>2, <1>3, <1>4, <1>6, <1>7, <1>8, <1>9, <1>10, <1>11, <1>12,
     <1>13, PayloadCommitWrite, NextActions DEF Actions

\* What is served from the cache is never older than its limit.
THEOREM SpecAnswersAreRecent == Spec => []AnswersAreRecent
<1>1. Init => PayloadInv
  BY DEF Init, PayloadInv, Stored
<1>2. TypeOK /\ LockInv /\ PayloadInv /\ [Next]_vars => PayloadInv'
  BY PayloadStep
<1>3. TypeOK /\ PayloadInv => AnswersAreRecent
  <2> SUFFICES ASSUME TypeOK, PayloadInv, now - model.calculatedAt <= MaxAge,
                      NEW r \in Stored, now - facts[r].committedAt > MaxAge
               PROVE  Version(r) \in model.payload
    BY DEF AnswersAreRecent
  <2>1. /\ now \in Int /\ model.calculatedAt \in Int
        /\ facts[r].committedAt \in Int /\ MaxAge \in Int
    BY StoredDay, ReadModelsConstants DEF TypeOK, Time
  <2>2. facts[r].committedAt < model.calculatedAt
    BY <2>1
  <2>. QED
    BY <2>2 DEF PayloadInv
<1>. QED
  BY <1>1, <1>2, <1>3, SpecTypeOK, SpecLockInv, PTL DEF Spec

=============================================================================
