--------------------------- MODULE CoreSide_proofs ---------------------------
(***************************************************************************)
(* What the components behind the core's answers keep, for every set of    *)
(* stages, machines, skills, writers, paths, nodes and callers, proved.    *)
(* The components share no state, so each has an inductive invariant of    *)
(* its own, kept by its own steps; a step of another leaves it alone.      *)
(***************************************************************************)
EXTENDS MCCoreSide, Selection_proofs, FiniteSetTheorems

allVars == <<part, workVars, modelVars, trailVars, tradingVars, skillVars, memoryVars,
             undoVars, backupVars, registryVars, mediaVars>>

\* A step is a step of one component, and no step of any other.
LEMMA OnePartSteps ==
  [Next]_allVars =>
    /\ [Work!Next]_workVars /\ [Skills!Next]_skillVars /\ [Memory!Next]_memoryVars
    /\ [Undo!Next]_undoVars
    /\ [Audit!Next]_trailVars /\ [Trading!Next]_tradingVars /\ [Backup!Next]_backupVars
    /\ [Media!Next]_mediaVars /\ [Recovery!RecoveryNext]_modelVars /\ [Registry!Next]_registryVars
<1> SUFFICES ASSUME [Next]_allVars
             PROVE  /\ [Work!Next]_workVars /\ [Skills!Next]_skillVars
                    /\ [Memory!Next]_memoryVars /\ [Undo!Next]_undoVars
                    /\ [Audit!Next]_trailVars /\ [Trading!Next]_tradingVars
                    /\ [Backup!Next]_backupVars /\ [Media!Next]_mediaVars
                    /\ [Recovery!RecoveryNext]_modelVars /\ [Registry!Next]_registryVars
  OBVIOUS
<1>1. WorkNext \/ UNCHANGED workVars
  BY DEF Next, allVars, ModelsNext, TrailNext, TradingNext, SkillsNext, MemoryNext, UndoNext,
     BackupNext, RegistryNext, MediaNext
<1>2. SkillsNext \/ UNCHANGED skillVars
  BY DEF Next, allVars, WorkNext, ModelsNext, TrailNext, TradingNext, MemoryNext, UndoNext,
     BackupNext, RegistryNext, MediaNext
<1>3. MemoryNext \/ UNCHANGED memoryVars
  BY DEF Next, allVars, WorkNext, ModelsNext, TrailNext, TradingNext, SkillsNext, UndoNext,
     BackupNext, RegistryNext, MediaNext
<1>4. UndoNext \/ UNCHANGED undoVars
  BY DEF Next, allVars, WorkNext, ModelsNext, TrailNext, TradingNext, SkillsNext, MemoryNext,
     BackupNext, RegistryNext, MediaNext
<1>5. TrailNext \/ UNCHANGED trailVars
  BY DEF Next, allVars, WorkNext, ModelsNext, TradingNext, SkillsNext, MemoryNext, UndoNext,
     BackupNext, RegistryNext, MediaNext
<1>6. TradingNext \/ UNCHANGED tradingVars
  BY DEF Next, allVars, WorkNext, ModelsNext, TrailNext, SkillsNext, MemoryNext, UndoNext,
     BackupNext, RegistryNext, MediaNext
<1>7. BackupNext \/ UNCHANGED backupVars
  BY DEF Next, allVars, WorkNext, ModelsNext, TrailNext, TradingNext, SkillsNext, MemoryNext,
     UndoNext, RegistryNext, MediaNext
<1>8. MediaNext \/ UNCHANGED mediaVars
  BY DEF Next, allVars, WorkNext, ModelsNext, TrailNext, TradingNext, SkillsNext, MemoryNext,
     UndoNext, BackupNext, RegistryNext
<1>9. ModelsNext \/ UNCHANGED modelVars
  BY DEF Next, allVars, WorkNext, TrailNext, TradingNext, SkillsNext, MemoryNext, UndoNext,
     BackupNext, RegistryNext, MediaNext
<1>10. RegistryNext \/ UNCHANGED registryVars
  BY DEF Next, allVars, WorkNext, ModelsNext, TrailNext, TradingNext, SkillsNext, MemoryNext,
     UndoNext, BackupNext, MediaNext
<1> QED
  BY <1>1, <1>2, <1>3, <1>4, <1>5, <1>6, <1>7, <1>8, <1>9, <1>10
     DEF WorkNext, SkillsNext, MemoryNext, UndoNext, TrailNext, TradingNext, BackupNext, MediaNext,
         ModelsNext, RegistryNext

-------------------------------------------------------------------------------
(* SkillLifecycle: what a turn may run.                                      *)

\* The states of a skill tell how it got there, a version it runs is one it has, and a test
\* under way is of a skill there is.
SkillRecord ==
  [status : {"DRAFT", "TESTING", "ACTIVE", "DEPRECATED"}, current : Nat,
   versions : Seq(Skills!Version), proven : BOOLEAN, shelved : BOOLEAN, rolled : BOOLEAN]
Earned(skill) ==
  /\ skill.current \in DOMAIN skill.versions
  /\ skill.status = "TESTING" => skill.proven
  /\ skill.status = "DEPRECATED" => skill.shelved
  /\ skill.status = "ACTIVE" =>
       /\ skill.proven \/ skill.shelved
       /\ skill.versions[skill.current].risky =>
            skill.versions[skill.current].approved \/ skill.rolled
SkillInv ==
  /\ \A s \in DOMAIN skills : skills[s] \in SkillRecord /\ Earned(skills[s])
  /\ \A t \in sandbox : t[1] \in DOMAIN skills

\* A skill that becomes another one, itself earned, leaves the rest as they were.
LEMMA SkillBecomes ==
  ASSUME SkillInv, NEW s \in DOMAIN skills, NEW skill \in SkillRecord, Earned(skill),
         skills' = [skills EXCEPT ![s] = skill], \A t \in sandbox' : t[1] \in DOMAIN skills
  PROVE  SkillInv'
<1>1. DOMAIN skills' = DOMAIN skills
  OBVIOUS
<1>2. ASSUME NEW t \in DOMAIN skills' PROVE skills'[t] \in SkillRecord /\ Earned(skills'[t])
  <2>1. skills'[t] = IF t = s THEN skill ELSE skills[t]
    OBVIOUS
  <2> QED
    BY <1>1, <2>1 DEF SkillInv
<1>3. \A t \in DOMAIN skills' : skills'[t] \in SkillRecord /\ Earned(skills'[t])
  BY <1>2
<1>4. \A t \in DOMAIN skills' : (skills[t] \in SkillRecord /\ Earned(skills[t]))'
  BY <1>3 DEF Earned, SkillRecord, Skills!Version
<1> QED
  BY <1>1, <1>4 DEF SkillInv

\* A draft is added to those there are.
LEMMA DraftIsAdded ==
  ASSUME SkillInv, NEW s \in SkillNames, NEW risky \in BOOLEAN,
         skills' = Skills!Added(s, Skills!captured(risky)), UNCHANGED sandbox
  PROVE  SkillInv'
<1> DEFINE draft == [status |-> "DRAFT", current |-> 1,
                     versions |-> <<[risky |-> risky, approved |-> FALSE]>>,
                     proven |-> FALSE, shelved |-> FALSE, rolled |-> FALSE]
<1>1. draft \in SkillRecord /\ Earned(draft)
  BY DEF SkillRecord, Earned, Skills!Version
<1>2. skills' = [t \in DOMAIN skills \cup {s} |-> IF t = s THEN draft ELSE skills[t]]
  BY DEF Skills!Added, Skills!captured
<1> HIDE DEF draft
<1>3. ASSUME NEW t \in DOMAIN skills' PROVE skills'[t] \in SkillRecord /\ Earned(skills'[t])
  BY <1>1, <1>2 DEF SkillInv
<1>4. \A t \in DOMAIN skills' : (skills[t] \in SkillRecord /\ Earned(skills[t]))'
  BY <1>3 DEF Earned, SkillRecord, Skills!Version
<1> QED
  BY <1>2, <1>4 DEF SkillInv

\* Every step of the owner, the capture and the sandbox keeps it.
LEMMA SkillStep == SkillInv /\ [Skills!Next]_skillVars => SkillInv'
<1> SUFFICES ASSUME SkillInv, [Skills!Next]_skillVars PROVE SkillInv'
  OBVIOUS
<1>0. ASSUME NEW s \in DOMAIN skills
      PROVE  /\ skills[s] \in SkillRecord /\ Earned(skills[s])
             /\ skills[s].versions \in Seq(Skills!Version) /\ skills[s].current \in Nat
  <2>1. skills[s] \in SkillRecord /\ Earned(skills[s])
    BY DEF SkillInv
  <2> QED
    BY <2>1 DEF SkillRecord
<1>01. ASSUME NEW s \in DOMAIN skills, NEW n
       PROVE  Skills!target(s, n) \in DOMAIN skills[s].versions /\ Skills!target(s, n) \in Nat
  <2>1. skills[s].versions \in Seq(Skills!Version) /\ skills[s].current \in DOMAIN skills[s].versions
    BY <1>0 DEF Earned
  <2>2. DOMAIN skills[s].versions = 1..Len(skills[s].versions) /\ Len(skills[s].versions) \in Nat
    BY <2>1
  <2> QED
    BY <2>1, <2>2 DEF Skills!target
<1>1. ASSUME NEW s \in SkillNames, NEW risky \in BOOLEAN, Skills!Capture(s, risky) PROVE SkillInv'
  BY <1>1, DraftIsAdded DEF Skills!Capture
<1>2. ASSUME NEW s \in SkillNames, NEW p, NEW q, Skills!Compose(s, <<p, q>>) PROVE SkillInv'
  <2> DEFINE risky == \E i \in DOMAIN <<p, q>> : Skills!currentOf(<<p, q>>[i]).risky
  <2>1. risky \in BOOLEAN
    BY Zenon
  <2>2. skills' = Skills!Added(s, Skills!captured(risky)) /\ UNCHANGED sandbox
    BY <1>2 DEF Skills!Compose
  <2> QED
    BY <2>1, <2>2, DraftIsAdded
<1>3. ASSUME NEW s \in DOMAIN skills, NEW risky \in BOOLEAN, Skills!AddVersion(s, risky)
      PROVE  SkillInv'
  <2> DEFINE more == Append(skills[s].versions, [risky |-> risky, approved |-> FALSE])
             skill == [skills[s] EXCEPT !.versions = more, !.status = "DRAFT", !.proven = FALSE,
                                        !.shelved = FALSE]
  <2>1. more \in Seq(Skills!Version) /\ skills[s].current \in DOMAIN more
    BY <1>0 DEF Earned, Skills!Version
  <2>2. skills' = [skills EXCEPT ![s] = skill] /\ sandbox' = sandbox
    BY <1>3 DEF Skills!AddVersion, Skills!Became
  <2> HIDE DEF more
  <2>3. /\ skill \in SkillRecord /\ skill.status = "DRAFT"
        /\ skill.versions = more /\ skill.current = skills[s].current
    BY <1>0, <2>1 DEF SkillRecord
  <2> HIDE DEF skill
  <2> QED
    BY <2>1, <2>2, <2>3, SkillBecomes DEF SkillInv, Earned
<1>4. ASSUME NEW s \in DOMAIN skills, NEW n, Skills!TestBegins(s, n) PROVE SkillInv'
  BY <1>4 DEF Skills!TestBegins, SkillInv, Earned
<1>5. ASSUME NEW t \in sandbox, NEW ok \in BOOLEAN, Skills!TestEnds(t, ok) PROVE SkillInv'
  <2> DEFINE s == t[1]
             skill == [skills[s] EXCEPT !.status = "TESTING", !.proven = TRUE]
  <2>0. s \in DOMAIN skills
    BY DEF SkillInv
  <2>1. CASE ok
    <3>1. skills' = [skills EXCEPT ![s] = skill] /\ sandbox' \subseteq sandbox
      BY <1>5, <2>1 DEF Skills!TestEnds, Skills!Became
    <3> HIDE DEF s
    <3>2. /\ skill \in SkillRecord /\ skill.status = "TESTING" /\ skill.proven
          /\ skill.versions = skills[s].versions /\ skill.current = skills[s].current
      BY <1>0, <2>0 DEF SkillRecord
    <3> HIDE DEF skill
    <3>3. Earned(skill)
      BY <1>0, <2>0, <3>2 DEF Earned
    <3> QED
      BY <2>0, <3>1, <3>2, <3>3, SkillBecomes DEF SkillInv
  <2>2. CASE ~ok
    BY <1>5, <2>2 DEF Skills!TestEnds, SkillInv, Earned
  <2> QED
    BY <2>1, <2>2
<1>6. ASSUME NEW s \in DOMAIN skills, NEW n, Skills!Approve(s, n) PROVE SkillInv'
  <2> DEFINE k == Skills!target(s, n)
             was == skills[s].versions[k]
             now == [was EXCEPT !.approved = TRUE]
             reviewed == [skills[s].versions EXCEPT ![k] = now]
             skill == [skills[s] EXCEPT !.versions = reviewed]
  <2>1. k \in DOMAIN skills[s].versions
    BY <1>01
  <2>2. skills' = [skills EXCEPT ![s] = skill] /\ sandbox' = sandbox
    BY <1>6 DEF Skills!Approve, Skills!Became
  <2> HIDE DEF k
  <2>3. skills[s].versions \in Seq(Skills!Version) /\ was \in Skills!Version
    BY <1>0, <2>1
  <2>4. now \in Skills!Version /\ now.risky = was.risky /\ now.approved
    BY <2>3 DEF Skills!Version
  <2> HIDE DEF now
  <2>5. /\ reviewed \in Seq(Skills!Version) /\ DOMAIN reviewed = DOMAIN skills[s].versions
        /\ \A i \in DOMAIN reviewed : reviewed[i] = IF i = k THEN now ELSE skills[s].versions[i]
    BY <2>1, <2>3, <2>4
  <2> HIDE DEF reviewed
  <2>6. /\ skill \in SkillRecord /\ skill.versions = reviewed /\ skill.current = skills[s].current
        /\ skill.status = skills[s].status /\ skill.proven = skills[s].proven
        /\ skill.shelved = skills[s].shelved /\ skill.rolled = skills[s].rolled
    BY <1>0, <2>5 DEF SkillRecord
  <2> HIDE DEF skill
  <2>7. Earned(skill)
    BY <1>0, <2>4, <2>5, <2>6 DEF Earned
  <2> QED
    BY <2>2, <2>6, <2>7, SkillBecomes DEF SkillInv
<1>7. ASSUME NEW s \in DOMAIN skills, NEW n, Skills!Activate(s, n) PROVE SkillInv'
  <2> DEFINE k == Skills!target(s, n)
             skill == [skills[s] EXCEPT !.status = "ACTIVE", !.current = k, !.rolled = FALSE]
  <2>1. k \in DOMAIN skills[s].versions /\ k \in Nat
    BY <1>01
  <2>2. /\ skills[s].status # "DRAFT"
        /\ skills[s].versions[k].risky => skills[s].versions[k].approved
        /\ skills' = [skills EXCEPT ![s] = skill]
        /\ sandbox' = sandbox
    BY <1>7 DEF Skills!Activate, Skills!Became
  <2> HIDE DEF k
  <2>3. /\ skill \in SkillRecord /\ skill.versions = skills[s].versions /\ skill.current = k
        /\ skill.proven = skills[s].proven /\ skill.shelved = skills[s].shelved
        /\ skill.status = "ACTIVE"
        /\ skills[s].status \in {"DRAFT", "TESTING", "ACTIVE", "DEPRECATED"}
    BY <1>0, <2>1 DEF SkillRecord
  <2> HIDE DEF skill
  <2>4. Earned(skill)
    BY <1>0, <2>1, <2>2, <2>3 DEF Earned
  <2> QED
    BY <2>2, <2>3, <2>4, SkillBecomes DEF SkillInv
<1>8. ASSUME NEW s \in DOMAIN skills, NEW n \in 1..MaxVersions, Skills!Rollback(s, n)
      PROVE  SkillInv'
  <2> DEFINE skill == [skills[s] EXCEPT !.current = n, !.rolled = TRUE]
  <2>1. n \in DOMAIN skills[s].versions /\ n \in Nat
    BY <1>8 DEF Skills!Rollback
  <2>2. skills' = [skills EXCEPT ![s] = skill] /\ sandbox' = sandbox
    BY <1>8 DEF Skills!Rollback, Skills!Became
  <2>3. /\ skill \in SkillRecord /\ skill.versions = skills[s].versions /\ skill.current = n
        /\ skill.proven = skills[s].proven /\ skill.shelved = skills[s].shelved
        /\ skill.status = skills[s].status /\ skill.rolled
    BY <1>0, <2>1 DEF SkillRecord
  <2> HIDE DEF skill
  <2>4. Earned(skill)
    BY <1>0, <2>1, <2>3 DEF Earned
  <2> QED
    BY <2>2, <2>3, <2>4, SkillBecomes DEF SkillInv
<1>9. ASSUME NEW s \in DOMAIN skills, Skills!Deprecate(s) PROVE SkillInv'
  <2> DEFINE skill == [skills[s] EXCEPT !.status = "DEPRECATED", !.shelved = TRUE]
  <2>1. skills' = [skills EXCEPT ![s] = skill] /\ sandbox' = sandbox
    BY <1>9 DEF Skills!Deprecate, Skills!Became
  <2>2. /\ skill \in SkillRecord /\ skill.versions = skills[s].versions
        /\ skill.current = skills[s].current /\ skill.status = "DEPRECATED" /\ skill.shelved
    BY <1>0 DEF SkillRecord
  <2> HIDE DEF skill
  <2>3. Earned(skill)
    BY <1>0, <2>2 DEF Earned
  <2> QED
    BY <2>1, <2>2, <2>3, SkillBecomes DEF SkillInv
<1>10. CASE UNCHANGED skillVars
  BY <1>10 DEF skillVars, SkillInv, Earned
<1> QED
  BY <1>1, <1>2, <1>3, <1>4, <1>5, <1>6, <1>7, <1>8, <1>9, <1>10 DEF Skills!Next

\* What a turn may run was tested since it was last a draft, or shelved in between, and a
\* version that destroys, spends or reaches outside was reviewed or rolled back to
\* (SkillLifecycle, for any skills, versions and tests under way).
THEOREM SkillsAreEarned == Spec => []ActiveIsEarned
<1>1. SkillInv => ActiveIsEarned
  BY DEF SkillInv, Earned, ActiveIsEarned, Skills!ActiveIsEarned, Skills!runnable, Skills!currentOf
<1>2. Init => SkillInv
  BY DEF Init, Skills!Init, SkillInv
<1>3. SkillInv /\ [Next]_allVars => SkillInv'
  BY OnePartSteps, SkillStep
<1> QED
  BY <1>1, <1>2, <1>3, PTL DEF Spec, allVars

-------------------------------------------------------------------------------
(* MemoryManager: what is kept, and what is forgotten.                       *)

\* A write under way; one that is answered is nothing.
UnderWay ==
  [at : {"embed", "again", "put"}, new : Memory!Record, old : Memory!Ids \cup {Memory!NoId}]

\* The index shows what the table keeps and nothing whose row is about to go.  Only what was
\* answered as forgotten is missing from the table, and nothing in it was ever retired: the
\* table has what was written, and retiring happens in the index.
MemoryInv ==
  /\ Memory!TypeOK /\ writes \in [Writers -> UnderWay \cup {Memory!NoWrite}]
  /\ DOMAIN records \subseteq DOMAIN rows \ removing
  /\ DOMAIN rows \subseteq 1..made /\ removing \subseteq 1..made
  /\ 1..made \subseteq DOMAIN rows \cup forgotten /\ forgotten \cap DOMAIN rows = {}
  /\ \A i \in DOMAIN rows : ~rows[i].retired
  /\ \A w \in Writers : writes[w] # Memory!NoWrite => ~writes[w].new.retired
  /\ Memory!OwnerIsNotOverruled

\* A write that is answered, or goes on to its next await with what it brings unretired.
LEMMA WriteGoesOn ==
  ASSUME MemoryInv, NEW w \in Writers, NEW next \in UnderWay \cup {Memory!NoWrite},
         next # Memory!NoWrite => ~next.new.retired, writes' = [writes EXCEPT ![w] = next]
  PROVE  /\ writes' \in [Writers -> UnderWay \cup {Memory!NoWrite}]
         /\ \A x \in Writers : writes'[x] # Memory!NoWrite => ~writes'[x].new.retired
         /\ \A x \in Writers : \/ writes'[x] = Memory!NoWrite
                               \/ writes'[x] \in UnderWay
<1> DEFINE All == UnderWay \cup {Memory!NoWrite}
<1>1. writes \in [Writers -> All] /\ next \in All
  BY DEF MemoryInv
<1>2. \A x \in Writers : writes'[x] = IF x = w THEN next ELSE writes[x]
  BY <1>1
<1>3. writes' \in [Writers -> All]
  <2> HIDE DEF All
  <2> QED
    BY <1>1
<1>4. \A x \in Writers : writes'[x] # Memory!NoWrite => ~writes'[x].new.retired
  BY <1>2 DEF MemoryInv
<1> QED
  BY <1>3, <1>4

\* What leaves the index leaves it whole and waits for its row to go.
LEMMA IndexLoses ==
  ASSUME MemoryInv, NEW S \in SUBSET DOMAIN records, records' = Memory!Without(records, S),
         removing' = removing \cup S, UNCHANGED <<rows, writes, made, forgotten>>,
         conflicts' \subseteq conflicts, suppressed' \in BOOLEAN
  PROVE  MemoryInv'
<1>1. /\ DOMAIN records' = DOMAIN records \ S
      /\ \A i \in DOMAIN records' : records'[i] = records[i]
  BY DEF Memory!Without
<1>2. DOMAIN records \subseteq 1..made /\ S \subseteq 1..made /\ S \subseteq Memory!Ids
  BY DEF MemoryInv, Memory!TypeOK
<1>3. Memory!TypeOK'
  BY <1>1, <1>2 DEF MemoryInv, Memory!TypeOK, Memory!Record
<1>4. Memory!OwnerIsNotOverruled'
  BY <1>1 DEF MemoryInv, Memory!OwnerIsNotOverruled
<1>5. /\ DOMAIN records' \subseteq DOMAIN rows' \ removing' /\ removing' \subseteq 1..made'
      /\ writes' \in [Writers -> UnderWay \cup {Memory!NoWrite}]
  BY <1>1, <1>2 DEF MemoryInv
<1> QED
  BY <1>3, <1>4, <1>5 DEF MemoryInv, UnderWay, Memory!Record

\* A step of the writes alone keeps it.
LEMMA OnlyWritesMove ==
  ASSUME MemoryInv, NEW w \in Writers, NEW next \in UnderWay \cup {Memory!NoWrite},
         next # Memory!NoWrite => ~next.new.retired, writes' = [writes EXCEPT ![w] = next],
         UNCHANGED <<records, rows, removing, made, conflicts, suppressed, forgotten>>
  PROVE  MemoryInv'
<1>1. Memory!TypeOK'
  BY WriteGoesOn DEF MemoryInv, Memory!TypeOK, UnderWay
<1>2. Memory!OwnerIsNotOverruled'
  BY DEF MemoryInv, Memory!OwnerIsNotOverruled
<1> QED
  BY <1>1, <1>2, WriteGoesOn DEF MemoryInv

\* What a write under way holds.
LEMMA WriteHolds ==
  ASSUME MemoryInv, NEW w \in Writers, writes[w] # Memory!NoWrite
  PROVE  /\ writes[w] \in UnderWay /\ writes[w].new \in Memory!Record /\ ~writes[w].new.retired
         /\ writes[w].at \in {"embed", "again", "put"} /\ writes[w].old \in Memory!Ids \cup {Memory!NoId}
<1>1. writes[w] \in UnderWay
  BY DEF MemoryInv
<1> QED
  BY <1>1 DEF MemoryInv, UnderWay

\* A record that is stored is on the table and in the index, and was never retired.
LEMMA StoredIsKept ==
  ASSUME MemoryInv, MaxRecords \in Nat, NEW w \in Writers, NEW kept1 \in BOOLEAN, Memory!Stored(w, kept1)
  PROVE  MemoryInv'
<1> DEFINE id == made + 1
           new == writes[w].new
<1>1. writes[w] # Memory!NoWrite /\ writes[w].at = "put" /\ made < MaxRecords
  BY DEF Memory!Stored, Memory!NoWrite
<1>2. new \in Memory!Record /\ ~new.retired
  BY <1>1, WriteHolds
<1>3. made \in 0..MaxRecords /\ forgotten \subseteq 1..made /\ conflicts \subseteq Memory!Ids \X Memory!Ids
  BY DEF MemoryInv, Memory!TypeOK
<1>4. /\ id \in Memory!Ids /\ id \notin 1..made /\ id \in 0..MaxRecords /\ 1..id = 1..made \cup {id}
  BY <1>1, <1>3 DEF Memory!Ids
<1>5. /\ writes' \in [Writers -> UnderWay \cup {Memory!NoWrite}]
      /\ \A x \in Writers : writes'[x] # Memory!NoWrite => ~writes'[x].new.retired
      /\ \A x \in Writers : writes'[x] = Memory!NoWrite \/ writes'[x] \in UnderWay
  BY WriteGoesOn DEF Memory!Stored, Memory!Become
<1>6. UNCHANGED <<removing, suppressed, forgotten>>
  BY DEF Memory!Stored
<1>7. CASE ~kept1
  <2>1. UNCHANGED <<made, rows, records, conflicts>>
    BY <1>7 DEF Memory!Stored
  <2>2. Memory!TypeOK'
    BY <1>5, <1>6, <2>1 DEF MemoryInv, Memory!TypeOK, UnderWay
  <2>3. Memory!OwnerIsNotOverruled'
    BY <2>1 DEF MemoryInv, Memory!OwnerIsNotOverruled
  <2> QED
    BY <1>5, <1>6, <2>1, <2>2, <2>3 DEF MemoryInv
<1>8. CASE kept1
  <2>1. /\ made' = id
        /\ DOMAIN rows' = DOMAIN rows \cup {id} /\ DOMAIN records' = DOMAIN records \cup {id}
        /\ \A i \in DOMAIN rows' : rows'[i] = IF i = id THEN new ELSE rows[i]
        /\ \A i \in DOMAIN records' : records'[i] = IF i = id THEN new ELSE records[i]
    BY <1>8 DEF Memory!Stored, Memory!With
  <2>2. conflicts' \subseteq Memory!Ids \X Memory!Ids
    <3>1. conflicts' = IF new.against = Memory!NoId THEN conflicts
                       ELSE conflicts \cup {<<new.against, id>>}
      BY <1>8 DEF Memory!Stored
    <3>2. new.against \in Memory!Ids \cup {Memory!NoId}
      BY <1>2 DEF Memory!Record
    <3> QED
      BY <1>3, <1>4, <3>1, <3>2
  <2> HIDE DEF new, id
  <2>3. /\ DOMAIN records \subseteq DOMAIN rows \ removing /\ DOMAIN rows \subseteq 1..made
        /\ removing \subseteq 1..made /\ 1..made \subseteq DOMAIN rows \cup forgotten
        /\ forgotten \cap DOMAIN rows = {}
    BY DEF MemoryInv
  <2>4. /\ DOMAIN records' \subseteq DOMAIN rows' \ removing' /\ DOMAIN rows' \subseteq 1..made'
        /\ removing' \subseteq 1..made' /\ 1..made' \subseteq DOMAIN rows' \cup forgotten'
        /\ forgotten' \cap DOMAIN rows' = {} /\ forgotten' \subseteq 1..made'
    BY <1>3, <1>4, <1>6, <2>1, <2>3
  <2>5. /\ \A i \in DOMAIN rows' : ~rows'[i].retired /\ rows'[i] \in Memory!Record
        /\ \A i \in DOMAIN records' : records'[i] \in Memory!Record
    BY <1>2, <2>1 DEF MemoryInv, Memory!TypeOK
  <2>6. Memory!OwnerIsNotOverruled'
    BY <1>2, <2>1 DEF MemoryInv, Memory!OwnerIsNotOverruled
  <2>7. 1..made' \subseteq Memory!Ids
    <3>1. made' \in 0..MaxRecords
      BY <1>4, <2>1
    <3> QED
      BY <3>1 DEF Memory!Ids
  <2>8. Memory!TypeOK'
    <3>1. made' \in 0..MaxRecords /\ suppressed' \in BOOLEAN
      BY <1>4, <1>6, <2>1 DEF MemoryInv, Memory!TypeOK
    <3>2. \A x \in Writers : \/ writes'[x] = Memory!NoWrite
                             \/ writes'[x] \in UnderWay
      BY <1>5
    <3>3. DOMAIN rows' \subseteq Memory!Ids /\ DOMAIN records' \subseteq Memory!Ids
          /\ removing' \subseteq Memory!Ids
      BY <2>4, <2>7
    <3> QED
      BY <2>2, <2>4, <2>5, <3>1, <3>2, <3>3 DEF Memory!TypeOK, UnderWay, Memory!Record
  <2> QED
    BY <1>5, <2>4, <2>5, <2>6, <2>8 DEF MemoryInv
<1> QED
  BY <1>7, <1>8

\* A row is deleted when its record has been out of the index for some time.
LEMMA RowGoes ==
  ASSUME MemoryInv, NEW i \in Memory!Ids, NEW ok \in BOOLEAN, Memory!RemoveReturns(i, ok)
  PROVE  MemoryInv'
<1>1. i \in removing /\ removing' = removing \ {i} /\ UNCHANGED <<records, writes, made, conflicts, suppressed>>
  BY DEF Memory!RemoveReturns
<1>2. /\ forgotten' = (IF ok THEN forgotten \cup {i} ELSE forgotten)
      /\ DOMAIN rows' = IF ok THEN DOMAIN rows \ {i} ELSE DOMAIN rows
      /\ \A j \in DOMAIN rows' : rows'[j] = rows[j]
  BY DEF Memory!RemoveReturns, Memory!Without
<1>3. Memory!TypeOK'
  BY <1>1, <1>2 DEF MemoryInv, Memory!TypeOK, Memory!Record
<1>4. Memory!OwnerIsNotOverruled'
  BY <1>1 DEF MemoryInv, Memory!OwnerIsNotOverruled
<1>5. /\ DOMAIN records' \subseteq DOMAIN rows' \ removing' /\ DOMAIN rows' \subseteq 1..made'
      /\ removing' \subseteq 1..made' /\ 1..made' \subseteq DOMAIN rows' \cup forgotten'
      /\ forgotten' \cap DOMAIN rows' = {}
  BY <1>1, <1>2 DEF MemoryInv
<1> QED
  BY <1>1, <1>2, <1>3, <1>4, <1>5 DEF MemoryInv

\* A restart brings back the table, and with it nothing that was retired.
LEMMA TableComesBack ==
  ASSUME MemoryInv, Memory!Restart
  PROVE  MemoryInv'
<1>1. /\ records' = rows /\ writes' = [w \in Writers |-> Memory!NoWrite] /\ removing' = {}
      /\ conflicts' = {} /\ suppressed' = FALSE /\ UNCHANGED <<rows, made, forgotten>>
  BY DEF Memory!Restart
<1>2. Memory!TypeOK'
  BY <1>1 DEF MemoryInv, Memory!TypeOK, Memory!Record
<1>3. Memory!OwnerIsNotOverruled'
  BY <1>1 DEF MemoryInv, Memory!OwnerIsNotOverruled
<1> QED
  BY <1>1, <1>2, <1>3 DEF MemoryInv

\* Every write, forgetting, answer and restart keeps it.
LEMMA MemoryStep == MaxRecords \in Nat /\ MemoryInv /\ [Memory!Next]_memoryVars => MemoryInv'
<1> SUFFICES ASSUME MaxRecords \in Nat, MemoryInv, [Memory!Next]_memoryVars PROVE MemoryInv'
  OBVIOUS
<1>1. ASSUME NEW w \in Writers, NEW value \in Values, NEW source \in Memory!Sources,
             NEW session \in BOOLEAN, Memory!Write(w, value, source, session)
      PROVE  MemoryInv'
  <2> DEFINE new == [value |-> value, source |-> source, session |-> session,
                     against |-> Memory!NoId, retired |-> FALSE]
             next == [at |-> "embed", old |-> Memory!NoId, new |-> new]
  <2>1. new \in Memory!Record /\ ~new.retired
    BY DEF Memory!Record
  <2>2. /\ writes' = [writes EXCEPT ![w] = next]
        /\ UNCHANGED <<records, rows, removing, made, conflicts, suppressed, forgotten>>
    BY <1>1 DEF Memory!Write, Memory!Become
  <2> HIDE DEF new
  <2>3. next \in UnderWay /\ next.new = new
    BY <2>1 DEF UnderWay
  <2> HIDE DEF next
  <2> QED
    BY <2>1, <2>2, <2>3, OnlyWritesMove
<1>2. ASSUME NEW w \in Writers, NEW i \in Memory!Ids, Memory!Repeats(w, i) PROVE MemoryInv'
  BY <1>2, OnlyWritesMove DEF Memory!Repeats, Memory!Become
<1>3. ASSUME NEW w \in Writers, NEW i \in Memory!Ids, Memory!Supersedes(w, i) PROVE MemoryInv'
  <2> DEFINE next == [writes[w] EXCEPT !.at = "again", !.old = i]
             retired == [records[i] EXCEPT !.retired = TRUE]
  <2>0. writes[w] # Memory!NoWrite /\ i \in DOMAIN records /\ records[i].source = "AGENT"
    BY <1>3 DEF Memory!Supersedes, Memory!NoWrite, Memory!current, Memory!outranks
  <2>1. /\ writes' = [writes EXCEPT ![w] = next] /\ records' = [records EXCEPT ![i] = retired]
        /\ UNCHANGED <<rows, removing, made, conflicts, suppressed, forgotten>>
    BY <1>3 DEF Memory!Supersedes, Memory!Become
  <2>2. next \in UnderWay /\ next.new = writes[w].new
    BY <2>0, WriteHolds DEF UnderWay
  <2>3. retired \in Memory!Record /\ retired.source = "AGENT"
    <3>1. records[i] \in Memory!Record
      BY <2>0 DEF MemoryInv, Memory!TypeOK
    <3> QED
      BY <2>0, <3>1 DEF Memory!Record
  <2> HIDE DEF next, retired
  <2>4. /\ writes' \in [Writers -> UnderWay \cup {Memory!NoWrite}]
        /\ \A x \in Writers : writes'[x] # Memory!NoWrite => ~writes'[x].new.retired
        /\ \A x \in Writers : writes'[x] = Memory!NoWrite \/ writes'[x] \in UnderWay
    BY <2>0, <2>1, <2>2, WriteHolds, WriteGoesOn
  <2>5. /\ DOMAIN records' = DOMAIN records
        /\ \A j \in DOMAIN records' : records'[j] = IF j = i THEN retired ELSE records[j]
    BY <2>1
  <2>6. Memory!TypeOK'
    <3>1. \A j \in DOMAIN records' : records'[j] \in Memory!Record
      BY <2>3, <2>5 DEF MemoryInv, Memory!TypeOK
    <3> QED
      BY <2>1, <2>4, <2>5, <3>1 DEF MemoryInv, Memory!TypeOK, UnderWay, Memory!Record
  <2>7. Memory!OwnerIsNotOverruled'
    BY <2>3, <2>5 DEF MemoryInv, Memory!OwnerIsNotOverruled
  <2> QED
    BY <2>1, <2>4, <2>5, <2>6, <2>7 DEF MemoryInv
<1>4. ASSUME NEW w \in Writers, NEW i \in Memory!Ids, Memory!Contradicts(w, i) PROVE MemoryInv'
  <2> DEFINE new == [writes[w].new EXCEPT !.against = i, !.session = FALSE]
             next == [writes[w] EXCEPT !.at = "put", !.old = i, !.new = new]
  <2>0. writes[w] # Memory!NoWrite
    BY <1>4 DEF Memory!Contradicts, Memory!NoWrite
  <2>1. /\ writes' = [writes EXCEPT ![w] = next]
        /\ UNCHANGED <<records, rows, removing, made, conflicts, suppressed, forgotten>>
    BY <1>4 DEF Memory!Contradicts, Memory!Become
  <2>2. new \in Memory!Record /\ ~new.retired
    BY <2>0, WriteHolds DEF Memory!Record
  <2> HIDE DEF new
  <2>3. next \in UnderWay /\ next.new = new
    BY <2>0, <2>2, WriteHolds DEF UnderWay
  <2> HIDE DEF next
  <2> QED
    BY <2>1, <2>2, <2>3, OnlyWritesMove
<1>5. ASSUME NEW w \in Writers, Memory!Plain(w) PROVE MemoryInv'
  <2> DEFINE next == [writes[w] EXCEPT !.at = "put"]
  <2>0. writes[w] # Memory!NoWrite
    BY <1>5 DEF Memory!Plain, Memory!NoWrite
  <2>1. /\ writes' = [writes EXCEPT ![w] = next]
        /\ UNCHANGED <<records, rows, removing, made, conflicts, suppressed, forgotten>>
    BY <1>5 DEF Memory!Plain, Memory!Become
  <2>2. next \in UnderWay /\ next.new = writes[w].new
    BY <2>0, WriteHolds DEF UnderWay
  <2> HIDE DEF next
  <2> QED
    BY <2>0, <2>1, <2>2, WriteHolds, OnlyWritesMove
<1>6. ASSUME NEW i \in Memory!Ids, Memory!Forget({i}) PROVE MemoryInv'
  BY <1>6, IndexLoses DEF Memory!Forget, MemoryInv, Memory!TypeOK
<1>7. CASE Memory!Suppress
  BY <1>7, IndexLoses DEF Memory!Suppress
<1>8. ASSUME NEW c \in conflicts, NEW keepOld \in BOOLEAN, Memory!Resolve(c, keepOld)
      PROVE  MemoryInv'
  <2> DEFINE S == {i \in DOMAIN records : keepOld /\ records[i].against = c[1]}
  <2>1. /\ conflicts' \subseteq conflicts /\ records' = Memory!Without(records, S)
        /\ removing' = removing \cup S /\ UNCHANGED <<rows, writes, made, suppressed, forgotten>>
    BY <1>8 DEF Memory!Resolve
  <2>2. suppressed \in BOOLEAN
    BY DEF MemoryInv, Memory!TypeOK
  <2> QED
    BY <2>1, <2>2, IndexLoses
<1>9. CASE UNCHANGED memoryVars
  <2>1. UNCHANGED <<records, rows, writes, removing, made, conflicts, suppressed, forgotten>>
    BY <1>9 DEF memoryVars
  <2>2. Memory!TypeOK' /\ Memory!OwnerIsNotOverruled'
    BY <2>1 DEF MemoryInv, Memory!TypeOK, Memory!Record, Memory!OwnerIsNotOverruled
  <2> QED
    BY <2>1, <2>2 DEF MemoryInv
<1> QED
  BY <1>1, <1>2, <1>3, <1>4, <1>5, <1>6, <1>7, <1>8, <1>9, StoredIsKept, RowGoes, TableComesBack
     DEF Memory!Next, Memory!Sources

\* At first nothing is remembered.
LEMMA MemoryStarts == Memory!Init => MemoryInv
<1> SUFFICES ASSUME Memory!Init PROVE MemoryInv
  OBVIOUS
<1>1. /\ records = <<>> /\ rows = <<>> /\ writes = [w \in Writers |-> Memory!NoWrite]
      /\ removing = {} /\ made = 0 /\ conflicts = {} /\ suppressed = FALSE /\ forgotten = {}
      /\ DOMAIN records = {} /\ DOMAIN rows = {}
  BY DEF Memory!Init
<1>2. 0 \in 0..MaxRecords /\ 1..made = {}
  BY <1>1, CoreAssumption
<1>3. Memory!TypeOK
  BY <1>1, <1>2 DEF Memory!TypeOK
<1> QED
  BY <1>1, <1>2, <1>3 DEF MemoryInv, Memory!OwnerIsNotOverruled

\* What was answered as remembered is kept until it is forgotten, what was answered as
\* forgotten is nowhere, and nobody but the owner retires what the owner said, whatever writes,
\* forgettings and restarts cross (MemoryManager, for any writers, values and records).
THEOREM MemoryHolds == Spec => []MemoryIsKept
<1>1. MemoryInv => MemoryIsKept
  BY DEF MemoryInv, MemoryIsKept, Memory!ForgottenStaysForgotten, Memory!RememberedIsKept
<1>2. Init => MemoryInv
  BY MemoryStarts DEF Init
<1>3. MemoryInv /\ [Next]_allVars => MemoryInv'
  BY OnePartSteps, MemoryStep, CoreAssumption
<1> QED
  BY <1>1, <1>2, <1>3, PTL DEF Spec, allVars

-------------------------------------------------------------------------------
(* UndoRegistry: acts on the files of a node, and their inverses.            *)

Contents == 0..MaxActs
Disks == [Paths -> Contents]
Files(k) == \A x \in DOMAIN k : k[x] \in Contents

\* What an inverse says, about the files before the act it is of and after.
Reverses(inverse, before, after) ==
  \/ \E p \in Paths, v \in Contents :
       /\ inverse = [op |-> "file.restore", path |-> p, content |-> before[p]]
       /\ after = [before EXCEPT ![p] = v]
  \/ \E p \in Paths, s \in Nat :
       /\ inverse = [op |-> "file.restore_from_trash", src |-> <<"trash", s, p>>, dst |-> p]
       /\ after = [before EXCEPT ![p] = Undo!Nothing]
  \/ \E p \in Paths : \E q \in Paths \ {p} :
       /\ inverse = [op |-> "file.move", src |-> q, dst |-> p]
       /\ after = [before EXCEPT ![q] = before[p], ![p] = Undo!Nothing]
  \/ \E p \in Paths : \E q \in Paths \ {p} :
       /\ inverse = [op |-> "file.delete", path |-> q]
       /\ after = [before EXCEPT ![q] = before[p]]

\* A node is left with files d and with k put aside: nothing is lost but what a move, a copy or
\* a restore takes the place of, or what another of the same second does.
Saved(n, d, k) ==
  \/ ({disk[n][p] : p \in Paths} \cup {kept[n][x] : x \in DOMAIN kept[n]}) \ {Undo!Nothing}
       \subseteq ({d[p] : p \in Paths} \cup {k[x] : x \in DOMAIN k}) \ {Undo!Nothing}
  \/ \E q \in Paths :
       /\ disk[n][q] # Undo!Nothing
       /\ \/ \E p \in Paths \ {q} : disk[n][p] # Undo!Nothing /\ d[q] = disk[n][p]
          \/ \E x \in DOMAIN kept[n] \ DOMAIN k : x[3] = q
  \/ \E x \in DOMAIN kept[n] \cap DOMAIN k : kept[n][x] # k[x]

Requests == [record : Nat, node : Nodes \cup {""}, phase : {"idle", "sent", "ok", "failed"}]
Descriptions ==
  [op : {"file.restore"}, path : Paths, content : Contents]
  \cup [op : {"file.restore_from_trash"}, src : {"trash"} \X Nat \X Paths, dst : Paths]
  \cup [op : {"file.move"}, src : Paths, dst : Paths] \cup [op : {"file.delete"}, path : Paths]
Records ==
  [inverse : Descriptions, node : Nodes, before : Disks, after : Disks, live : BOOLEAN,
   expired : BOOLEAN]
IsRight(r) == Reverses(r.inverse, r.before, r.after)

FilesAre ==
  /\ disk \in [Nodes -> Disks] /\ kept = [n \in Nodes |-> kept[n]] /\ \A n \in Nodes : Files(kept[n])

\* Every record says how to take its act back, and a request is about a record there is, whose
\* inverse has run once it says so.
UndoInv ==
  /\ FilesAre
  /\ second \in 0..MaxSeconds /\ acts \in 0..MaxActs /\ asks \in 0..MaxAsks
  /\ inverses \in Seq(Records) /\ \A i \in 1..Len(inverses) : IsRight(inverses[i])
  /\ requests \in [Undoers -> Requests]
  /\ \A u \in Undoers :
       /\ requests[u].record <= Len(inverses)
       /\ requests[u].phase # "idle" =>
            requests[u].record \in 1..Len(inverses) /\ requests[u].node \in Nodes
       /\ requests[u].phase = "ok" => <<requests[u].record, requests[u].node>> \in ran
  /\ Undo!OnlyUndoneLeaves

\* Writing leaves the files as asked for, and what was there as a version.
LEMMA Writes ==
  ASSUME disk \in [Nodes -> Disks], NEW n \in Nodes, Files(kept[n]), NEW p \in Paths,
         NEW v \in Contents, NEW e, e = Undo!write(n, p, v)
  PROVE  /\ e.disk = [disk[n] EXCEPT ![p] = v] /\ e.disk \in Disks /\ Files(e.kept)
         /\ e.inverse = [op |-> "file.restore", path |-> p, content |-> disk[n][p]]
         /\ Saved(n, e.disk, e.kept)
<1> DEFINE before == disk[n][p]
           d == [disk[n] EXCEPT ![p] = v]
           key == <<"versions", second, p>>
           aside == Undo!put(kept[n], key, before)
           k == IF before = Undo!Nothing THEN kept[n] ELSE aside
<1>1. e.disk = d /\ e.kept = k
      /\ e.inverse = [op |-> "file.restore", path |-> p, content |-> before]
  BY DEF Undo!write, Undo!After
<1>2. disk[n] \in Disks /\ d \in Disks /\ before \in Contents
      /\ \A q \in Paths : d[q] = IF q = p THEN v ELSE disk[n][q]
  BY DEF Disks
<1> HIDE DEF key
<1>3. DOMAIN aside = DOMAIN kept[n] \cup {key}
      /\ \A x \in DOMAIN kept[n] \cup {key} : aside[x] = IF x = key THEN before ELSE kept[n][x]
  BY DEF Undo!put
<1> HIDE DEF before, d, aside
<1>4. Files(k)
  BY <1>2, <1>3 DEF Files
<1>5. Saved(n, d, k)
  <2>1. CASE before = Undo!Nothing
    BY <1>2, <2>1 DEF Saved, before
  <2>2. CASE before # Undo!Nothing /\ key \in DOMAIN kept[n] /\ kept[n][key] # before
    BY <1>3, <2>2 DEF Saved
  <2>3. CASE before # Undo!Nothing /\ (key \in DOMAIN kept[n] => kept[n][key] = before)
    BY <1>2, <1>3, <2>3 DEF Saved, before
  <2> QED
    BY <2>1, <2>2, <2>3
<1> QED
  BY <1>1, <1>2, <1>4, <1>5 DEF d, before

\* So does deleting, with the quarantine.
LEMMA Deletes ==
  ASSUME disk \in [Nodes -> Disks], MaxActs \in Nat, NEW n \in Nodes, Files(kept[n]),
         NEW p \in Paths, disk[n][p] # Undo!Nothing, NEW e, e = Undo!delete(n, p)
  PROVE  /\ e.disk = [disk[n] EXCEPT ![p] = Undo!Nothing] /\ e.disk \in Disks /\ Files(e.kept)
         /\ e.inverse = [op |-> "file.restore_from_trash", src |-> <<"trash", second, p>>, dst |-> p]
         /\ Saved(n, e.disk, e.kept)
<1> DEFINE before == disk[n][p]
           d == [disk[n] EXCEPT ![p] = Undo!Nothing]
           key == <<"trash", second, p>>
           k == Undo!put(kept[n], key, before)
<1>1. e.disk = d /\ e.kept = k
      /\ e.inverse = [op |-> "file.restore_from_trash", src |-> <<"trash", second, p>>, dst |-> p]
  BY DEF Undo!delete, Undo!After
<1>2. disk[n] \in Disks /\ d \in Disks /\ before \in Contents
      /\ \A q \in Paths : d[q] = IF q = p THEN Undo!Nothing ELSE disk[n][q]
  BY DEF Disks, Contents, Undo!Nothing
<1> HIDE DEF key
<1>3. DOMAIN k = DOMAIN kept[n] \cup {key}
      /\ \A x \in DOMAIN kept[n] \cup {key} : k[x] = IF x = key THEN before ELSE kept[n][x]
  BY DEF Undo!put
<1> HIDE DEF before, d, k
<1>4. Files(k)
  BY <1>2, <1>3 DEF Files
<1>5. Saved(n, d, k)
  <2>1. CASE key \in DOMAIN kept[n] /\ kept[n][key] # before
    BY <1>3, <2>1 DEF Saved
  <2>2. CASE key \in DOMAIN kept[n] => kept[n][key] = before
    BY <1>2, <1>3, <2>2 DEF Saved, before
  <2> QED
    BY <2>1, <2>2
<1> QED
  BY <1>1, <1>2, <1>4, <1>5 DEF d

\* Moving and copying put a file in another's place.
LEMMA Moves ==
  ASSUME disk \in [Nodes -> Disks], MaxActs \in Nat, NEW n \in Nodes, Files(kept[n]),
         NEW p \in Paths, NEW q \in Paths \ {p}, disk[n][p] # Undo!Nothing,
         NEW e, e = Undo!move(n, p, q)
  PROVE  /\ e.disk = [disk[n] EXCEPT ![q] = disk[n][p], ![p] = Undo!Nothing]
         /\ e.disk \in Disks /\ Files(e.kept)
         /\ e.inverse = [op |-> "file.move", src |-> q, dst |-> p]
         /\ Saved(n, e.disk, e.kept)
<1>1. disk[n] \in Disks /\ disk[n][p] \in Contents /\ Undo!Nothing \in Contents
  BY DEF Disks, Contents, Undo!Nothing
<1> DEFINE d == [disk[n] EXCEPT ![q] = disk[n][p], ![p] = Undo!Nothing]
<1>2. e.disk = d /\ e.kept = kept[n] /\ e.inverse = [op |-> "file.move", src |-> q, dst |-> p]
  BY DEF Undo!move, Undo!After
<1>3. d \in Disks
  BY <1>1 DEF Disks
<1>4. \A r \in Paths : d[r] = IF r = p THEN Undo!Nothing ELSE IF r = q THEN disk[n][p] ELSE disk[n][r]
  BY <1>1 DEF Disks
<1> HIDE DEF d
<1>5. CASE disk[n][q] # Undo!Nothing
  <2>1. Saved(n, d, kept[n])
    BY <1>4, <1>5 DEF Saved
  <2> QED
    BY <1>2, <1>3, <2>1 DEF d
<1>6. CASE disk[n][q] = Undo!Nothing
  <2>1. Saved(n, d, kept[n])
    BY <1>4, <1>6 DEF Saved
  <2> QED
    BY <1>2, <1>3, <2>1 DEF d
<1> QED
  BY <1>5, <1>6

\* A copy leaves the original where it is.
LEMMA Copies ==
  ASSUME disk \in [Nodes -> Disks], NEW n \in Nodes, Files(kept[n]),
         NEW p \in Paths, NEW q \in Paths \ {p}, disk[n][p] # Undo!Nothing,
         NEW e, e = Undo!copy(n, p, q)
  PROVE  /\ e.disk = [disk[n] EXCEPT ![q] = disk[n][p]]
         /\ e.disk \in Disks /\ Files(e.kept)
         /\ e.inverse = [op |-> "file.delete", path |-> q]
         /\ Saved(n, e.disk, e.kept)
<1>1. disk[n] \in Disks /\ disk[n][p] \in Contents
  BY DEF Disks
<1> DEFINE d == [disk[n] EXCEPT ![q] = disk[n][p]]
<1>2. e.disk = d /\ e.kept = kept[n] /\ e.inverse = [op |-> "file.delete", path |-> q]
  BY DEF Undo!copy, Undo!After
<1>3. d \in Disks
  BY <1>1 DEF Disks
<1>4. \A r \in Paths : d[r] = IF r = q THEN disk[n][p] ELSE disk[n][r]
  BY <1>1 DEF Disks
<1> HIDE DEF d
<1>5. Saved(n, d, kept[n])
  <2>1. CASE disk[n][q] # Undo!Nothing
    BY <1>4, <2>1 DEF Saved
  <2>2. CASE disk[n][q] = Undo!Nothing
    BY <1>4, <2>2 DEF Saved
  <2> QED
    BY <2>1, <2>2
<1> QED
  BY <1>2, <1>3, <1>5 DEF d

\* An act leaves the files well, loses nothing unversioned and says how to take it back.
LEMMA ActsAreReversible ==
  ASSUME disk \in [Nodes -> Disks], MaxActs \in Nat, second \in Nat, acts \in 0..MaxActs,
         acts < MaxActs, NEW n \in Nodes, Files(kept[n]), NEW e \in Undo!effects(n)
  PROVE  /\ e.disk \in Disks /\ Files(e.kept) /\ Saved(n, e.disk, e.kept)
         /\ Reverses(e.inverse, disk[n], e.disk) /\ e.inverse \in Descriptions
<1>0. acts + 1 \in Contents
  BY DEF Contents
<1>1. ASSUME NEW p \in Paths, e = Undo!write(n, p, acts + 1)
      PROVE  /\ e.disk \in Disks /\ Files(e.kept) /\ Saved(n, e.disk, e.kept)
             /\ Reverses(e.inverse, disk[n], e.disk) /\ e.inverse \in Descriptions
  <2> DEFINE v == acts + 1
  <2>1. v \in Contents /\ e = Undo!write(n, p, v)
    BY <1>0, <1>1
  <2> HIDE DEF v
  <2>2. /\ e.disk = [disk[n] EXCEPT ![p] = v] /\ e.disk \in Disks /\ Files(e.kept)
        /\ e.inverse = [op |-> "file.restore", path |-> p, content |-> disk[n][p]]
        /\ Saved(n, e.disk, e.kept)
    BY <2>1, Writes
  <2>3. disk[n][p] \in Contents
    BY DEF Disks
  <2>4. e.inverse \in Descriptions
    BY <2>2, <2>3 DEF Descriptions
  <2> QED
    BY <2>1, <2>2, <2>4 DEF Reverses
<1>2. ASSUME NEW p \in Paths, disk[n][p] # Undo!Nothing, e = Undo!delete(n, p)
      PROVE  /\ e.disk \in Disks /\ Files(e.kept) /\ Saved(n, e.disk, e.kept)
             /\ Reverses(e.inverse, disk[n], e.disk) /\ e.inverse \in Descriptions
  <2>1. /\ e.disk = [disk[n] EXCEPT ![p] = Undo!Nothing] /\ e.disk \in Disks /\ Files(e.kept)
        /\ e.inverse = [op |-> "file.restore_from_trash", src |-> <<"trash", second, p>>, dst |-> p]
        /\ Saved(n, e.disk, e.kept)
    BY <1>2, Deletes
  <2>2. e.inverse \in Descriptions
    BY <2>1 DEF Descriptions
  <2> QED
    BY <2>1, <2>2 DEF Reverses
<1>3. ASSUME NEW p \in Paths, NEW q \in Paths \ {p}, disk[n][p] # Undo!Nothing,
             e \in {Undo!move(n, p, q), Undo!copy(n, p, q)}
      PROVE  /\ e.disk \in Disks /\ Files(e.kept) /\ Saved(n, e.disk, e.kept)
             /\ Reverses(e.inverse, disk[n], e.disk) /\ e.inverse \in Descriptions
  <2>1. CASE e = Undo!move(n, p, q)
    <3>1. /\ e.disk = [disk[n] EXCEPT ![q] = disk[n][p], ![p] = Undo!Nothing]
          /\ e.disk \in Disks /\ Files(e.kept)
          /\ e.inverse = [op |-> "file.move", src |-> q, dst |-> p]
          /\ Saved(n, e.disk, e.kept)
      BY <1>3, <2>1, Moves
    <3>2. e.inverse \in Descriptions
      BY <3>1 DEF Descriptions
    <3> QED
      BY <3>1, <3>2, Zenon DEF Reverses
  <2>2. CASE e = Undo!copy(n, p, q)
    <3>1. /\ e.disk = [disk[n] EXCEPT ![q] = disk[n][p]]
          /\ e.disk \in Disks /\ Files(e.kept)
          /\ e.inverse = [op |-> "file.delete", path |-> q]
          /\ Saved(n, e.disk, e.kept)
      BY <1>3, <2>2, Copies
    <3>2. e.inverse \in Descriptions
      BY <3>1 DEF Descriptions
    <3> QED
      BY <3>1, <3>2 DEF Reverses
  <2> QED
    BY <1>3, <2>1, <2>2
<1> QED
  BY <1>1, <1>2, <1>3 DEF Undo!effects

\* What an inverse does where it is run, and, where its act was done and left the files as they
\* are, that it takes the act back.
LEMMA InversesReverse ==
  ASSUME disk \in [Nodes -> Disks], MaxActs \in Nat, NEW n \in Nodes, Files(kept[n]),
         NEW i \in 1..Len(inverses), inverses[i] \in Records, IsRight(inverses[i]),
         NEW e \in Undo!inverseEffects(n, inverses[i].inverse)
  PROVE  /\ e.disk \in Disks /\ Files(e.kept) /\ Saved(n, e.disk, e.kept)
         /\ n = inverses[i].node /\ disk[n] = inverses[i].after /\ Undo!takesBack(inverses[i]) =>
              e.disk = inverses[i].before
<1> DEFINE inverse == inverses[i].inverse
           before == inverses[i].before
           after == inverses[i].after
           Goal == /\ e.disk \in Disks /\ Files(e.kept) /\ Saved(n, e.disk, e.kept)
                   /\ n = inverses[i].node /\ disk[n] = after /\ Undo!takesBack(inverses[i]) =>
                        e.disk = before
<1>0. before \in Disks /\ after \in Disks /\ Reverses(inverse, before, after)
  BY DEF IsRight, Records
<1>1. e \in Undo!inverseEffects(n, inverse)
  OBVIOUS
<1>2. Undo!takesBack(inverses[i]) <=>
        CASE inverse.op = "file.move" -> before[inverse.src] = Undo!Nothing
          [] inverse.op = "file.delete" -> before[inverse.path] = Undo!Nothing
          [] inverse.op = "file.restore_from_trash" ->
               /\ inverse.src \in DOMAIN kept[inverses[i].node]
               /\ kept[inverses[i].node][inverse.src] = before[inverse.dst]
          [] OTHER -> TRUE
  BY DEF Undo!takesBack
<1> HIDE DEF inverse, before, after
<1>3. ASSUME NEW p \in Paths, NEW v \in Contents,
             inverse = [op |-> "file.restore", path |-> p, content |-> before[p]],
             after = [before EXCEPT ![p] = v]
      PROVE  Goal
  <2> DEFINE w == before[p]
  <2>0. w \in Contents /\ inverse.op = "file.restore" /\ inverse.path = p /\ inverse.content = w
    BY <1>0, <1>3 DEF Disks
  <2>1. ASSUME NEW d \in Disks, d = [disk[n] EXCEPT ![p] = w], disk[n] = after PROVE d = before
    BY <1>0, <1>3, <2>1 DEF Disks
  <2>2. \/ e = Undo!write(n, p, w)
        \/ w = Undo!Nothing /\ disk[n][p] # Undo!Nothing /\ e = Undo!delete(n, p)
    BY <1>1, <2>0 DEF Undo!inverseEffects
  <2> HIDE DEF w
  <2>3. e.disk \in Disks /\ Files(e.kept) /\ Saved(n, e.disk, e.kept)
        /\ e.disk = [disk[n] EXCEPT ![p] = w]
    <3>1. CASE e = Undo!write(n, p, w)
      <4>1. /\ e.disk = [disk[n] EXCEPT ![p] = w] /\ e.disk \in Disks /\ Files(e.kept)
            /\ e.inverse = [op |-> "file.restore", path |-> p, content |-> disk[n][p]]
            /\ Saved(n, e.disk, e.kept)
        BY <2>0, <3>1, Writes
      <4> QED
        BY <4>1
    <3>2. CASE w = Undo!Nothing /\ disk[n][p] # Undo!Nothing /\ e = Undo!delete(n, p)
      BY <3>2, Deletes
    <3> QED
      BY <2>2, <3>1, <3>2
  <2> QED
    BY <2>1, <2>3
<1>4. ASSUME NEW p \in Paths, NEW s \in Nat,
             inverse = [op |-> "file.restore_from_trash", src |-> <<"trash", s, p>>, dst |-> p],
             after = [before EXCEPT ![p] = Undo!Nothing]
      PROVE  Goal
  <2> DEFINE src == <<"trash", s, p>>
             d == [disk[n] EXCEPT ![p] = kept[n][src]]
             k == [x \in DOMAIN kept[n] \ {src} |-> kept[n][x]]
  <2>0. inverse.op = "file.restore_from_trash" /\ inverse.src = src /\ inverse.dst = p /\ src[3] = p
    BY <1>4
  <2> HIDE DEF src
  <2>1. src \in DOMAIN kept[n] /\ e.disk = d /\ e.kept = k
    BY <1>1, <2>0 DEF Undo!inverseEffects, Undo!After
  <2>2. /\ kept[n][src] \in Contents /\ d \in Disks /\ DOMAIN k = DOMAIN kept[n] \ {src}
        /\ \A q \in Paths : d[q] = IF q = p THEN kept[n][src] ELSE disk[n][q]
        /\ \A x \in DOMAIN k : k[x] = kept[n][x]
    <3>1. kept[n][src] \in Contents
      BY <2>1 DEF Files
    <3> QED
      BY <3>1 DEF Disks
  <2>3. n = inverses[i].node /\ Undo!takesBack(inverses[i]) => kept[n][src] = before[p]
    BY <1>2, <2>0
  <2>4. disk[n] = after /\ kept[n][src] = before[p] => d = before
    BY <1>0, <1>4 DEF Disks
  <2> HIDE DEF d, k
  <2>5. Files(k)
    BY <2>2 DEF Files
  <2>6. Saved(n, d, k)
    <3>1. CASE disk[n][p] # Undo!Nothing
      BY <2>0, <2>1, <2>2, <3>1 DEF Saved
    <3>2. CASE disk[n][p] = Undo!Nothing
      BY <2>1, <2>2, <3>2 DEF Saved
    <3> QED
      BY <3>1, <3>2
  <2> QED
    BY <2>1, <2>2, <2>3, <2>4, <2>5, <2>6
<1>5. ASSUME NEW p \in Paths, NEW q \in Paths \ {p},
             inverse = [op |-> "file.move", src |-> q, dst |-> p],
             after = [before EXCEPT ![q] = before[p], ![p] = Undo!Nothing]
      PROVE  Goal
  <2>0. inverse.op = "file.move" /\ inverse.src = q /\ inverse.dst = p
    BY <1>5
  <2>1. disk[n][q] # Undo!Nothing /\ e = Undo!move(n, q, p)
    BY <1>1, <2>0 DEF Undo!inverseEffects
  <2>2. e.disk \in Disks /\ Files(e.kept) /\ Saved(n, e.disk, e.kept)
    BY <2>1, Moves
  <2>3. e.disk = [disk[n] EXCEPT ![p] = disk[n][q], ![q] = Undo!Nothing]
    BY <2>1 DEF Undo!move, Undo!After
  <2>4. Undo!takesBack(inverses[i]) => before[q] = Undo!Nothing
    BY <1>2, <2>0
  <2>5. disk[n] = after /\ before[q] = Undo!Nothing => e.disk = before
    BY <1>0, <1>5, <2>2, <2>3 DEF Disks
  <2> QED
    BY <2>2, <2>4, <2>5
<1>6. ASSUME NEW p \in Paths, NEW q \in Paths \ {p},
             inverse = [op |-> "file.delete", path |-> q], after = [before EXCEPT ![q] = before[p]]
      PROVE  Goal
  <2>0. inverse.op = "file.delete" /\ inverse.path = q
    BY <1>6
  <2>1. disk[n][q] # Undo!Nothing /\ e = Undo!delete(n, q)
    BY <1>1, <2>0 DEF Undo!inverseEffects
  <2>2. e.disk \in Disks /\ Files(e.kept) /\ Saved(n, e.disk, e.kept)
        /\ e.disk = [disk[n] EXCEPT ![q] = Undo!Nothing]
    BY <2>1, Deletes
  <2>3. Undo!takesBack(inverses[i]) => before[q] = Undo!Nothing
    BY <1>2, <2>0
  <2>4. disk[n] = after /\ before[q] = Undo!Nothing => e.disk = before
    BY <1>0, <1>6, <2>2 DEF Disks
  <2> QED
    BY <2>2, <2>3, <2>4
<1>7. Goal
  BY <1>0, <1>3, <1>4, <1>5, <1>6 DEF Reverses
<1> QED
  BY <1>7 DEF before, after

\* What a step of a caller leaves of the requests.
LEMMA RequestsStay ==
  ASSUME UndoInv, NEW u \in Undoers, NEW next \in Requests,
         requests' = [requests EXCEPT ![u] = next],
         Len(inverses') = Len(inverses), ran \subseteq ran',
         next.record <= Len(inverses),
         next.phase # "idle" => next.record \in 1..Len(inverses) /\ next.node \in Nodes,
         next.phase = "ok" => <<next.record, next.node>> \in ran'
  PROVE  /\ requests' \in [Undoers -> Requests]
         /\ \A v \in Undoers :
              /\ requests'[v].record <= Len(inverses')
              /\ requests'[v].phase # "idle" =>
                   requests'[v].record \in 1..Len(inverses') /\ requests'[v].node \in Nodes
              /\ requests'[v].phase = "ok" => <<requests'[v].record, requests'[v].node>> \in ran'
<1>1. requests \in [Undoers -> Requests]
  BY DEF UndoInv
<1>2. \A v \in Undoers : requests'[v] = IF v = u THEN next ELSE requests[v]
  BY <1>1
<1>3. requests' \in [Undoers -> Requests]
  BY <1>1
<1> QED
  BY <1>2, <1>3 DEF UndoInv

\* A record that is run or expires says what it said.
LEMMA RecordsStay ==
  ASSUME UndoInv, NEW i \in 1..Len(inverses), NEW next \in Records,
         next.inverse = inverses[i].inverse, next.before = inverses[i].before,
         next.after = inverses[i].after, inverses' = [inverses EXCEPT ![i] = next]
  PROVE  /\ inverses' \in Seq(Records) /\ Len(inverses') = Len(inverses)
         /\ \A j \in 1..Len(inverses') : IsRight(inverses'[j])
         /\ \A j \in 1..Len(inverses) : inverses'[j] = IF j = i THEN next ELSE inverses[j]
<1>1. inverses \in Seq(Records)
  BY DEF UndoInv
<1>2. /\ inverses' \in Seq(Records) /\ Len(inverses') = Len(inverses)
      /\ \A j \in 1..Len(inverses) : inverses'[j] = IF j = i THEN next ELSE inverses[j]
  BY <1>1
<1>3. ASSUME NEW j \in 1..Len(inverses) PROVE IsRight(inverses'[j])
  <2>1. IsRight(inverses[j])
    BY DEF UndoInv
  <2>2. /\ inverses'[j].inverse = inverses[j].inverse
        /\ inverses'[j].before = inverses[j].before /\ inverses'[j].after = inverses[j].after
    BY <1>2
  <2> QED
    BY <2>1, <2>2 DEF IsRight
<1> QED
  BY <1>2, <1>3

\* The files stay what they are when nothing touches them.
LEMMA FilesStay == FilesAre /\ UNCHANGED <<disk, kept>> => FilesAre'
BY DEF FilesAre, Files, Disks, Contents

\* A node whose files change to others.
LEMMA FilesChange ==
  ASSUME FilesAre, NEW n \in Nodes, NEW e, e.disk \in Disks, Files(e.kept), Undo!Affect(n, e)
  PROVE  FilesAre'
<1>1. disk' = [disk EXCEPT ![n] = e.disk] /\ kept' = [kept EXCEPT ![n] = e.kept]
  BY DEF Undo!Affect
<1>2. disk' \in [Nodes -> Disks]
  BY <1>1 DEF FilesAre
<1>3. DOMAIN kept = Nodes
  BY DEF FilesAre
<1>4. kept' = [m \in Nodes |-> kept'[m]] /\ \A m \in Nodes : kept'[m] = IF m = n THEN e.kept ELSE kept[m]
  BY <1>1, <1>3
<1>5. ASSUME NEW m \in Nodes PROVE Files(kept'[m])
  BY <1>4 DEF FilesAre
<1> QED
  BY <1>2, <1>4, <1>5 DEF FilesAre, Files, Disks, Contents

\* Every act, tick, request and answer keeps it.
LEMMA UndoStep == UndoInv /\ [Undo!Next]_undoVars => UndoInv'
<1> SUFFICES ASSUME UndoInv, [Undo!Next]_undoVars PROVE UndoInv'
  OBVIOUS
<1>0. /\ FilesAre /\ inverses \in Seq(Records) /\ Len(inverses) \in Nat
      /\ \A i \in 1..Len(inverses) : IsRight(inverses[i])
      /\ second \in 0..MaxSeconds /\ acts \in 0..MaxActs /\ asks \in 0..MaxAsks
      /\ requests \in [Undoers -> Requests] /\ Undo!OnlyUndoneLeaves
  BY DEF UndoInv
<1>01. \A u \in Undoers :
         /\ requests[u] \in Requests /\ requests[u].record \in Nat
         /\ requests[u].record <= Len(inverses)
         /\ requests[u].phase # "idle" =>
              requests[u].record \in 1..Len(inverses) /\ requests[u].node \in Nodes
         /\ requests[u].phase = "ok" => <<requests[u].record, requests[u].node>> \in ran
  BY DEF UndoInv, Requests
<1>02. MaxActs \in Nat /\ MaxSeconds \in Nat /\ MaxAsks \in Nat
  BY CoreAssumption
<1>1. ASSUME NEW n \in Nodes, Undo!Act(n) PROVE UndoInv'
  <2>1. PICK e \in Undo!effects(n) : Undo!Affect(n, e) /\ inverses' = Append(inverses, Undo!record(n, e))
    BY <1>1 DEF Undo!Act
  <2>2. acts < MaxActs /\ acts' = acts + 1 /\ UNCHANGED <<second, asks, requests, ran>>
    BY <1>1 DEF Undo!Act
  <2>3. /\ e.disk \in Disks /\ Files(e.kept) /\ Reverses(e.inverse, disk[n], e.disk)
        /\ e.inverse \in Descriptions /\ disk[n] \in Disks
    BY <1>0, <1>02, <2>2, ActsAreReversible DEF FilesAre
  <2>4. FilesAre'
    BY <1>0, <2>1, <2>3, FilesChange
  <2> DEFINE r == Undo!record(n, e)
  <2>5. r \in Records /\ IsRight(r) /\ r.live
    BY <2>3 DEF Undo!record, Records, IsRight
  <2> HIDE DEF r
  <2>6. /\ inverses' \in Seq(Records) /\ Len(inverses') = Len(inverses) + 1
        /\ \A i \in 1..Len(inverses) : inverses'[i] = inverses[i]
        /\ inverses'[Len(inverses) + 1] = r
    BY <1>0, <2>1, <2>5 DEF r
  <2>7. \A i \in 1..Len(inverses') : i \in 1..Len(inverses) \/ i = Len(inverses) + 1
    BY <1>0, <2>6
  <2>8. \A i \in 1..Len(inverses') : IsRight(inverses'[i])
    BY <1>0, <2>5, <2>6, <2>7
  <2>9. Undo!OnlyUndoneLeaves'
    BY <1>0, <2>2, <2>5, <2>6, <2>7 DEF Undo!OnlyUndoneLeaves
  <2>10. acts' \in 0..MaxActs /\ second' \in 0..MaxSeconds /\ asks' \in 0..MaxAsks
    BY <1>0, <1>02, <2>2
  <2>11. \A u \in Undoers :
           /\ requests'[u].record <= Len(inverses')
           /\ requests'[u].phase # "idle" =>
                requests'[u].record \in 1..Len(inverses') /\ requests'[u].node \in Nodes
           /\ requests'[u].phase = "ok" => <<requests'[u].record, requests'[u].node>> \in ran'
    BY <1>0, <1>01, <2>2, <2>6
  <2> QED
    BY <1>0, <2>2, <2>4, <2>6, <2>8, <2>9, <2>10, <2>11 DEF UndoInv, Requests
<1>2. ASSUME NEW n \in Nodes, Undo!ActUnrecorded(n) PROVE UndoInv'
  <2>1. PICK e \in Undo!effects(n) : Undo!Affect(n, e)
    BY <1>2 DEF Undo!ActUnrecorded
  <2>2. acts < MaxActs /\ acts' = acts + 1 /\ UNCHANGED <<second, asks, inverses, requests, ran>>
    BY <1>2 DEF Undo!ActUnrecorded
  <2>3. e.disk \in Disks /\ Files(e.kept)
    BY <1>0, <1>02, <2>2, ActsAreReversible DEF FilesAre
  <2>4. FilesAre'
    BY <1>0, <2>1, <2>3, FilesChange
  <2>5. acts' \in 0..MaxActs
    BY <1>0, <1>02, <2>2
  <2>6. Undo!OnlyUndoneLeaves'
    BY <1>0, <2>2 DEF Undo!OnlyUndoneLeaves
  <2> QED
    BY <1>0, <1>01, <2>2, <2>4, <2>5, <2>6 DEF UndoInv, IsRight, Requests, Records
<1>3. CASE Undo!Tick
  <2>1. second' \in 0..MaxSeconds /\ UNCHANGED <<disk, kept, acts, asks, inverses, requests, ran>>
    BY <1>0, <1>02, <1>3 DEF Undo!Tick
  <2>2. FilesAre' /\ Undo!OnlyUndoneLeaves'
    BY <1>0, <2>1, FilesStay DEF Undo!OnlyUndoneLeaves
  <2> QED
    BY <1>0, <1>01, <2>1, <2>2 DEF UndoInv
<1>4. CASE Undo!Expire
  <2>1. PICK i \in 1..Len(inverses) : inverses' = [inverses EXCEPT ![i].expired = TRUE]
    BY <1>4 DEF Undo!Expire
  <2>2. UNCHANGED <<disk, kept, second, acts, asks, requests, ran>>
    BY <1>4 DEF Undo!Expire
  <2> DEFINE next == [inverses[i] EXCEPT !.expired = TRUE]
  <2>3. inverses[i] \in Records
    BY <1>0
  <2>4. /\ next \in Records /\ next.inverse = inverses[i].inverse /\ next.live = inverses[i].live
        /\ next.before = inverses[i].before /\ next.after = inverses[i].after
    BY <2>3 DEF Records
  <2>5. inverses' = [inverses EXCEPT ![i] = next]
    BY <2>1
  <2> HIDE DEF next
  <2>6. /\ inverses' \in Seq(Records) /\ Len(inverses') = Len(inverses)
        /\ \A j \in 1..Len(inverses') : IsRight(inverses'[j])
        /\ \A j \in 1..Len(inverses) : inverses'[j] = IF j = i THEN next ELSE inverses[j]
    BY <2>4, <2>5, RecordsStay
  <2>7. FilesAre' /\ Undo!OnlyUndoneLeaves'
    BY <1>0, <2>2, <2>4, <2>6, FilesStay DEF Undo!OnlyUndoneLeaves
  <2> QED
    BY <1>0, <1>01, <2>2, <2>6, <2>7 DEF UndoInv
<1>5. ASSUME NEW u \in Undoers, Undo!Ask(u) PROVE UndoInv'
  <2>1. PICK i \in {j \in 1..Len(inverses) : Undo!found(j)}, n \in Nodes :
          requests' = [requests EXCEPT ![u] = [record |-> i, node |-> n, phase |-> "sent"]]
    BY <1>5 DEF Undo!Ask
  <2>2. asks < MaxAsks /\ asks' = asks + 1 /\ UNCHANGED <<disk, kept, second, acts, inverses, ran>>
    BY <1>5 DEF Undo!Ask
  <2> DEFINE next == [record |-> i, node |-> n, phase |-> "sent"]
  <2>3. /\ next \in Requests /\ next.record = i /\ next.node = n /\ next.phase = "sent"
        /\ i \in 1..Len(inverses) /\ i <= Len(inverses)
    <3>1. i \in 1..Len(inverses) /\ i <= Len(inverses) /\ i \in Nat /\ n \in Nodes
      BY <1>0
    <3> QED
      BY <3>1 DEF Requests
  <2>4. requests' = [requests EXCEPT ![u] = next]
    BY <2>1
  <2> HIDE DEF next
  <2>5. /\ requests' \in [Undoers -> Requests]
        /\ \A v \in Undoers :
             /\ requests'[v].record <= Len(inverses')
             /\ requests'[v].phase # "idle" =>
                  requests'[v].record \in 1..Len(inverses') /\ requests'[v].node \in Nodes
             /\ requests'[v].phase = "ok" => <<requests'[v].record, requests'[v].node>> \in ran'
    BY <2>2, <2>3, <2>4, RequestsStay
  <2>6. FilesAre' /\ Undo!OnlyUndoneLeaves' /\ asks' \in 0..MaxAsks
    <3>1. asks' \in 0..MaxAsks
      BY <1>0, <1>02, <2>2
    <3>2. FilesAre'
      BY <1>0, <2>2, FilesStay
    <3>3. Undo!OnlyUndoneLeaves'
      BY <1>0, <2>2 DEF Undo!OnlyUndoneLeaves
    <3> QED
      BY <3>1, <3>2, <3>3
  <2> QED
    BY <1>0, <2>2, <2>5, <2>6 DEF UndoInv
<1>6. ASSUME NEW u \in Undoers, Undo!Inverted(u) PROVE UndoInv'
  <2> DEFINE r == requests[u]
             es == Undo!inverseEffects(r.node, inverses[r.record].inverse)
  <2>1. /\ r.phase = "sent" /\ UNCHANGED <<second, acts, asks, inverses>>
        /\ \/ requests' = [requests EXCEPT ![u].phase = "failed"] /\ UNCHANGED <<disk, kept, ran>>
           \/ /\ \E e \in es : Undo!Affect(r.node, e)
              /\ requests' = [requests EXCEPT ![u].phase = "ok"]
              /\ ran' = ran \cup {<<r.record, r.node>>}
    BY <1>6 DEF Undo!Inverted
  <2>2. r \in Requests /\ r.record \in 1..Len(inverses) /\ r.node \in Nodes /\ r.record <= Len(inverses)
    BY <1>0, <1>01, <2>1
  <2>3. PICK phase \in {"failed", "ok"} :
          requests' = [requests EXCEPT ![u] = [r EXCEPT !.phase = phase]]
          /\ (phase = "ok" => <<r.record, r.node>> \in ran')
    BY <2>1
  <2> DEFINE next == [r EXCEPT !.phase = phase]
  <2>4. next \in Requests /\ next.record = r.record /\ next.node = r.node /\ next.phase = phase
    BY <2>2 DEF Requests
  <2>5. requests' = [requests EXCEPT ![u] = next] /\ ran \subseteq ran'
    BY <2>1, <2>3
  <2>6. FilesAre'
    <3>1. CASE UNCHANGED <<disk, kept, ran>>
      BY <1>0, <3>1, FilesStay
    <3>2. ASSUME NEW e \in es, Undo!Affect(r.node, e) PROVE FilesAre'
      <4> DEFINE n == r.node
                 i == r.record
      <4>1. /\ n \in Nodes /\ i \in 1..Len(inverses) /\ Undo!Affect(n, e)
            /\ e \in Undo!inverseEffects(n, inverses[i].inverse)
        BY <2>2, <3>2
      <4> HIDE DEF n, i, r, es
      <4>2. inverses[i] \in Records /\ IsRight(inverses[i])
        BY <1>0, <4>1
      <4>3. e.disk \in Disks /\ Files(e.kept)
        BY <1>0, <1>02, <4>1, <4>2, InversesReverse DEF FilesAre
      <4> QED
        BY <1>0, <4>1, <4>3, FilesChange
    <3> QED
      BY <2>1, <3>1, <3>2
  <2> HIDE DEF next, r, es
  <2>7. /\ requests' \in [Undoers -> Requests]
        /\ \A v \in Undoers :
             /\ requests'[v].record <= Len(inverses')
             /\ requests'[v].phase # "idle" =>
                  requests'[v].record \in 1..Len(inverses') /\ requests'[v].node \in Nodes
             /\ requests'[v].phase = "ok" => <<requests'[v].record, requests'[v].node>> \in ran'
    BY <2>1, <2>2, <2>3, <2>4, <2>5, RequestsStay
  <2>8. Undo!OnlyUndoneLeaves'
    BY <1>0, <2>1, <2>5 DEF Undo!OnlyUndoneLeaves
  <2> QED
    BY <1>0, <2>1, <2>6, <2>7, <2>8 DEF UndoInv
<1>7. ASSUME NEW u \in Undoers, Undo!Answered(u) \/ Undo!Unanswered(u) PROVE UndoInv'
  <2>0. Undo!Idle \in Requests /\ Undo!Idle.record = 0 /\ Undo!Idle.phase = "idle"
    BY DEF Undo!Idle, Requests
  <2>1. /\ requests[u].phase \in {"ok", "failed"} /\ requests' = [requests EXCEPT ![u] = Undo!Idle]
        /\ UNCHANGED <<disk, kept, second, acts, asks, ran>>
    BY <1>7 DEF Undo!Answered, Undo!Unanswered
  <2> DEFINE i == requests[u].record
             next == [inverses[i] EXCEPT !.live = FALSE]
  <2>2. i \in 1..Len(inverses) /\ requests[u].node \in Nodes
    BY <1>01, <2>1
  <2>3. \/ inverses' = inverses
        \/ requests[u].phase = "ok" /\ inverses' = [inverses EXCEPT ![i] = next]
    BY <1>7 DEF Undo!Answered, Undo!Unanswered
  <2>4. /\ next \in Records /\ next.inverse = inverses[i].inverse
        /\ next.before = inverses[i].before /\ next.after = inverses[i].after
    <3>1. inverses[i] \in Records
      BY <1>0, <2>2
    <3> QED
      BY <3>1 DEF Records
  <2> HIDE DEF next
  <2>5. /\ inverses' \in Seq(Records) /\ Len(inverses') = Len(inverses)
        /\ \A j \in 1..Len(inverses') : IsRight(inverses'[j])
        /\ \A j \in 1..Len(inverses) :
             inverses'[j] = inverses[j] \/ (requests[u].phase = "ok" /\ j = i)
    <3>1. CASE inverses' = inverses
      BY <1>0, <3>1
    <3>2. CASE requests[u].phase = "ok" /\ inverses' = [inverses EXCEPT ![i] = next]
      <4> HIDE DEF i
      <4>1. /\ inverses' \in Seq(Records) /\ Len(inverses') = Len(inverses)
            /\ \A j \in 1..Len(inverses') : IsRight(inverses'[j])
            /\ \A j \in 1..Len(inverses) : inverses'[j] = IF j = i THEN next ELSE inverses[j]
        BY <2>2, <2>4, <3>2, RecordsStay
      <4> QED
        BY <3>2, <4>1
    <3> QED
      BY <2>3, <3>1, <3>2
  <2>6. /\ requests' \in [Undoers -> Requests]
        /\ \A v \in Undoers :
             /\ requests'[v].record <= Len(inverses')
             /\ requests'[v].phase # "idle" =>
                  requests'[v].record \in 1..Len(inverses') /\ requests'[v].node \in Nodes
             /\ requests'[v].phase = "ok" => <<requests'[v].record, requests'[v].node>> \in ran'
    <3>1. 0 <= Len(inverses)
      BY <1>0
    <3> QED
      BY <2>0, <2>1, <2>5, <3>1, RequestsStay
  <2>7. Undo!OnlyUndoneLeaves'
    BY <1>0, <1>01, <2>1, <2>2, <2>5 DEF Undo!OnlyUndoneLeaves
  <2>8. FilesAre'
    BY <1>0, <2>1, FilesStay
  <2> QED
    BY <1>0, <2>1, <2>5, <2>6, <2>7, <2>8 DEF UndoInv
<1>8. CASE UNCHANGED undoVars
  <2>1. UNCHANGED <<disk, kept, second, acts, asks, inverses, requests, ran>>
    BY <1>8 DEF undoVars
  <2>2. FilesAre' /\ Undo!OnlyUndoneLeaves'
    BY <1>0, <2>1, FilesStay DEF Undo!OnlyUndoneLeaves
  <2> QED
    BY <1>0, <1>01, <2>1, <2>2 DEF UndoInv
<1> QED
  BY <1>1, <1>2, <1>3, <1>4, <1>5, <1>6, <1>7, <1>8 DEF Undo!Next

\* What becomes of the files of each node in a step is Saved.
LEMMA StepSaves ==
  ASSUME UndoInv, [Undo!Next]_undoVars, NEW m \in Nodes
  PROVE  Saved(m, disk'[m], kept'[m])
<1>0. FilesAre /\ MaxActs \in Nat /\ acts \in 0..MaxActs /\ second \in Nat
  BY CoreAssumption DEF UndoInv
<1>1. CASE UNCHANGED <<disk, kept>>
  BY <1>1 DEF Saved
<1>2. ASSUME NEW n \in Nodes, NEW e, Undo!Affect(n, e), Saved(n, e.disk, e.kept)
      PROVE  Saved(m, disk'[m], kept'[m])
  <2>1. disk' = [disk EXCEPT ![n] = e.disk] /\ kept' = [kept EXCEPT ![n] = e.kept]
    BY <1>2 DEF Undo!Affect
  <2>2. disk'[m] = (IF m = n THEN e.disk ELSE disk[m]) /\ kept'[m] = IF m = n THEN e.kept ELSE kept[m]
    BY <1>0, <2>1 DEF FilesAre
  <2>3. CASE m = n
    BY <1>2, <2>2, <2>3
  <2>4. CASE m # n
    BY <2>2, <2>4 DEF Saved
  <2> QED
    BY <2>3, <2>4
<1>3. ASSUME NEW n \in Nodes, Undo!Act(n) \/ Undo!ActUnrecorded(n) PROVE Saved(m, disk'[m], kept'[m])
  <2>1. PICK e \in Undo!effects(n) : Undo!Affect(n, e)
    BY <1>3 DEF Undo!Act, Undo!ActUnrecorded
  <2>2. acts < MaxActs
    BY <1>3 DEF Undo!Act, Undo!ActUnrecorded
  <2>3. Saved(n, e.disk, e.kept)
    BY <1>0, <2>2, ActsAreReversible DEF FilesAre
  <2> QED
    BY <1>2, <2>1, <2>3
<1>4. ASSUME NEW u \in Undoers, Undo!Inverted(u) PROVE Saved(m, disk'[m], kept'[m])
  <2> DEFINE n == requests[u].node
             i == requests[u].record
             es == Undo!inverseEffects(n, inverses[i].inverse)
  <2>1. requests[u].phase = "sent" /\ (UNCHANGED <<disk, kept>> \/ \E e \in es : Undo!Affect(n, e))
    BY <1>4 DEF Undo!Inverted
  <2>2. i \in 1..Len(inverses) /\ n \in Nodes
    BY <2>1 DEF UndoInv
  <2>3. ASSUME NEW e \in es, Undo!Affect(n, e) PROVE Saved(m, disk'[m], kept'[m])
    <3>1. e \in Undo!inverseEffects(n, inverses[i].inverse)
      OBVIOUS
    <3> HIDE DEF n, i, es
    <3>2. inverses[i] \in Records /\ IsRight(inverses[i])
      BY <2>2 DEF UndoInv
    <3>3. Saved(n, e.disk, e.kept)
      BY <1>0, <2>2, <3>1, <3>2, InversesReverse DEF FilesAre
    <3> QED
      BY <1>2, <2>2, <2>3, <3>3
  <2> QED
    BY <1>1, <2>1, <2>3
<1>5. CASE \/ Undo!Tick \/ Undo!Expire \/ UNCHANGED undoVars
           \/ \E u \in Undoers : Undo!Ask(u) \/ Undo!Answered(u) \/ Undo!Unanswered(u)
  BY <1>1, <1>5 DEF Undo!Tick, Undo!Expire, Undo!Ask, Undo!Answered, Undo!Unanswered, undoVars
<1> QED
  BY <1>3, <1>4, <1>5 DEF Undo!Next

\* Only its own inverse answers a request, and it restores what the record says there was.
LEMMA StepRestores ==
  ASSUME UndoInv, [Undo!Next]_undoVars, NEW u \in Undoers, NEW i, i = requests[u].record,
         requests[u].phase = "sent", requests'[u].phase = "ok", requests[u].node = inverses[i].node,
         disk[inverses[i].node] = inverses[i].after, Undo!takesBack(inverses[i])
  PROVE  disk'[inverses[i].node] = inverses[i].before
<1>0. FilesAre /\ MaxActs \in Nat /\ requests \in [Undoers -> Requests]
  BY CoreAssumption DEF UndoInv
<1>1. Undo!Inverted(u)
  <2>1. ASSUME NEW v \in Undoers, Undo!Ask(v) PROVE FALSE
    <3>1. requests[v] = Undo!Idle /\ \E next : requests' = [requests EXCEPT ![v] = next]
      BY <2>1 DEF Undo!Ask
    <3>2. v # u
      <4>1. Undo!Idle.phase = "idle" /\ "idle" # "sent"
        BY DEF Undo!Idle
      <4> QED
        BY <3>1, <4>1, Zenon
    <3>3. requests'[u] = requests[u]
      BY <1>0, <3>1, <3>2
    <3> QED
      BY <3>3
  <2>2. ASSUME NEW v \in Undoers, Undo!Answered(v) \/ Undo!Unanswered(v) PROVE FALSE
    BY <1>0, <2>2 DEF Undo!Answered, Undo!Unanswered, Undo!Idle
  <2>3. ASSUME NEW v \in Undoers, Undo!Inverted(v) PROVE v = u
    BY <1>0, <2>3 DEF Undo!Inverted
  <2>4. CASE UNCHANGED requests
    BY <2>4
  <2>5. ~(Undo!Tick \/ Undo!Expire \/ UNCHANGED undoVars
          \/ \E n \in Nodes : Undo!Act(n) \/ Undo!ActUnrecorded(n))
    BY <2>4 DEF Undo!Tick, Undo!Expire, Undo!Act, Undo!ActUnrecorded, undoVars
  <2> QED
    BY <2>1, <2>2, <2>3, <2>5 DEF Undo!Next
<1> DEFINE n == requests[u].node
           es == Undo!inverseEffects(n, inverses[i].inverse)
<1>2. i \in 1..Len(inverses) /\ n \in Nodes
  BY DEF UndoInv
<1>3. PICK e \in es : Undo!Affect(n, e)
  <2>1. requests' # [requests EXCEPT ![u].phase = "failed"]
    <3>1. requests[u] \in Requests /\ u \in DOMAIN requests
      BY <1>0
    <3>2. [requests EXCEPT ![u].phase = "failed"][u].phase = "failed"
      BY <3>1 DEF Requests
    <3> QED
      BY <3>2
  <2> QED
    BY <1>1, <2>1 DEF Undo!Inverted
<1>4. e \in Undo!inverseEffects(n, inverses[i].inverse) /\ n = inverses[i].node
  OBVIOUS
<1> HIDE DEF n, es
<1>5. inverses[i] \in Records /\ IsRight(inverses[i])
  BY <1>2 DEF UndoInv
<1>6. e.disk = inverses[i].before
  BY <1>0, <1>2, <1>4, <1>5, InversesReverse DEF FilesAre
<1>7. disk'[n] = e.disk
  BY <1>0, <1>2, <1>3 DEF Undo!Affect, FilesAre
<1> QED
  BY <1>4, <1>6, <1>7

\* At first no file is there and nothing was done.
LEMMA UndoStarts == Undo!Init => UndoInv
<1> SUFFICES ASSUME Undo!Init PROVE UndoInv
  OBVIOUS
<1>1. FilesAre
  BY CoreAssumption DEF Undo!Init, FilesAre, Files, Disks, Contents, Undo!Nothing
<1>2. second \in 0..MaxSeconds /\ acts \in 0..MaxActs /\ asks \in 0..MaxAsks
  BY CoreAssumption DEF Undo!Init
<1>3. inverses = <<>> /\ inverses \in Seq(Records) /\ Len(inverses) = 0
  BY DEF Undo!Init
<1>4. \A u \in Undoers : requests[u] = Undo!Idle
  BY DEF Undo!Init
<1>5. Undo!Idle \in Requests /\ Undo!Idle.record = 0 /\ Undo!Idle.phase = "idle"
  BY DEF Undo!Idle, Requests
<1>6. requests \in [Undoers -> Requests]
  BY <1>5 DEF Undo!Init
<1> QED
  BY <1>1, <1>2, <1>3, <1>4, <1>5, <1>6 DEF UndoInv, Undo!OnlyUndoneLeaves

\* Undoing an act where it was done and is as it left things restores what was, nothing that is
\* written over or deleted is lost, and a record leaves only once its inverse has run
\* (UndoRegistry, for any paths, nodes, callers and acts).
THEOREM ActsAreTakenBack == Spec => ActsCanBeTakenBack
<1>1. UndoInv /\ [Next]_allVars =>
        [\A u \in Undoers :
           LET i == requests[u].record IN
           (/\ requests[u].phase = "sent" /\ requests'[u].phase = "ok"
            /\ requests[u].node = inverses[i].node
            /\ disk[inverses[i].node] = inverses[i].after /\ Undo!takesBack(inverses[i]))
           => disk'[inverses[i].node] = inverses[i].before]_undoVars
  BY OnePartSteps, StepRestores
<1>2. UndoInv /\ [Next]_allVars =>
        [\A n \in Nodes :
           \/ Undo!holds(n, disk, kept) \subseteq Undo!holds(n, disk', kept')
           \/ Undo!displaces(n)
           \/ \E x \in DOMAIN kept[n] \cap DOMAIN kept'[n] : kept[n][x] # kept'[n][x]]_undoVars
  <2> SUFFICES ASSUME UndoInv, [Undo!Next]_undoVars, NEW n \in Nodes
               PROVE  \/ Undo!holds(n, disk, kept) \subseteq Undo!holds(n, disk', kept')
                      \/ Undo!displaces(n)
                      \/ \E x \in DOMAIN kept[n] \cap DOMAIN kept'[n] : kept[n][x] # kept'[n][x]
    BY OnePartSteps
  <2>1. Saved(n, disk'[n], kept'[n])
    BY StepSaves
  <2> QED
    BY <2>1 DEF Saved, Undo!holds, Undo!displaces
<1>3. Init => UndoInv
  BY UndoStarts DEF Init
<1>4. UndoInv /\ [Next]_allVars => UndoInv'
  BY OnePartSteps, UndoStep
<1>5. UndoInv => Undo!OnlyUndoneLeaves
  BY DEF UndoInv
<1> QED
  BY <1>1, <1>2, <1>3, <1>4, <1>5, PTL
     DEF Spec, allVars, ActsCanBeTakenBack, Undo!UndoRestores, Undo!NothingIsLost, Undo!vars, undoVars

-------------------------------------------------------------------------------
(* DistributedWork: stages over the owner's machines.                        *)

OnTarget == {"stepping", "waiting", "working"}

\* What each stage has been routed to, and that nothing was built on an input not there.
Routed ==
  /\ chain \in [Stages -> Seq(Work!Targets)]
  /\ \A s \in Stages :
       /\ at[s] \in OnTarget => chain[s] # <<>>
       /\ s \in Private => chain[s] \in Seq(Machines)
       /\ at[s] = "waiting" => Head(chain[s]) # Cloud
Whole ==
  /\ \A s \in Stages : at[s] # "planned" => \A n \in Needs[s] : at[n] = "produced"
  /\ answer # "none" => \A s \in Stages : at[s] \in {"planned", "produced", "failed"}
  /\ answer = "complete" => \A s \in Stages \ Optional : at[s] = "produced"

\* While a machine has had one size, who works there and the slots that are free make it up,
\* and whoever works or waits there is of that size.
Doing(m) == {s \in Stages : at[s] = "working" /\ Head(chain[s]) = m}
Sized(m) ==
  /\ \A s \in Stages :
       at[s] \in {"waiting", "working"} /\ Head(chain[s]) = m => slot[s] = resizes[m]
  /\ Cardinality(Doing(m)) + free[m][resizes[m]] = limit[m]

WorkTypes ==
  /\ at \in [Stages -> Work!Places]
  /\ slot \in [Stages -> Work!Generations]
  /\ free \in [Machines -> [Work!Generations -> Nat]]
  /\ limit \in [Machines -> Nat \ {0}]
  /\ resizes \in [Machines -> Work!Generations] /\ resized \subseteq Machines /\ away \subseteq Machines
  /\ answer \in {"none", "complete", "raised"}
WorkInv == WorkTypes /\ Routed /\ Whole /\ \A m \in Machines \ resized : Sized(m)

\* The instance counts as this module does.
LEMMA WorkCounts == \A S : Work!Cardinality(S) = Cardinality(S)
BY DEF Work!Cardinality, Cardinality

\* Stages are finitely many, so are those at work.
LEMMA DoingCounts ==
  \A m : IsFiniteSet(Doing(m)) /\ Cardinality(Doing(m)) \in Nat
<1> SUFFICES ASSUME NEW m PROVE IsFiniteSet(Doing(m)) /\ Cardinality(Doing(m)) \in Nat
  OBVIOUS
<1>1. Doing(m) \subseteq Stages
  BY DEF Doing
<1> QED
  BY <1>1, CoreAssumption, FS_Subset, FS_CardinalityType

\* The head and the rest of a stage's targets.
LEMMA ChainHas ==
  ASSUME NEW S, NEW c \in Seq(S), c # <<>>
  PROVE  /\ Head(c) \in S /\ Tail(c) \in Seq(S) /\ Len(c) \in Nat \ {0}
         /\ Len(c) # 1 => Tail(c) # <<>>
<1> DEFINE rest == Tail(c)
           length == Len(rest)
<1>1. Head(c) \in S /\ rest \in Seq(S) /\ length = Len(c) - 1
  BY HeadTailProperties
<1>2. Len(c) \in Nat \ {0}
  BY EmptySeq
<1>3. rest = <<>> => length = 0
  BY EmptySeq
<1> HIDE DEF length
<1>4. Len(c) # 1 => length # 0
  BY <1>1, <1>2
<1>5. Len(c) # 1 => rest # <<>>
  BY <1>3, <1>4
<1> QED
  BY <1>1, <1>2, <1>5

\* A step of one stage moves at most this stage to or from a machine.
LEMMA StageMoves ==
  ASSUME WorkInv, NEW s \in Stages, NEW p \in Work!Places, NEW c, NEW m,
         at' = [at EXCEPT ![s] = p], chain' = [chain EXCEPT ![s] = c]
  PROVE  /\ at' \in [Stages -> Work!Places]
         /\ \A t \in Stages : /\ at'[t] = IF t = s THEN p ELSE at[t]
                              /\ chain'[t] = IF t = s THEN c ELSE chain[t]
         /\ Doing(m)' = IF p = "working" /\ Head(c) = m THEN Doing(m) \cup {s} ELSE Doing(m) \ {s}
<1>1. at \in [Stages -> Work!Places] /\ chain \in [Stages -> Seq(Work!Targets)]
  BY DEF WorkInv, WorkTypes, Routed
<1>2. at' \in [Stages -> Work!Places]
  BY <1>1
<1>3. \A t \in Stages : /\ at'[t] = IF t = s THEN p ELSE at[t]
                        /\ chain'[t] = IF t = s THEN c ELSE chain[t]
  BY <1>1
<1> QED
  BY <1>2, <1>3 DEF Doing

\* What a stage that goes on, to a target it was routed to or to its end, leaves of the routes
\* and of the inputs.
LEMMA StageGoesOn ==
  ASSUME WorkInv, NEW s \in Stages, NEW p \in Work!Places \ {"planned"}, NEW c \in Seq(Work!Targets),
         at[s] \notin {"planned", "produced", "failed"}, UNCHANGED answer,
         at' = [at EXCEPT ![s] = p], chain' = [chain EXCEPT ![s] = c],
         p \in OnTarget => c # <<>>, s \in Private => c \in Seq(Machines),
         p = "waiting" => Head(c) # Cloud
  PROVE  Routed' /\ Whole'
<1>1. \A t \in Stages : /\ at'[t] = IF t = s THEN p ELSE at[t]
                        /\ chain'[t] = IF t = s THEN c ELSE chain[t]
  BY StageMoves
<1>2. chain' \in [Stages -> Seq(Work!Targets)]
  BY DEF WorkInv, Routed
<1>3. Routed'
  BY <1>1, <1>2 DEF WorkInv, Routed, OnTarget, Work!Targets
<1>4. answer = "none"
  BY DEF WorkInv, Whole
<1>5. \A t \in Stages : at'[t] # "planned" => \A n \in Needs[t] : at'[n] = "produced"
  <2> SUFFICES ASSUME NEW t \in Stages, at'[t] # "planned", NEW n \in Needs[t]
               PROVE  at'[n] = "produced"
    OBVIOUS
  <2>1. at[n] = "produced"
    BY <1>1 DEF WorkInv, Whole
  <2>2. at'[n] = at[n]
    <3>1. n # s
      BY <2>1
    <3>2. n \in Stages
      BY CoreAssumption
    <3> QED
      BY <1>1, <3>1, <3>2
  <2> QED
    BY <2>1, <2>2
<1> QED
  BY <1>3, <1>4, <1>5 DEF Whole

\* A stage that neither takes a slot nor has one leaves every machine as it was.
LEMMA StageApart ==
  ASSUME WorkInv, NEW s \in Stages, NEW p \in Work!Places \ {"waiting", "working"}, NEW c,
         at[s] # "working", UNCHANGED <<slot, free, limit, resizes, resized>>,
         at' = [at EXCEPT ![s] = p], chain' = [chain EXCEPT ![s] = c]
  PROVE  \A m \in Machines \ resized' : Sized(m)'
<1> SUFFICES ASSUME NEW m \in Machines \ resized PROVE Sized(m)'
  OBVIOUS
<1>1. Sized(m)
  BY DEF WorkInv
<1>2. Doing(m)' = Doing(m)
  <2>1. Doing(m)' = Doing(m) \ {s}
    BY StageMoves
  <2>2. s \notin Doing(m)
    BY DEF Doing
  <2> QED
    BY <2>1, <2>2
<1>3. \A t \in Stages : at'[t] \in {"waiting", "working"} /\ Head(chain'[t]) = m
                          => slot'[t] = resizes'[m]
  <2> SUFFICES ASSUME NEW t \in Stages, at'[t] \in {"waiting", "working"}, Head(chain'[t]) = m
               PROVE  slot[t] = resizes[m]
    OBVIOUS
  <2>1. /\ at'[t] = IF t = s THEN p ELSE at[t]
        /\ chain'[t] = IF t = s THEN c ELSE chain[t]
    BY StageMoves
  <2>2. t # s
    BY <2>1
  <2> QED
    BY <1>1, <2>1, <2>2 DEF Sized
<1> QED
  BY <1>1, <1>2, <1>3 DEF Sized

\* A chain of targets is a sequence of them, of machines alone for a private stage.
LEMMA EligibleChains ==
  ASSUME NEW s \in Stages, NEW c \in Work!eligible(s)
  PROVE  /\ c \in Seq(Work!Targets)
         /\ s \in Private => c \in Seq(Machines)
<1> DEFINE allowed == IF s \in Private THEN Machines ELSE Work!Targets
<1>1. IsFiniteSet(Work!Targets)
  BY CoreAssumption, FS_AddElement DEF Work!Targets
<1>2. Cardinality(allowed) \in Nat
  BY <1>1, CoreAssumption, FS_CardinalityType
<1>3. PICK n \in 0..Work!Cardinality(allowed) : c \in [1..n -> allowed]
  <2>1. c \in UNION {[1..i -> allowed] : i \in 0..Work!Cardinality(allowed)}
    BY DEF Work!eligible
  <2> HIDE DEF allowed
  <2> QED
    BY <2>1
<1>4. n \in Nat
  BY <1>2, WorkCounts
<1>5. c \in Seq(allowed)
  BY <1>3, <1>4, IsASeq
<1>6. allowed \subseteq Work!Targets
  BY DEF Work!Targets
<1>7. c \in [1..n -> Work!Targets]
  BY <1>3, <1>6
<1>8. c \in Seq(Work!Targets)
  BY <1>4, <1>7, IsASeq
<1> QED
  BY <1>5, <1>8

\* Where a stage under way stands.
LEMMA StageHas ==
  ASSUME WorkInv, NEW s \in Stages, at[s] \in OnTarget
  PROVE  /\ chain[s] \in Seq(Work!Targets) /\ chain[s] # <<>>
         /\ s \in Private => chain[s] \in Seq(Machines)
         /\ Head(chain[s]) \in Work!Targets
         /\ s \in Private => Head(chain[s]) \in Machines
         /\ Tail(chain[s]) \in Seq(Work!Targets)
         /\ s \in Private => Tail(chain[s]) \in Seq(Machines)
         /\ Len(chain[s]) # 1 => Tail(chain[s]) # <<>>
         /\ slot[s] \in Work!Generations
<1>1. chain[s] \in Seq(Work!Targets) /\ chain[s] # <<>>
  BY DEF WorkInv, Routed
<1>2. s \in Private => chain[s] \in Seq(Machines)
  BY DEF WorkInv, Routed
<1>3. slot[s] \in Work!Generations
  BY DEF WorkInv, WorkTypes
<1>4. /\ Head(chain[s]) \in Work!Targets /\ Tail(chain[s]) \in Seq(Work!Targets)
      /\ Len(chain[s]) # 1 => Tail(chain[s]) # <<>>
  BY <1>1, ChainHas
<1>5. s \in Private => Head(chain[s]) \in Machines /\ Tail(chain[s]) \in Seq(Machines)
  BY <1>1, <1>2, ChainHas
<1> QED
  BY <1>1, <1>2, <1>3, <1>4, <1>5

\* A wave that sets out, from a plan where nobody works.
LEMMA NextWaveWorks ==
  ASSUME WorkInv, Work!NextWave PROVE WorkInv'
<1>1. /\ at' \in [Stages -> Work!Places]
      /\ \A s \in Stages : /\ at[s] \in {"planned", "produced", "failed"}
                           /\ at'[s] \in {at[s], "routing"}
                           /\ at[s] # "planned" => at'[s] = at[s]
                           /\ at'[s] # "planned" => \A n \in Needs[s] : at[n] = "produced"
  <2>1. \A s \in Stages : at[s] \in {"planned", "produced", "failed"}
    BY DEF Work!NextWave, Work!underWay
  <2>2. at' = [s \in Stages |-> IF s \in Work!wave THEN "routing" ELSE at[s]]
    BY DEF Work!NextWave
  <2>3. at' \in [Stages -> Work!Places]
    BY <2>2 DEF WorkInv, WorkTypes, Work!Places
  <2>4. \A s \in Stages : s \in Work!wave => at[s] = "planned" /\ \A n \in Needs[s] : at[n] = "produced"
    BY DEF Work!wave
  <2>5. \A s \in Stages : at[s] # "planned" => \A n \in Needs[s] : at[n] = "produced"
    BY DEF WorkInv, Whole
  <2> QED
    BY <2>1, <2>2, <2>3, <2>4, <2>5
<1>2. UNCHANGED <<chain, slot, free, limit, resizes, resized, away, answer>> /\ answer = "none"
  BY DEF Work!NextWave, Work!ledger
<1>3. WorkTypes'
  BY <1>1, <1>2 DEF WorkInv, WorkTypes
<1>4. Routed'
  BY <1>1, <1>2 DEF WorkInv, Routed, OnTarget
<1>5. Whole'
  <2>1. \A s \in Stages, n \in Stages : at[n] = "produced" => at'[n] = "produced"
    BY <1>1
  <2> QED
    BY <1>1, <1>2, <2>1, CoreAssumption DEF Whole
<1>6. \A m \in Machines \ resized' : Sized(m)'
  <2> SUFFICES ASSUME NEW m \in Machines \ resized PROVE Sized(m)'
    BY <1>2
  <2>1. Doing(m)' = Doing(m)
    BY <1>1 DEF Doing
  <2>2. Sized(m)
    BY DEF WorkInv
  <2>3. \A s \in Stages : at'[s] \notin {"waiting", "working"}
    BY <1>1
  <2> QED
    BY <1>2, <2>1, <2>2, <2>3 DEF Sized
<1> QED
  BY <1>3, <1>4, <1>5, <1>6 DEF WorkInv

\* A stage that is routed, or has no target.
LEMMA RouteWorks ==
  ASSUME WorkInv, NEW s \in Stages, NEW c \in Work!eligible(s), Work!Route(s, c)
  PROVE  WorkInv'
<1> DEFINE p == IF c = <<>> THEN "failed" ELSE "stepping"
<1>1. /\ at[s] = "routing" /\ at' = [at EXCEPT ![s] = p] /\ chain' = [chain EXCEPT ![s] = c]
      /\ UNCHANGED <<slot, free, limit, resizes, resized, away, answer>>
  BY DEF Work!Route, Work!Goes, Work!ledger
<1>2. p \in Work!Places \ {"planned", "waiting", "working", "produced"} /\ (p \in OnTarget => c # <<>>)
  BY DEF Work!Places, OnTarget
<1>3. c \in Seq(Work!Targets) /\ (s \in Private => c \in Seq(Machines))
  BY EligibleChains
<1> HIDE DEF p
<1>4. Routed' /\ Whole'
  BY <1>1, <1>2, <1>3, StageGoesOn
<1>5. \A m \in Machines \ resized' : Sized(m)'
  BY <1>1, <1>2, StageApart
<1>6. at' \in [Stages -> Work!Places]
  BY <1>1, <1>2, StageMoves
<1>7. WorkTypes'
  BY <1>1, <1>6 DEF WorkInv, WorkTypes
<1> QED
  BY <1>4, <1>5, <1>7 DEF WorkInv

\* A stage that passes over a target that is away.
LEMMA SkipWorks ==
  ASSUME WorkInv, NEW s \in Stages, Work!Skip(s)
  PROVE  WorkInv'
<1> DEFINE p == IF Len(chain[s]) = 1 THEN "failed" ELSE "stepping"
           c == Tail(chain[s])
<1>1. /\ at[s] = "stepping" /\ at' = [at EXCEPT ![s] = p] /\ chain' = [chain EXCEPT ![s] = c]
      /\ UNCHANGED <<slot, free, limit, resizes, resized, away, answer>>
  BY DEF Work!Skip, Work!Falls, Work!Goes, Work!ledger
<1>2. at[s] \in OnTarget
  BY <1>1 DEF OnTarget
<1>3. /\ p \in Work!Places \ {"planned", "waiting", "working", "produced"}
      /\ p \in OnTarget => c # <<>>
  BY <1>2, StageHas DEF Work!Places, OnTarget
<1>4. c \in Seq(Work!Targets) /\ (s \in Private => c \in Seq(Machines))
  BY <1>2, StageHas
<1> HIDE DEF p, c
<1>5. Routed' /\ Whole'
  BY <1>1, <1>3, <1>4, StageGoesOn
<1>6. \A m \in Machines \ resized' : Sized(m)'
  BY <1>1, <1>3, StageApart
<1>7. at' \in [Stages -> Work!Places]
  BY <1>1, <1>3, StageMoves
<1>8. WorkTypes'
  BY <1>1, <1>7 DEF WorkInv, WorkTypes
<1> QED
  BY <1>5, <1>6, <1>8 DEF WorkInv

\* A stage that goes to work in the cloud, or queues for a slot of the size a machine now has.
LEMMA StepWorks ==
  ASSUME WorkInv, NEW s \in Stages, Work!Step(s)
  PROVE  WorkInv'
<1> DEFINE target == Head(chain[s])
           p == IF target = Cloud THEN "working" ELSE "waiting"
           c == chain[s]
<1>1. /\ at[s] = "stepping" /\ at' = [at EXCEPT ![s] = p] /\ UNCHANGED chain
      /\ slot' = IF target = Cloud THEN slot ELSE [slot EXCEPT ![s] = resizes[target]]
      /\ UNCHANGED <<free, limit, resizes, resized, away, answer>>
  BY DEF Work!Step, Work!Goes, Work!ledger
<1>2. at[s] \in OnTarget
  BY <1>1 DEF OnTarget
<1>3. /\ c \in Seq(Work!Targets) /\ c # <<>> /\ (s \in Private => c \in Seq(Machines))
      /\ target \in Work!Targets
  BY <1>2, StageHas
<1>4. chain' = [chain EXCEPT ![s] = c]
  BY <1>1 DEF WorkInv, Routed
<1>5. p \in Work!Places \ {"planned", "produced", "failed"} /\ (p = "waiting" => Head(c) # Cloud)
  BY DEF Work!Places
<1>6. slot' \in [Stages -> Work!Generations]
  <2>1. target = Cloud \/ target \in Machines
    BY <1>3 DEF Work!Targets
  <2> QED
    BY <1>1, <2>1 DEF WorkInv, WorkTypes
<1>7. \A t \in Stages : slot'[t] = IF t = s /\ target # Cloud THEN resizes[target] ELSE slot[t]
  BY <1>1 DEF WorkInv, WorkTypes
<1> HIDE DEF p
<1>8. Routed' /\ Whole'
  BY <1>1, <1>3, <1>4, <1>5, StageGoesOn
<1>9. at' \in [Stages -> Work!Places]
  BY <1>1, <1>4, <1>5, StageMoves
<1>10. WorkTypes'
  BY <1>1, <1>6, <1>9 DEF WorkInv, WorkTypes
<1>11. \A m \in Machines \ resized' : Sized(m)'
  <2> SUFFICES ASSUME NEW m \in Machines \ resized PROVE Sized(m)'
    BY <1>1
  <2>1. Sized(m)
    BY DEF WorkInv
  <2>2. m # Cloud
    BY CoreAssumption
  <2>3. Doing(m)' = Doing(m)
    <3>1. \A t \in Stages : t # s => at'[t] = at[t]
      BY <1>1
    <3>2. ~(at'[s] = "working" /\ Head(chain'[s]) = m)
      <4>1. at'[s] = p
        BY <1>1 DEF WorkInv, WorkTypes
      <4> QED
        BY <1>1, <2>2, <4>1 DEF p
    <3>3. at[s] # "working"
      BY <1>1
    <3> QED
      BY <1>1, <3>1, <3>2, <3>3 DEF Doing
  <2>4. \A t \in Stages : at'[t] \in {"waiting", "working"} /\ Head(chain'[t]) = m
                            => slot'[t] = resizes'[m]
    <3> SUFFICES ASSUME NEW t \in Stages, at'[t] \in {"waiting", "working"}, Head(chain[t]) = m
                 PROVE  slot'[t] = resizes[m]
      BY <1>1
    <3>1. CASE t = s
      BY <1>7, <2>2, <3>1
    <3>2. CASE t # s
      <4>1. at'[t] = at[t]
        BY <1>1, <1>4, <1>5, <3>2, StageMoves
      <4> QED
        BY <1>7, <2>1, <3>2, <4>1 DEF Sized
    <3> QED
      BY <3>1, <3>2
  <2> QED
    BY <1>1, <2>1, <2>3, <2>4 DEF Sized
<1> QED
  BY <1>8, <1>10, <1>11 DEF WorkInv

\* A stage that gets the slot it waits for.
LEMMA AcquireWorks ==
  ASSUME WorkInv, NEW s \in Stages, Work!Acquire(s)
  PROVE  WorkInv'
<1> DEFINE home == Head(chain[s])
           size == slot[s]
           c == chain[s]
<1>1. /\ at[s] = "waiting" /\ at' = [at EXCEPT ![s] = "working"] /\ UNCHANGED chain
      /\ free' = [free EXCEPT ![home][size] = @ - 1] /\ free[home][size] > 0
      /\ UNCHANGED <<slot, limit, resizes, resized, away, answer>>
  BY DEF Work!Acquire, Work!Goes
<1>2. at[s] \in OnTarget
  BY <1>1 DEF OnTarget
<1>3. /\ c \in Seq(Work!Targets) /\ c # <<>> /\ (s \in Private => c \in Seq(Machines))
      /\ size \in Work!Generations /\ home \in Work!Targets
  BY <1>2, StageHas
<1>4. home \in Machines
  BY <1>1, <1>3 DEF WorkInv, Routed, Work!Targets
<1>5. chain' = [chain EXCEPT ![s] = c]
  BY <1>1 DEF WorkInv, Routed
<1>6. "working" \in Work!Places \ {"planned", "produced", "failed"}
  BY DEF Work!Places
<1>7. Routed' /\ Whole'
  BY <1>1, <1>3, <1>5, <1>6, StageGoesOn
<1>8. free \in [Machines -> [Work!Generations -> Nat]] /\ free[home][size] \in Nat
  BY <1>3, <1>4 DEF WorkInv, WorkTypes
<1> HIDE DEF home, size
<1>9. /\ free' \in [Machines -> [Work!Generations -> Nat]]
      /\ \A m \in Machines : m # home => free'[m] = free[m]
      /\ \A g \in Work!Generations : free'[home][g] = IF g = size THEN free[home][size] - 1 ELSE free[home][g]
  BY <1>1, <1>3, <1>4, <1>8
<1>10. at' \in [Stages -> Work!Places]
  BY <1>1, <1>5, <1>6, StageMoves
<1>11. WorkTypes'
  BY <1>1, <1>9, <1>10 DEF WorkInv, WorkTypes
<1>12. \A m \in Machines \ resized' : Sized(m)'
  <2> SUFFICES ASSUME NEW m \in Machines \ resized PROVE Sized(m)'
    BY <1>1
  <2>1. Sized(m) /\ resizes[m] \in Work!Generations
    BY DEF WorkInv, WorkTypes
  <2>2. at'[s] = "working" /\ \A t \in Stages : t # s => at'[t] = at[t]
    BY <1>1 DEF WorkInv, WorkTypes
  <2>3. \A t \in Stages : at'[t] \in {"waiting", "working"} /\ Head(chain'[t]) = m
                            => slot'[t] = resizes'[m]
    BY <1>1, <2>1, <2>2 DEF Sized
  <2>4. CASE m = home
    <3>1. size = resizes[m]
      BY <1>1, <2>1, <2>4 DEF Sized, size, home
    <3>2. Doing(m)' = Doing(m) \cup {s} /\ s \notin Doing(m)
      BY <1>1, <2>2, <2>4 DEF Doing, home
    <3>3. IsFiniteSet(Doing(m)) /\ Cardinality(Doing(m)) \in Nat
      BY DoingCounts
    <3>4. Cardinality(Doing(m)') = Cardinality(Doing(m)) + 1
      BY <3>2, <3>3, FS_AddElement
    <3>5. free'[m][resizes[m]] = free[m][resizes[m]] - 1 /\ free[m][resizes[m]] \in Nat
      BY <1>8, <1>9, <2>1, <2>4, <3>1
    <3>6. Cardinality(Doing(m)) + free[m][resizes[m]] = limit[m]
      BY <2>1 DEF Sized
    <3>7. Cardinality(Doing(m)') + free'[m][resizes[m]] = limit[m]
      BY <3>3, <3>4, <3>5, <3>6
    <3> QED
      BY <1>1, <2>3, <3>7 DEF Sized
  <2>5. CASE m # home
    <3>1. Doing(m)' = Doing(m)
      BY <1>1, <2>2, <2>5 DEF Doing, home
    <3> QED
      BY <1>1, <1>9, <2>1, <2>3, <2>5, <3>1 DEF Sized
  <2> QED
    BY <2>4, <2>5
<1> QED
  BY <1>7, <1>11, <1>12 DEF WorkInv

\* A stage whose work ends, well or not: its slot goes back to the semaphore it is of.
LEMMA WorkEnds ==
  ASSUME WorkInv, NEW s \in Stages, NEW ok \in BOOLEAN, Work!Work(s, ok)
  PROVE  WorkInv'
<1> DEFINE home == Head(chain[s])
           size == slot[s]
           p == IF ok THEN "produced" ELSE IF Len(chain[s]) = 1 THEN "failed" ELSE "stepping"
           c == IF ok THEN chain[s] ELSE Tail(chain[s])
<1>1. /\ at[s] = "working" /\ at' = [at EXCEPT ![s] = p] /\ chain' = [chain EXCEPT ![s] = c]
      /\ free' = IF home = Cloud THEN free ELSE [free EXCEPT ![home][size] = @ + 1]
      /\ UNCHANGED <<slot, limit, resizes, resized, away, answer>>
  BY DEF Work!Work, Work!Release, Work!Falls, Work!Goes, WorkInv, Routed
<1>2. at[s] \in OnTarget
  BY <1>1 DEF OnTarget
<1>3. /\ size \in Work!Generations /\ home \in Work!Targets
      /\ c \in Seq(Work!Targets) /\ (s \in Private => c \in Seq(Machines))
  BY <1>2, StageHas
<1>4. /\ p \in Work!Places \ {"planned", "waiting", "working"}
      /\ p \in OnTarget => c # <<>>
  BY <1>2, StageHas DEF Work!Places, OnTarget
<1>5. free \in [Machines -> [Work!Generations -> Nat]] /\ (home \in Machines => free[home][size] \in Nat)
  BY <1>3 DEF WorkInv, WorkTypes
<1>6. home \in Machines \/ home = Cloud
  BY <1>3 DEF Work!Targets
<1> HIDE DEF home, size, p, c
<1>7. Routed' /\ Whole'
  BY <1>1, <1>3, <1>4, StageGoesOn
<1>8. /\ free' \in [Machines -> [Work!Generations -> Nat]]
      /\ \A m \in Machines : m # home => free'[m] = free[m]
      /\ home # Cloud =>
           \A g \in Work!Generations : free'[home][g] = IF g = size THEN free[home][size] + 1 ELSE free[home][g]
  <2>1. CASE home = Cloud
    BY <1>1, <1>5, <2>1
  <2>2. CASE home # Cloud
    BY <1>1, <1>3, <1>5, <1>6, <2>2
  <2> QED
    BY <2>1, <2>2
<1>9. at' \in [Stages -> Work!Places] /\ at'[s] = p /\ \A t \in Stages : t # s => at'[t] = at[t]
  BY <1>1, <1>4 DEF WorkInv, WorkTypes
<1>10. WorkTypes'
  BY <1>1, <1>8, <1>9 DEF WorkInv, WorkTypes
<1>11. \A m \in Machines \ resized' : Sized(m)'
  <2> SUFFICES ASSUME NEW m \in Machines \ resized PROVE Sized(m)'
    BY <1>1
  <2>1. Sized(m) /\ resizes[m] \in Work!Generations /\ m # Cloud
    BY CoreAssumption DEF WorkInv, WorkTypes
  <2>2. \A t \in Stages : t # s => chain'[t] = chain[t]
    BY <1>1 DEF WorkInv, Routed
  <2>3. \A t \in Stages : at'[t] \in {"waiting", "working"} /\ Head(chain'[t]) = m
                            => slot'[t] = resizes'[m]
    BY <1>1, <1>4, <1>9, <2>1, <2>2 DEF Sized
  <2>4. Doing(m)' = Doing(m) \ {s} /\ (s \in Doing(m) <=> m = home)
    BY <1>1, <1>4, <1>9, <2>2 DEF Doing, home
  <2>5. CASE m = home
    <3>1. size = resizes[m]
      BY <1>1, <2>1, <2>5 DEF Sized, size, home
    <3>2. IsFiniteSet(Doing(m)) /\ Cardinality(Doing(m)) \in Nat
      BY DoingCounts
    <3>3. Cardinality(Doing(m)') = Cardinality(Doing(m)) - 1
      <4>1. Cardinality(Doing(m) \ {s}) = Cardinality(Doing(m)) - 1
        BY <2>4, <2>5, <3>2, FS_RemoveElement
      <4> QED
        BY <2>4, <4>1
    <3>4. free'[m][resizes[m]] = free[m][resizes[m]] + 1 /\ free[m][resizes[m]] \in Nat
      BY <1>5, <1>8, <2>1, <2>5, <3>1
    <3>5. Cardinality(Doing(m)) + free[m][resizes[m]] = limit[m]
      BY <2>1 DEF Sized
    <3>6. Cardinality(Doing(m)') + free'[m][resizes[m]] = limit[m]
      BY <3>2, <3>3, <3>4, <3>5
    <3> QED
      BY <1>1, <2>3, <3>6 DEF Sized
  <2>6. CASE m # home
    <3>1. Doing(m)' = Doing(m)
      BY <2>4, <2>6
    <3>2. free'[m] = free[m]
      BY <1>8, <2>6
    <3> QED
      BY <1>1, <2>1, <2>3, <3>1, <3>2 DEF Sized
  <2> QED
    BY <2>5, <2>6
<1> QED
  BY <1>7, <1>10, <1>11 DEF WorkInv

\* A machine whose limit is set is either idle, and starts with all the slots of its new size,
\* or counts as resized.
LEMMA SetLimitWorks ==
  ASSUME WorkInv, NEW m \in Machines, NEW l \in Limits, Work!SetLimit(m, l)
  PROVE  WorkInv'
<1>1. /\ resizes[m] < MaxResizes /\ resizes' = [resizes EXCEPT ![m] = @ + 1]
      /\ limit' = [limit EXCEPT ![m] = l] /\ free' = [free EXCEPT ![m][resizes[m] + 1] = l]
      /\ resized' = IF Work!busy(m) THEN resized \cup {m} ELSE resized
      /\ UNCHANGED <<at, chain, slot, away, answer>>
  BY DEF Work!SetLimit
<1>2. l \in Nat \ {0} /\ MaxResizes \in Nat
  BY CoreAssumption
<1>3. resizes[m] \in Nat /\ resizes[m] + 1 \in Work!Generations
  BY <1>1, <1>2 DEF WorkInv, WorkTypes, Work!Generations
<1>4. /\ resizes' \in [Machines -> Work!Generations] /\ limit' \in [Machines -> Nat \ {0}]
      /\ resizes'[m] = resizes[m] + 1 /\ limit'[m] = l
      /\ \A n \in Machines \ {m} : resizes'[n] = resizes[n] /\ limit'[n] = limit[n]
  BY <1>1, <1>2, <1>3 DEF WorkInv, WorkTypes
<1>5. /\ free' \in [Machines -> [Work!Generations -> Nat]] /\ free'[m][resizes[m] + 1] = l
      /\ \A n \in Machines \ {m} : free'[n] = free[n]
  BY <1>1, <1>2, <1>3 DEF WorkInv, WorkTypes
<1>6. resized' \subseteq Machines
  BY <1>1 DEF WorkInv, WorkTypes
<1>7. WorkTypes'
  BY <1>1, <1>4, <1>5, <1>6 DEF WorkInv, WorkTypes
<1>8. Routed' /\ Whole'
  BY <1>1 DEF WorkInv, Routed, Whole
<1>9. \A n \in Machines \ resized' : Sized(n)'
  <2> SUFFICES ASSUME NEW n \in Machines \ resized' PROVE Sized(n)'
    OBVIOUS
  <2>1. n \notin resized /\ Sized(n)
    BY <1>1 DEF WorkInv
  <2>2. Doing(n)' = Doing(n)
    BY <1>1 DEF Doing
  <2>3. CASE n = m
    <3>1. \A s \in Stages : ~(at[s] \in {"waiting", "working"} /\ Head(chain[s]) = m)
      BY <1>1, <2>3 DEF Work!busy
    <3>2. Doing(n) = {}
      BY <2>3, <3>1 DEF Doing
    <3>3. Cardinality(Doing(n)) = 0
      BY <3>2, FS_EmptySet
    <3>4. Cardinality(Doing(n)') + free'[n][resizes'[n]] = limit'[n]
      BY <1>2, <1>4, <1>5, <2>2, <2>3, <3>3
    <3> QED
      BY <1>1, <2>3, <3>1, <3>4 DEF Sized
  <2>4. CASE n # m
    BY <1>1, <1>4, <1>5, <2>1, <2>2, <2>4 DEF Sized
  <2> QED
    BY <2>3, <2>4
<1> QED
  BY <1>7, <1>8, <1>9 DEF WorkInv

\* The places, the routes and the slots are what they were when nothing of them changes.
LEMMA WorkRests ==
  ASSUME WorkInv, UNCHANGED <<at, chain, slot, free, limit, resizes, resized>>, away' \subseteq Machines,
         answer' \in {"none", "complete", "raised"}, Whole'
  PROVE  WorkInv'
<1>1. WorkTypes' /\ Routed'
  BY DEF WorkInv, WorkTypes, Routed
<1>2. \A m \in Machines \ resized' : Sized(m)'
  BY DEF WorkInv, Sized, Doing
<1> QED
  BY <1>1, <1>2 DEF WorkInv

\* A plan that is at its end, with its answer.
LEMMA FinishWorks ==
  ASSUME WorkInv, Work!Finish PROVE WorkInv'
<1>1. /\ answer' = IF \A s \in Stages \ Optional : at[s] = "produced" THEN "complete" ELSE "raised"
      /\ UNCHANGED <<at, chain, slot, free, limit, resizes, resized, away>>
      /\ \A s \in Stages : at[s] \in {"planned", "produced", "failed"}
  BY DEF Work!Finish, Work!ledger, Work!underWay
<1>2. Whole'
  BY <1>1 DEF WorkInv, Whole
<1> QED
  BY <1>1, <1>2, WorkRests DEF WorkInv, WorkTypes

\* A machine that leaves or returns.
LEMMA MachineChangesWorks ==
  ASSUME WorkInv, NEW m \in Machines, Work!MachineChanges(m) PROVE WorkInv'
<1>1. UNCHANGED <<at, chain, slot, free, limit, resizes, resized, answer>> /\ away' \subseteq Machines
  BY DEF Work!MachineChanges, Work!ledger, WorkInv, WorkTypes
<1>2. Whole'
  BY <1>1 DEF WorkInv, Whole
<1> QED
  BY <1>1, <1>2, WorkRests DEF WorkInv, WorkTypes

\* A plan sets out with nobody at work and every slot free.
LEMMA WorkStarts ==
  Work!Init => WorkInv
<1> SUFFICES ASSUME Work!Init PROVE WorkInv
  OBVIOUS
<1> USE DEF Work!Init
<1>1. WorkTypes
  <2>1. 0 \in Work!Generations
    BY CoreAssumption DEF Work!Generations
  <2> QED
    BY <2>1 DEF WorkTypes, Work!Places, Work!DEFAULT_LIMIT
<1>2. Routed
  <2>1. <<>> \in Seq(Work!Targets) /\ <<>> \in Seq(Machines)
    BY EmptySeq
  <2> QED
    BY <2>1 DEF Routed, OnTarget
<1>3. Whole
  BY DEF Whole
<1>4. \A m \in Machines \ resized : Sized(m)
  <2> SUFFICES ASSUME NEW m \in Machines PROVE Sized(m)
    OBVIOUS
  <2>1. Doing(m) = {}
    BY DEF Doing
  <2>2. Cardinality(Doing(m)) = 0
    BY <2>1, FS_EmptySet
  <2>3. free[m][resizes[m]] = 1 /\ limit[m] = 1
    BY CoreAssumption DEF Work!Generations, Work!DEFAULT_LIMIT
  <2> QED
    BY <2>2, <2>3 DEF Sized
<1> QED
  BY <1>1, <1>2, <1>3, <1>4 DEF WorkInv

\* WorkInv is inductive.
LEMMA WorkStep ==
  WorkInv /\ [Work!Next]_workVars => WorkInv'
<1> SUFFICES ASSUME WorkInv, [Work!Next]_workVars PROVE WorkInv'
  OBVIOUS
<1>1. CASE Work!NextWave
  BY <1>1, NextWaveWorks
<1>2. CASE Work!Finish
  BY <1>2, FinishWorks
<1>3. ASSUME NEW s \in Stages, NEW c \in Work!eligible(s), Work!Route(s, c) PROVE WorkInv'
  BY <1>3, RouteWorks
<1>4. ASSUME NEW s \in Stages, Work!Skip(s) PROVE WorkInv'
  BY <1>4, SkipWorks
<1>5. ASSUME NEW s \in Stages, Work!Step(s) PROVE WorkInv'
  BY <1>5, StepWorks
<1>6. ASSUME NEW s \in Stages, Work!Acquire(s) PROVE WorkInv'
  BY <1>6, AcquireWorks
<1>7. ASSUME NEW s \in Stages, NEW ok \in BOOLEAN, Work!Work(s, ok) PROVE WorkInv'
  BY <1>7, WorkEnds
<1>8. ASSUME NEW m \in Machines, NEW l \in Limits, Work!SetLimit(m, l) PROVE WorkInv'
  BY <1>8, SetLimitWorks
<1>9. ASSUME NEW m \in Machines, Work!MachineChanges(m) PROVE WorkInv'
  BY <1>9, MachineChangesWorks
<1>10. CASE UNCHANGED workVars
  <2>1. UNCHANGED <<at, chain, slot, free, limit, resizes, resized, away, answer>>
    BY <1>10 DEF workVars
  <2>2. Whole'
    BY <2>1 DEF WorkInv, Whole
  <2> QED
    BY <2>1, <2>2, WorkRests DEF WorkInv, WorkTypes
<1> QED
  BY <1>1, <1>2, <1>3, <1>4, <1>5, <1>6, <1>7, <1>8, <1>9, <1>10 DEF Work!Next, Work!Progress

\* What is placed so keeps every machine within its limit, private stages at home and answers whole.
LEMMA WorkInvPlaces ==
  WorkInv => WorkIsPlaced
<1> SUFFICES ASSUME WorkInv
             PROVE  Work!MachineIsNotFlattened /\ Work!PrivateStaysHome /\ Work!AnswerIsWhole
  BY DEF WorkIsPlaced
<1>1. ASSUME NEW m \in Machines \ resized PROVE Work!in_flight(m) <= limit[m]
  <2>1. Work!in_flight(m) = Cardinality(Doing(m))
    BY WorkCounts DEF Work!in_flight, Doing
  <2>2. Cardinality(Doing(m)) + free[m][resizes[m]] = limit[m]
    BY DEF WorkInv, Sized
  <2>3. free[m][resizes[m]] \in Nat /\ limit[m] \in Nat
    BY DEF WorkInv, WorkTypes
  <2> QED
    BY <2>1, <2>2, <2>3, DoingCounts
<1>2. ASSUME NEW s \in Private, at[s] = "working" PROVE Head(chain[s]) # Cloud
  BY <1>2, StageHas, CoreAssumption DEF OnTarget
<1>3. Work!AnswerIsWhole
  BY DEF WorkInv, Whole, Work!AnswerIsWhole
<1> QED
  BY <1>1, <1>2, <1>3 DEF Work!MachineIsNotFlattened, Work!PrivateStaysHome

\* A machine runs no more stages at once than its limit, however waves, fallbacks and failures
\* interleave, unless the limit was set while somebody held or awaited a slot (capacity.py); no
\* private stage works in the cloud, not as a fallback's fallback (compute_router.py); and an
\* answer is given only when every required stage has its result, on all of its inputs
\* (distributed.py).
THEOREM WorkIsAlwaysPlaced == Spec => []WorkIsPlaced
<1>1. Init => Work!Init
  BY DEF Init
<1> QED
  BY <1>1, WorkStarts, WorkStep, OnePartSteps, WorkInvPlaces, PTL DEF Spec, allVars

-------------------------------------------------------------------------------
(* AuditTrail: what the chain shows of what was lost.                        *)

Ascending(c) == \A i, j \in DOMAIN c : i < j => c[i] < c[j]
Holds(c, e) == \E i \in DOMAIN c : c[i] = e

\* A chain of all the entries up to m.
UpTill(c, m) ==
  /\ c \in Seq(Nat) /\ Ascending(c) /\ \A i \in DOMAIN c : c[i] \in 1..m
  /\ \A e \in 1..m : Holds(c, e)

TrailTypes ==
  /\ {trail, prev, writing, archive} \subseteq Seq(Nat) /\ beneath \in Seq(SUBSET Nat)
  /\ Len(beneath) = Len(prev) /\ puts \cup table \subseteq 1..Len(prev) /\ acked \subseteq table
  /\ lost \in BOOLEAN /\ replaced \in BOOLEAN /\ altered \subseteq Revealing

\* Each entry is chained to the last of those it was put on top of, which were put on one another.
Chained(e) ==
  /\ beneath[e] \subseteq 1..(e - 1)
  /\ IF beneath[e] = {} THEN prev[e] = 0
                        ELSE prev[e] \in beneath[e] /\ \A f \in beneath[e] : f <= prev[e]
  /\ \A f, g \in beneath[e] : f < g => f \in beneath[g]

\* Until a backup takes its place, the chain is what is stored or on its way, in order, and each
\* entry was put on top of all those before it; until a row is lost, it is everything.
TrailInv ==
  /\ TrailTypes /\ (~replaced => altered = {})
  /\ ~replaced =>
       /\ Ascending(trail) /\ \A i \in DOMAIN trail : trail[i] \in 1..Len(prev)
       /\ \A e \in puts \cup table : Holds(trail, e)
       /\ \A i, j \in DOMAIN trail : i < j => trail[i] \in beneath[trail[j]]
       /\ \A e \in 1..Len(prev) : Chained(e)
  /\ ~lost /\ ~replaced =>
       /\ UpTill(trail, Len(prev)) /\ puts \cup table = 1..Len(prev)
       /\ \A e \in 1..Len(prev) : prev[e] = e - 1
       /\ \A a \in {writing, archive} : a = Audit!NoArchive \/ \E m \in 0..Len(prev) : UpTill(a, m)

\* What is known of the lengths and the domains.
LEMMA TrailShapes ==
  TrailTypes =>
    /\ \A c \in {trail, prev, writing, archive} :
         /\ c \in Seq(Nat) /\ Len(c) \in Nat /\ DOMAIN c = 1..Len(c) /\ \A i \in DOMAIN c : c[i] \in Nat
    /\ beneath \in Seq(SUBSET Nat) /\ DOMAIN beneath = 1..Len(prev)
    /\ \A e \in 1..Len(prev) : beneath[e] \subseteq Nat
<1> SUFFICES ASSUME TrailTypes
             PROVE  /\ \A c \in {trail, prev, writing, archive} :
                         /\ c \in Seq(Nat) /\ Len(c) \in Nat /\ DOMAIN c = 1..Len(c)
                         /\ \A i \in DOMAIN c : c[i] \in Nat
                    /\ beneath \in Seq(SUBSET Nat) /\ DOMAIN beneath = 1..Len(prev)
                    /\ \A e \in 1..Len(prev) : beneath[e] \subseteq Nat
  OBVIOUS
<1>1. ASSUME NEW c \in Seq(Nat)
      PROVE  Len(c) \in Nat /\ DOMAIN c = 1..Len(c) /\ \A i \in DOMAIN c : c[i] \in Nat
  BY LenProperties, ElementOfSeq
<1>2. /\ beneath \in Seq(SUBSET Nat) /\ Len(beneath) = Len(prev)
      /\ {trail, prev, writing, archive} \subseteq Seq(Nat)
  BY DEF TrailTypes
<1>3. DOMAIN beneath = 1..Len(prev)
  BY <1>2, LenProperties
<1>4. ASSUME NEW e \in 1..Len(prev) PROVE beneath[e] \subseteq Nat
  <2>1. e \in 1..Len(beneath)
    BY <1>2
  <2>2. beneath[e] \in SUBSET Nat
    BY <1>2, <2>1, ElementOfSeq
  <2> QED
    BY <2>2
<1> QED
  BY <1>1, <1>2, <1>3, <1>4

\* The places of a sequence, and of one that is longer by one.
LEMMA PlacesOf ==
  ASSUME NEW L \in Nat
  PROVE  /\ \A i \in 1..L : i = L \/ i < L
         /\ \A i \in 1..(L + 1) : i = L + 1 \/ i \in 1..L
         /\ \A i, j \in 1..(L + 1) : i < j => i \in 1..L
OBVIOUS

\* A chain of all the entries up to m, each made on top of the one before it, is linked.
LEMMA WholeIsLinked ==
  ASSUME NEW c, NEW m \in Nat, UpTill(c, m), \A e \in 1..m : prev[e] = e - 1
  PROVE  Audit!linked(c)
<1>1. /\ DOMAIN c = 1..Len(c) /\ Len(c) \in Nat /\ Ascending(c)
      /\ \A i \in DOMAIN c : c[i] \in 1..m
      /\ \A e \in 1..m : \E i \in DOMAIN c : c[i] = e
  BY LenProperties DEF UpTill, Holds
<1>2. ASSUME NEW i \in DOMAIN c PROVE prev[c[i]] = IF i = 1 THEN 0 ELSE c[i - 1]
  <2>1. prev[c[i]] = c[i] - 1
    BY <1>1
  <2>2. CASE i = 1
    <3>1. ASSUME c[1] # 1 PROVE FALSE
      <4>1. c[1] \in 1..m /\ c[1] - 1 \in 1..m
        BY <1>1, <2>2, <3>1
      <4>2. PICK j \in DOMAIN c : c[j] = c[1] - 1
        BY <1>1, <4>1
      <4>3. j # 1 /\ j \in 1..Len(c) /\ 1 \in DOMAIN c
        BY <1>1, <2>2, <4>1, <4>2
      <4>4. c[1] < c[j]
        <5>1. 1 < j /\ j \in DOMAIN c /\ 1 \in DOMAIN c
          BY <4>2, <4>3
        <5> QED
          BY <1>1, <5>1, Zenon DEF Ascending
      <4> QED
        BY <4>1, <4>2, <4>4
    <3> QED
      BY <2>1, <2>2, <3>1
  <2>3. CASE i # 1
    <3>1. i - 1 \in DOMAIN c /\ i \in 1..Len(c)
      BY <1>1, <2>3
    <3>2. c[i - 1] \in 1..m /\ c[i] \in 1..m /\ c[i - 1] < c[i]
      BY <1>1, <3>1 DEF Ascending
    <3>3. c[i] - 1 \in 1..m
      BY <3>2
    <3>4. PICK j \in DOMAIN c : c[j] = c[i] - 1
      BY <1>1, <3>3
    <3>5. j \in 1..Len(c)
      BY <1>1
    <3>6. ~(i < j) /\ j # i
      <4>1. i < j => c[i] < c[j]
        BY <1>1 DEF Ascending
      <4>2. ~(c[i] < c[j]) /\ c[i] # c[j]
        BY <3>2, <3>4
      <4> QED
        BY <4>1, <4>2
    <3>7. ASSUME j < i - 1 PROVE FALSE
      <4>1. c[j] < c[i - 1]
        BY <1>1, <3>1, <3>4, <3>7 DEF Ascending
      <4> QED
        BY <3>2, <3>4, <4>1
    <3>8. j = i - 1
      BY <3>1, <3>5, <3>6, <3>7
    <3> QED
      BY <2>1, <2>3, <3>4, <3>8
  <2> QED
    BY <2>2, <2>3
<1> QED
  BY <1>2 DEF Audit!linked, Audit!Genesis

\* In a chain that is linked, everything is there that its entries were put on.
LEMMA NoGap ==
  ASSUME TrailInv, ~replaced, Audit!linked(trail), NEW k \in DOMAIN trail
  PROVE  \A f \in beneath[trail[k]] : Holds(trail, f)
<1>1. /\ DOMAIN trail = 1..Len(trail) /\ Len(trail) \in Nat
      /\ \A i \in DOMAIN trail : trail[i] \in 1..Len(prev)
      /\ Len(prev) \in Nat
  BY TrailShapes DEF TrailInv
<1>2. ASSUME NEW n \in DOMAIN trail, \A i \in DOMAIN trail : i < n => \A f \in beneath[trail[i]] : Holds(trail, f)
      PROVE  \A f \in beneath[trail[n]] : Holds(trail, f)
  <2> TAKE f \in beneath[trail[n]]
  <2> DEFINE e == trail[n]
             p == prev[e]
  <2>1. e \in 1..Len(prev) /\ Chained(e)
    BY <1>1 DEF TrailInv
  <2>2. p \in beneath[e] /\ f <= p /\ p \in 1..(e - 1) /\ f \in 1..(e - 1)
    BY <2>1 DEF Chained
  <2>3. p = IF n = 1 THEN 0 ELSE trail[n - 1]
    BY DEF Audit!linked, Audit!Genesis
  <2>4. n - 1 \in DOMAIN trail /\ n - 1 < n /\ p = trail[n - 1]
    BY <1>1, <2>1, <2>2, <2>3
  <2>5. CASE f = p
    BY <2>4, <2>5 DEF Holds
  <2>6. CASE f # p
    <3>1. f < p
      BY <2>1, <2>2, <2>6
    <3>2. f \in beneath[p]
      BY <2>1, <2>2, <3>1 DEF Chained
    <3> QED
      BY <1>2, <2>4, <3>2
  <2> QED
    BY <2>5, <2>6
<1> DEFINE P == {n \in 1..Len(trail) : ~\A f \in beneath[trail[n]] : Holds(trail, f)}
<1>3. P = {}
  <2> SUFFICES ASSUME P # {} PROVE FALSE
    OBVIOUS
  <2>1. P \in SUBSET Nat
    BY <1>1
  <2>2. PICK n \in P : \A y \in P : ~(y < n)
    <3> HIDE DEF P
    <3> QED
      BY <2>1, Smallest
  <2>3. \A i \in DOMAIN trail : i < n => \A f \in beneath[trail[i]] : Holds(trail, f)
    BY <1>1, <2>2
  <2> QED
    BY <1>1, <1>2, <2>2, <2>3
<1> QED
  BY <1>1, <1>3

\* An entry is chained, and put on its way.
LEMMA TrailRecords ==
  ASSUME TrailInv, Audit!Record PROVE TrailInv'
<1> DEFINE n == Len(prev)
           e == n + 1
           p == Audit!chainedTo
           b == Audit!ToSet(trail)
           newPrev == Append(prev, p)
           newBeneath == Append(beneath, b)
           newTrail == Append(trail, e)
<1>1. /\ prev' = newPrev /\ beneath' = newBeneath /\ trail' = newTrail
      /\ puts' = puts \cup {e}
      /\ UNCHANGED <<altered, table, writing, archive, lost, replaced, acked>>
  BY DEF Audit!Record
<1>2. TrailTypes /\ writing \in Seq(Nat) /\ archive \in Seq(Nat)
  BY DEF TrailInv, TrailTypes
<1>3. /\ trail \in Seq(Nat) /\ prev \in Seq(Nat) /\ beneath \in Seq(SUBSET Nat)
      /\ n \in Nat /\ Len(trail) \in Nat /\ Len(beneath) = n
      /\ DOMAIN trail = 1..Len(trail) /\ DOMAIN prev = 1..n /\ DOMAIN beneath = 1..n
      /\ \A i \in DOMAIN trail : trail[i] \in Nat
      /\ puts \cup table \subseteq 1..n /\ acked \subseteq table
      /\ lost \in BOOLEAN /\ replaced \in BOOLEAN /\ altered \subseteq Revealing
  BY <1>2, TrailShapes DEF TrailTypes
<1>4. b = {trail[i] : i \in 1..Len(trail)} /\ b \in SUBSET Nat
  BY <1>3 DEF Audit!ToSet
<1>5. p = IF Len(trail) = 0 THEN 0 ELSE trail[Len(trail)]
  BY <1>3 DEF Audit!chainedTo, Audit!Last, Audit!Genesis
<1>6. p \in Nat
  BY <1>3, <1>5
<1> HIDE DEF p, b
<1>7. /\ newPrev \in Seq(Nat) /\ Len(newPrev) = n + 1 /\ newPrev[n + 1] = p
      /\ \A i \in 1..n : newPrev[i] = prev[i]
  BY <1>3, <1>6, AppendProperties
<1>8. /\ newBeneath \in Seq(SUBSET Nat) /\ Len(newBeneath) = n + 1 /\ newBeneath[n + 1] = b
      /\ \A i \in 1..n : newBeneath[i] = beneath[i]
  BY <1>3, <1>4, AppendProperties
<1>9. /\ newTrail \in Seq(Nat) /\ Len(newTrail) = Len(trail) + 1 /\ newTrail[Len(trail) + 1] = e
      /\ \A i \in 1..Len(trail) : newTrail[i] = trail[i]
      /\ DOMAIN newTrail = 1..(Len(trail) + 1)
  <2>1. e \in Nat
    BY <1>3
  <2>2. /\ newTrail \in Seq(Nat) /\ Len(newTrail) = Len(trail) + 1
        /\ newTrail[Len(trail) + 1] = e
        /\ \A i \in 1..Len(trail) : newTrail[i] = trail[i]
    BY <1>3, <2>1, AppendProperties
  <2> HIDE DEF newTrail, e
  <2> QED
    BY <2>2, LenProperties
<1> HIDE DEF newPrev, newBeneath, newTrail
<1>10. TrailTypes'
  BY <1>1, <1>2, <1>3, <1>7, <1>8, <1>9 DEF TrailTypes
<1> USE DEF e
<1>11. ASSUME ~replaced
       PROVE  /\ Ascending(trail') /\ \A i \in DOMAIN trail' : trail'[i] \in 1..Len(prev')
              /\ \A x \in puts' \cup table' : Holds(trail', x)
              /\ \A i, j \in DOMAIN trail' : i < j => trail'[i] \in beneath'[trail'[j]]
              /\ \A x \in 1..Len(prev') : Chained(x)'
  <2>1. /\ Ascending(trail) /\ \A i \in 1..Len(trail) : trail[i] \in 1..n
        /\ \A x \in puts \cup table : Holds(trail, x)
        /\ \A i, j \in 1..Len(trail) : i < j => trail[i] \in beneath[trail[j]]
        /\ \A x \in 1..n : Chained(x)
    BY <1>3, <1>11 DEF TrailInv
  <2>2. \A i, j \in 1..Len(trail) : i < j => trail[i] < trail[j]
    BY <1>3, <2>1 DEF Ascending
  <2>3. Ascending(newTrail) /\ \A i \in 1..(Len(trail) + 1) : newTrail[i] \in 1..(n + 1)
    <3>1. \A i \in 1..(Len(trail) + 1) : newTrail[i] \in 1..(n + 1)
      <4> TAKE i \in 1..(Len(trail) + 1)
      <4>1. i = Len(trail) + 1 \/ i \in 1..Len(trail)
        BY <1>3
      <4> QED
        BY <1>3, <1>9, <2>1, <4>1
    <3>2. ASSUME NEW i \in 1..(Len(trail) + 1), NEW j \in 1..(Len(trail) + 1), i < j
          PROVE  newTrail[i] < newTrail[j]
      <4>1. i \in 1..Len(trail) /\ (j = Len(trail) + 1 \/ j \in 1..Len(trail))
        BY <1>3, <3>2, PlacesOf
      <4>2. CASE j = Len(trail) + 1
        <5>1. newTrail[i] \in 1..n /\ newTrail[j] = n + 1
          BY <1>9, <2>1, <4>1, <4>2
        <5> QED
          BY <1>3, <5>1
      <4>3. CASE j \in 1..Len(trail)
        BY <1>9, <2>2, <3>2, <4>1, <4>3
      <4> QED
        BY <4>1, <4>2, <4>3
    <3> QED
      BY <1>9, <3>1, <3>2 DEF Ascending
  <2>4. \A x \in puts' \cup table' : Holds(newTrail, x)
    <3> TAKE x \in puts' \cup table'
    <3>1. CASE x = e
      <4>1. Len(trail) + 1 \in DOMAIN newTrail
        BY <1>3, <1>9
      <4> QED
        BY <1>9, <3>1, <4>1 DEF Holds
    <3>2. CASE x # e
      <4>1. x \in puts \cup table
        BY <1>1, <3>2
      <4>2. PICK i \in DOMAIN trail : trail[i] = x
        BY <2>1, <4>1 DEF Holds
      <4>3. i \in DOMAIN newTrail /\ newTrail[i] = x
        BY <1>3, <1>9, <4>2
      <4> QED
        BY <4>3 DEF Holds
    <3> QED
      BY <3>1, <3>2
  <2>5. ASSUME NEW i \in DOMAIN newTrail, NEW j \in DOMAIN newTrail, i < j
        PROVE  newTrail[i] \in newBeneath[newTrail[j]]
    <3>1. i \in 1..Len(trail) /\ j \in 1..(Len(trail) + 1) /\ newTrail[i] = trail[i]
      BY <1>3, <1>9, <2>5
    <3>2. CASE j = Len(trail) + 1
      BY <1>4, <1>8, <1>9, <3>1, <3>2
    <3>3. CASE j # Len(trail) + 1
      <4>1. j \in 1..Len(trail) /\ newTrail[j] = trail[j]
        BY <1>3, <1>9, <3>1, <3>3
      <4> QED
        BY <1>8, <2>1, <2>5, <3>1, <4>1
    <3> QED
      BY <3>2, <3>3
  <2>6. ASSUME NEW x \in 1..(n + 1) PROVE Chained(x)'
    <3>1. CASE x = n + 1
      <4>1. beneath'[x] = b /\ prev'[x] = p
        BY <1>1, <1>7, <1>8, <3>1
      <4>2. b \subseteq 1..(x - 1)
        BY <1>3, <1>4, <2>1, <3>1
      <4>3. CASE Len(trail) = 0
        <5>1. b = {} /\ p = 0
          BY <1>4, <1>5, <4>3
        <5> QED
          BY <4>1, <5>1 DEF Chained
      <4>4. CASE Len(trail) # 0
        <5>1. Len(trail) \in 1..Len(trail) /\ p = trail[Len(trail)]
          BY <1>3, <1>5, <4>4
        <5>2. p \in b /\ b # {}
          BY <1>4, <5>1
        <5>3. \A f \in b : f <= p
          <6> TAKE f \in b
          <6>1. PICK i \in 1..Len(trail) : trail[i] = f
            BY <1>4
          <6>2. i = Len(trail) \/ i < Len(trail)
            BY <1>3, PlacesOf
          <6>3. f = p \/ f < p
            BY <2>2, <5>1, <6>1, <6>2
          <6> QED
            BY <1>4, <5>2, <6>3
        <5>4. \A f, g \in b : f < g => f \in beneath[g] /\ g \in 1..n
          <6> TAKE f, g \in b
          <6> HAVE f < g
          <6>1. PICK i \in 1..Len(trail) : trail[i] = f
            BY <1>4
          <6>2. PICK j \in 1..Len(trail) : trail[j] = g
            BY <1>4
          <6>3. f \in Nat /\ g \in Nat
            BY <1>4
          <6>4. i < j
            <7>1. j < i => g < f
              BY <2>2, <6>1, <6>2
            <7>2. i # j
              BY <6>1, <6>2, <6>3
            <7> QED
              BY <6>3, <7>1, <7>2
          <6> QED
            BY <2>1, <6>1, <6>2, <6>4
        <5>5. \A f, g \in b : f < g => f \in beneath'[g]
          BY <1>1, <1>8, <5>4
        <5> QED
          BY <4>1, <4>2, <5>2, <5>3, <5>5 DEF Chained
      <4> QED
        BY <4>3, <4>4
    <3>2. CASE x # n + 1
      <4>1. x \in 1..n
        BY <1>3, <3>2
      <4>2. beneath'[x] = beneath[x] /\ prev'[x] = prev[x] /\ Chained(x)
        BY <1>1, <1>7, <1>8, <2>1, <4>1
      <4>3. \A g \in beneath[x] : g \in 1..n
        BY <1>3, <4>1, <4>2 DEF Chained
      <4>4. \A g \in beneath[x] : beneath'[g] = beneath[g]
        BY <1>1, <1>8, <4>3
      <4> QED
        BY <4>2, <4>4 DEF Chained
    <3> QED
      BY <3>1, <3>2
  <2> QED
    BY <1>1, <1>7, <1>9, <2>3, <2>4, <2>5, <2>6
<1>12. ASSUME ~lost, ~replaced
       PROVE  /\ UpTill(trail', Len(prev')) /\ puts' \cup table' = 1..Len(prev')
              /\ \A x \in 1..Len(prev') : prev'[x] = x - 1
              /\ \A a \in {writing', archive'} : a = Audit!NoArchive \/ \E m \in 0..Len(prev') : UpTill(a, m)
  <2>1. /\ UpTill(trail, n) /\ puts \cup table = 1..n
        /\ \A x \in 1..n : prev[x] = x - 1
        /\ \A a \in {writing, archive} : a = Audit!NoArchive \/ \E m \in 0..n : UpTill(a, m)
    BY <1>12 DEF TrailInv
  <2>2. /\ Ascending(newTrail) /\ \A i \in DOMAIN newTrail : newTrail[i] \in 1..(n + 1)
        /\ \A x \in puts' \cup table' : Holds(newTrail, x)
    BY <1>1, <1>7, <1>11, <1>12
  <2>3. puts' \cup table' = 1..(n + 1)
    BY <1>1, <1>3, <2>1
  <2>4. UpTill(newTrail, n + 1)
    BY <1>9, <2>2, <2>3 DEF UpTill
  <2>5. p = n
    <3>1. CASE n = 0
      <4>1. Len(trail) = 0
        <5>1. \A i \in 1..Len(trail) : trail[i] \in 1..0
          BY <1>3, <2>1, <3>1 DEF UpTill
        <5> QED
          BY <1>3, <5>1
      <4> QED
        BY <1>5, <3>1, <4>1
    <3>2. CASE n # 0
      <4>1. n \in 1..n
        BY <1>3, <3>2
      <4>2. PICK i \in 1..Len(trail) : trail[i] = n
        BY <1>3, <2>1, <4>1 DEF UpTill, Holds
      <4>3. Len(trail) \in 1..Len(trail) /\ trail[Len(trail)] \in 1..n /\ p = trail[Len(trail)]
        <5>1. Len(trail) \in 1..Len(trail)
          BY <1>3, <4>2
        <5>2. trail[Len(trail)] \in 1..n
          BY <1>3, <2>1, <5>1 DEF UpTill
        <5> QED
          BY <1>5, <5>1, <5>2
      <4>4. i = Len(trail) \/ i < Len(trail)
        BY <1>3, PlacesOf
      <4>5. i < Len(trail) => trail[i] < trail[Len(trail)]
        BY <1>3, <2>1, <4>3 DEF UpTill, Ascending
      <4> QED
        BY <4>2, <4>3, <4>4, <4>5
    <3> QED
      BY <3>1, <3>2
  <2>6. \A x \in 1..(n + 1) : newPrev[x] = x - 1
    <3> TAKE x \in 1..(n + 1)
    <3>1. x = n + 1 \/ x \in 1..n
      BY <1>3
    <3> QED
      BY <1>3, <1>7, <2>1, <2>5, <3>1
  <2>7. \A a \in {writing, archive} : a = Audit!NoArchive \/ \E m \in 0..(n + 1) : UpTill(a, m)
    <3>1. 0..n \subseteq 0..(n + 1)
      BY <1>3
    <3> QED
      BY <2>1, <3>1
  <2>8. Audit!NoArchive' = Audit!NoArchive
    BY DEF Audit!NoArchive, Audit!Genesis
  <2> QED
    BY <1>1, <1>7, <2>3, <2>4, <2>6, <2>7
<1> QED
  BY <1>1, <1>10, <1>11, <1>12 DEF TrailInv

\* A row lands, or is lost.
LEMMA TrailPuts ==
  ASSUME TrailInv, NEW e \in puts, NEW ok \in BOOLEAN, Audit!PutReturns(e, ok) PROVE TrailInv'
<1>1. /\ puts' = puts \ {e} /\ lost' = (lost \/ ~ok)
      /\ table' = (IF ok THEN table \cup {e} ELSE table)
      /\ acked' = (IF ok THEN acked \cup {e} ELSE acked)
      /\ UNCHANGED <<trail, altered, prev, beneath, writing, archive, replaced>>
  BY DEF Audit!PutReturns
<1>2. TrailTypes'
  BY <1>1 DEF TrailInv, TrailTypes
<1>3. puts' \cup table' \subseteq puts \cup table
  BY <1>1
<1>4. ~replaced' =>
        /\ Ascending(trail') /\ \A i \in DOMAIN trail' : trail'[i] \in 1..Len(prev')
        /\ \A x \in puts' \cup table' : Holds(trail', x)
        /\ \A i, j \in DOMAIN trail' : i < j => trail'[i] \in beneath'[trail'[j]]
        /\ \A x \in 1..Len(prev') : Chained(x)'
  BY <1>1, <1>3 DEF TrailInv, Chained
<1>5. ~lost' /\ ~replaced' =>
        /\ UpTill(trail', Len(prev')) /\ puts' \cup table' = 1..Len(prev')
        /\ \A x \in 1..Len(prev') : prev'[x] = x - 1
        /\ \A a \in {writing', archive'} :
             a = Audit!NoArchive' \/ \E m \in 0..Len(prev') : UpTill(a, m)
  <2> SUFFICES ASSUME ~lost', ~replaced'
               PROVE  /\ UpTill(trail', Len(prev')) /\ puts' \cup table' = 1..Len(prev')
                      /\ \A x \in 1..Len(prev') : prev'[x] = x - 1
                      /\ \A a \in {writing', archive'} :
                           a = Audit!NoArchive' \/ \E m \in 0..Len(prev') : UpTill(a, m)
    OBVIOUS
  <2>1. ok /\ ~lost /\ ~replaced
    BY <1>1
  <2>2. puts' \cup table' = puts \cup table
    BY <1>1, <2>1
  <2> QED
    BY <1>1, <2>1, <2>2 DEF TrailInv, Audit!NoArchive, Audit!Genesis
<1>6. ~replaced' => altered' = {}
  BY <1>1 DEF TrailInv
<1> QED
  BY <1>2, <1>4, <1>5, <1>6 DEF TrailInv

\* The chain is exported, and the archive takes the place of the one before.
LEMMA TrailBackups ==
  ASSUME TrailInv, Audit!BackupBegins \/ Audit!BackupLands PROVE TrailInv'
<1>1. /\ UNCHANGED <<trail, altered, prev, beneath, puts, table, lost, replaced, acked>>
      /\ \/ writing' = trail /\ archive' = archive
         \/ writing' = Audit!NoArchive /\ archive' = writing
  BY DEF Audit!BackupBegins, Audit!BackupLands
<1>2. Audit!NoArchive \in Seq(Nat) /\ Audit!NoArchive' = Audit!NoArchive
  BY DEF Audit!NoArchive, Audit!Genesis
<1>3. TrailTypes'
  BY <1>1, <1>2 DEF TrailInv, TrailTypes
<1>4. ~replaced' =>
        /\ Ascending(trail') /\ \A i \in DOMAIN trail' : trail'[i] \in 1..Len(prev')
        /\ \A x \in puts' \cup table' : Holds(trail', x)
        /\ \A i, j \in DOMAIN trail' : i < j => trail'[i] \in beneath'[trail'[j]]
        /\ \A x \in 1..Len(prev') : Chained(x)'
  BY <1>1 DEF TrailInv, Chained
<1>5. ASSUME ~lost', ~replaced'
      PROVE  /\ UpTill(trail', Len(prev')) /\ puts' \cup table' = 1..Len(prev')
             /\ \A x \in 1..Len(prev') : prev'[x] = x - 1
             /\ \A a \in {writing', archive'} :
                  a = Audit!NoArchive' \/ \E m \in 0..Len(prev') : UpTill(a, m)
  <2>1. /\ UpTill(trail, Len(prev)) /\ puts \cup table = 1..Len(prev)
        /\ \A x \in 1..Len(prev) : prev[x] = x - 1
        /\ \A a \in {writing, archive} :
             a = Audit!NoArchive \/ \E m \in 0..Len(prev) : UpTill(a, m)
    BY <1>1, <1>5 DEF TrailInv
  <2>2. Len(prev) \in 0..Len(prev)
    BY TrailShapes DEF TrailInv
  <2>3. \A a \in {trail, writing, archive, Audit!NoArchive} :
             a = Audit!NoArchive \/ \E m \in 0..Len(prev) : UpTill(a, m)
    BY <2>1, <2>2
  <2> QED
    BY <1>1, <1>2, <2>1, <2>3
<1>6. ~replaced' => altered' = {}
  BY <1>1 DEF TrailInv
<1> QED
  BY <1>3, <1>4, <1>5, <1>6 DEF TrailInv

\* A backup takes the place of the chain.
LEMMA TrailReplaced ==
  ASSUME TrailInv, Audit!RestoreBackup PROVE TrailInv'
<1>1. /\ UNCHANGED <<prev, beneath, puts, table, writing, archive, lost, acked>>
      /\ trail' = archive /\ replaced' = TRUE /\ altered' = Audit!redacted(archive)
  BY DEF Audit!RestoreBackup
<1>2. TrailTypes'
  BY <1>1 DEF TrailInv, TrailTypes, Audit!redacted
<1> QED
  BY <1>1, <1>2 DEF TrailInv

\* The process dies, and the table is read in the order of the timestamps.
LEMMA TrailRestarts ==
  ASSUME TrailInv, NEW landed \in SUBSET puts, Audit!Restart(landed) PROVE TrailInv'
<1>1. /\ puts' = {} /\ table' = table \cup landed /\ lost' = (lost \/ landed # puts)
      /\ trail' \in Audit!restored(table') /\ altered' = {} /\ writing' = Audit!NoArchive
      /\ UNCHANGED <<prev, beneath, archive, replaced, acked>>
  BY DEF Audit!Restart
<1>2. /\ trail' \in Audit!Chains /\ Audit!ToSet(trail') = table'
      /\ \A i, j \in DOMAIN trail' : i < j => trail'[i] < trail'[j]
  BY <1>1 DEF Audit!restored
<1>3. trail' \in Seq(Nat) /\ DOMAIN trail' = 1..Len(trail')
  <2>1. PICK m \in 0..MaxEntries : trail' \in [1..m -> 1..MaxEntries]
    BY <1>2 DEF Audit!Chains, Audit!BoundedSeq, Audit!SeqOf, Audit!Entries
  <2>2. m \in Nat /\ \A i \in 1..m : trail'[i] \in Nat
    BY <2>1
  <2>3. trail' \in [1..m -> Nat]
    BY <2>1, <2>2
  <2>4. trail' \in Seq(Nat)
    BY <2>2, <2>3, SeqDef
  <2> QED
    BY <2>4, LenProperties
<1>4. Audit!NoArchive \in Seq(Nat) /\ Audit!NoArchive' = Audit!NoArchive
  BY DEF Audit!NoArchive, Audit!Genesis
<1>5. TrailTypes /\ table' \subseteq puts \cup table
  BY <1>1 DEF TrailInv
<1>6. TrailTypes'
  BY <1>1, <1>3, <1>4, <1>5 DEF TrailTypes
<1>7. Ascending(trail') /\ \A x : x \in table' <=> \E i \in DOMAIN trail' : trail'[i] = x
  BY <1>2 DEF Ascending, Audit!ToSet
<1>8. ASSUME ~replaced
      PROVE  /\ \A i \in DOMAIN trail' : trail'[i] \in 1..Len(prev')
             /\ \A x \in puts' \cup table' : Holds(trail', x)
             /\ \A i, j \in DOMAIN trail' : i < j => trail'[i] \in beneath'[trail'[j]]
             /\ \A x \in 1..Len(prev') : Chained(x)'
  <2>1. /\ Ascending(trail) /\ \A x \in puts \cup table : Holds(trail, x)
        /\ \A i, j \in DOMAIN trail : i < j => trail[i] \in beneath[trail[j]]
        /\ \A x \in 1..Len(prev) : Chained(x)
    BY <1>8 DEF TrailInv
  <2>2. puts \cup table \subseteq 1..Len(prev)
    BY DEF TrailInv, TrailTypes
  <2>3. \A i \in DOMAIN trail' : trail'[i] \in table' /\ trail'[i] \in 1..Len(prev')
    BY <1>1, <1>5, <1>7, <2>2
  <2>4. ASSUME NEW i \in DOMAIN trail', NEW j \in DOMAIN trail', i < j
        PROVE  trail'[i] \in beneath'[trail'[j]]
    <3>1. trail'[i] < trail'[j]
      BY <1>2, <2>4
    <3>2. PICK k \in DOMAIN trail : trail[k] = trail'[i]
      BY <1>5, <2>1, <2>3 DEF Holds
    <3>3. PICK l \in DOMAIN trail : trail[l] = trail'[j]
      BY <1>5, <2>1, <2>3 DEF Holds
    <3>4. DOMAIN trail = 1..Len(trail) /\ trail[k] \in Nat /\ trail[l] \in Nat
      BY <1>5, TrailShapes
    <3>5. k < l
      <4>1. l < k => trail[l] < trail[k]
        BY <2>1 DEF Ascending
      <4>2. trail[k] < trail[l] /\ trail[k] # trail[l]
        BY <3>1, <3>2, <3>3, <3>4
      <4>3. k # l /\ ~(l < k)
        BY <3>4, <4>1, <4>2
      <4> QED
        BY <3>4, <4>3
    <3> QED
      BY <1>1, <2>1, <3>2, <3>3, <3>5
  <2>5. \A x \in puts' \cup table' : Holds(trail', x)
    BY <1>1, <1>7 DEF Holds
  <2>6. \A x \in 1..Len(prev') : Chained(x)'
    BY <1>1, <2>1 DEF Chained
  <2> QED
    BY <2>3, <2>4, <2>5, <2>6
<1>9. ASSUME ~lost', ~replaced
      PROVE  /\ UpTill(trail', Len(prev')) /\ puts' \cup table' = 1..Len(prev')
             /\ \A x \in 1..Len(prev') : prev'[x] = x - 1
             /\ \A a \in {writing', archive'} :
                  a = Audit!NoArchive' \/ \E m \in 0..Len(prev') : UpTill(a, m)
  <2>1. /\ puts \cup table = 1..Len(prev) /\ \A x \in 1..Len(prev) : prev[x] = x - 1
        /\ \A a \in {writing, archive} :
             a = Audit!NoArchive \/ \E m \in 0..Len(prev) : UpTill(a, m)
    BY <1>1, <1>9 DEF TrailInv
  <2>2. table' = 1..Len(prev)
    BY <1>1, <1>9, <2>1
  <2>3. UpTill(trail', Len(prev))
    BY <1>3, <1>7, <2>2 DEF UpTill, Holds
  <2> QED
    BY <1>1, <1>4, <2>1, <2>2, <2>3
<1> QED
  BY <1>1, <1>6, <1>7, <1>8, <1>9 DEF TrailInv

\* Every step of the trail keeps the invariant.
LEMMA TrailStep == TrailInv /\ [Audit!Next]_trailVars => TrailInv'
<1> SUFFICES ASSUME TrailInv, [Audit!Next]_trailVars PROVE TrailInv'
  OBVIOUS
<1>1. CASE UNCHANGED trailVars
  BY <1>1 DEF trailVars, TrailInv, TrailTypes, Chained, Audit!NoArchive, Audit!Genesis
<1> QED
  BY <1>1, TrailRecords, TrailPuts, TrailBackups, TrailReplaced, TrailRestarts DEF Audit!Next

\* At first nothing was recorded.
LEMMA TrailStarts == Audit!Init => TrailInv
<1> SUFFICES ASSUME Audit!Init PROVE TrailInv
  OBVIOUS
<1>1. /\ trail = <<>> /\ prev = <<>> /\ beneath = <<>> /\ puts = {} /\ table = {} /\ acked = {}
      /\ writing = Audit!NoArchive /\ archive = Audit!NoArchive
      /\ lost = FALSE /\ replaced = FALSE /\ altered = {}
  BY DEF Audit!Init
<1>2. Audit!NoArchive \in Seq(Nat)
  BY DEF Audit!NoArchive, Audit!Genesis
<1>3. Len(prev) = 0 /\ 1..Len(prev) = {} /\ DOMAIN trail = {}
  BY <1>1
<1>4. TrailTypes
  <2>1. trail \in Seq(Nat) /\ prev \in Seq(Nat) /\ beneath \in Seq(SUBSET Nat) /\ Len(beneath) = Len(prev)
    BY <1>1, EmptySeq
  <2> QED
    BY <1>1, <1>2, <2>1 DEF TrailTypes
<1>5. UpTill(trail, Len(prev))
  BY <1>1, <1>3 DEF UpTill, Ascending, Holds
<1> QED
  BY <1>1, <1>3, <1>4, <1>5 DEF TrailInv, Ascending, Holds

\* What the invariant says of the trail.
LEMMA TrailIsTrue ==
  TrailInv => Audit!AlarmIsTrue /\ Audit!AckedIsKept /\ Audit!GapIsSeen /\ Audit!ArchiveIsWhole
<1> SUFFICES ASSUME TrailInv
             PROVE  Audit!AlarmIsTrue /\ Audit!AckedIsKept /\ Audit!GapIsSeen /\ Audit!ArchiveIsWhole
  OBVIOUS
<1>1. Len(prev) \in Nat /\ DOMAIN prev = 1..Len(prev)
  BY TrailShapes DEF TrailInv
<1>2. Audit!AlarmIsTrue
  <2> SUFFICES ASSUME ~lost, ~replaced PROVE Audit!intact(trail, altered)
    BY DEF Audit!AlarmIsTrue
  <2>1. Audit!linked(trail)
    BY <1>1, WholeIsLinked DEF TrailInv
  <2>2. altered = {}
    BY DEF TrailInv
  <2> QED
    BY <2>1, <2>2 DEF Audit!intact
<1>3. Audit!AckedIsKept
  BY DEF Audit!AckedIsKept, TrailInv, TrailTypes, Ascending, Holds, Audit!ToSet
<1>4. Audit!GapIsSeen
  BY NoGap DEF Audit!GapIsSeen, Audit!intact, Holds, Audit!ToSet
<1>5. ASSUME archive # Audit!NoArchive, ~lost, ~replaced
      PROVE  /\ Audit!linked(archive)
             /\ Audit!redacted(archive) = {} => Audit!intact(archive, Audit!redacted(archive))
             /\ \A e \in DOMAIN prev :
                  e <= (IF archive = <<>> THEN 0 ELSE Audit!Last(archive)) => e \in Audit!ToSet(archive)
  <2>1. PICK m \in 0..Len(prev) : UpTill(archive, m)
    BY <1>5 DEF TrailInv
  <2>2. m \in Nat /\ \A e \in 1..m : prev[e] = e - 1
    BY <1>1, <1>5, <2>1 DEF TrailInv
  <2>3. /\ Audit!linked(archive)
        /\ Audit!redacted(archive) = {} => Audit!intact(archive, Audit!redacted(archive))
    BY <2>1, <2>2, WholeIsLinked DEF Audit!intact
  <2>4. ASSUME NEW e \in DOMAIN prev,
               e <= (IF archive = <<>> THEN 0 ELSE Audit!Last(archive))
        PROVE  e \in Audit!ToSet(archive)
    <3>1. archive # <<>> /\ archive \in Seq(Nat) /\ e \in 1..Len(prev)
      BY <1>1, <2>1, <2>4 DEF UpTill
    <3>2. Len(archive) \in DOMAIN archive
      BY <3>1, LenProperties, EmptySeq
    <3>3. archive[Len(archive)] \in 1..m /\ e <= archive[Len(archive)]
      BY <2>1, <2>4, <3>1, <3>2 DEF UpTill, Audit!Last
    <3>4. e \in 1..m
      BY <2>2, <3>1, <3>3
    <3> QED
      BY <2>1, <3>4 DEF UpTill, Holds, Audit!ToSet
  <2> QED
    BY <2>3, <2>4
<1>6. Audit!ArchiveIsWhole
  BY <1>5 DEF Audit!ArchiveIsWhole
<1> QED
  BY <1>2, <1>3, <1>4, <1>6

-------------------------------------------------------------------------------
(* PaperTrading: the books.                                                  *)

Open ==
  /\ position.side \in {1, -1} /\ {position.entry, position.stop, position.quantity} \subseteq Int

TradingTypes ==
  /\ bar \in Nat /\ equity \in Int /\ closed \in Int
  /\ account \in [peak : Int, dayStart : Int, marked : Int]
  /\ pending \in Trading!Signals \cup {Trading!None} /\ (position # Trading!None => Open)

\* While a run goes on, what is realised is what its trades made; the last bar closes what is
\* open, so that there the last mark is.
TradingInv ==
  /\ TradingTypes
  /\ bar < MaxBars => equity = Equity + closed
  /\ bar = MaxBars => account.marked = Equity + closed

\* A trade makes a whole amount.
LEMMA TradesAreWhole ==
  ASSUME NEW p, NEW exit \in Int,
         p.side \in {1, -1}, p.entry \in Int, p.quantity \in Int
  PROVE  Trading!profit(p, exit) \in Int
<1> DEFINE gain == exit - p.entry
           times == gain * p.quantity
<1>1. gain \in Int
  OBVIOUS
<1> HIDE DEF gain
<1>2. times \in Int
  BY <1>1
<1>3. Trading!profit(p, exit) = times * p.side
  BY DEF Trading!profit, gain
<1> HIDE DEF times
<1> QED
  BY <1>2, <1>3

\* What a signal is sized at is a whole number.
LEMMA SizesAreWhole ==
  ASSUME TradingTypes, NEW s \in Trading!Signals
  PROVE  Trading!quantity(s) \in Int
<1> DEFINE risk == account.marked * Risked
           room == account.marked * MaxPosition
           apart == s.side * (s.price - s.stop)
<1>1. s.side \in {1, -1} /\ s.price \in Nat \ {0} /\ s.stop \in Nat \ {0} /\ apart > 0
  BY CoreAssumption DEF Trading!Signals
<1>2. account.marked \in Int /\ Risked \in Int /\ MaxPosition \in Int
  BY CoreAssumption DEF TradingTypes
<1>3. risk \in Int /\ room \in Int
  BY <1>2
<1>4. apart \in Nat \ {0}
  BY <1>1
<1>5. 100 * s.side * (s.price - s.stop) = 100 * apart
  BY <1>1
<1> HIDE DEF risk, room, apart
<1>6. risk \div (100 * apart) \in Int /\ room \div (100 * s.price) \in Int
  BY <1>1, <1>3, <1>4
<1> DEFINE x == risk \div (100 * apart)
           y == room \div (100 * s.price)
<1>7. Trading!quantity(s) = Trading!least(x, y)
  BY <1>5 DEF Trading!quantity, risk, room
<1> HIDE DEF x, y
<1> QED
  BY <1>6, <1>7 DEF Trading!least, x, y

\* A bar keeps the books.
LEMMA BarIsBooked ==
  ASSUME TradingInv, NEW b \in Trading!Bars, NEW newDay \in BOOLEAN,
         NEW signal \in Trading!Signals \cup {Trading!None}, Trading!Walk(b, newDay, signal)
  PROVE  TradingInv'
<1> DEFINE out == Trading!stopped(b)
           standing == Trading!filled(b, IF out THEN Trading!None ELSE position)
           exits == IF out THEN Trading!profit(position, position.stop) ELSE 0
           floating == IF standing = Trading!None THEN 0 ELSE Trading!profit(standing, b.close)
           ends == bar + 1 = MaxBars
           value == Trading!realised(b) + floating
<1>1. /\ bar \in Nat /\ MaxBars \in Nat /\ Equity \in Int /\ equity \in Int /\ closed \in Int
      /\ account \in [peak : Int, dayStart : Int, marked : Int]
  BY CoreAssumption DEF TradingInv, TradingTypes
<1>2. b.open \in Int /\ b.close \in Int
  BY CoreAssumption DEF Trading!Bars
<1>3. out => position # Trading!None
  BY DEF Trading!stopped
<1>4. exits \in Int
  <2>1. CASE out
    <3>1. Open
      BY <1>3, <2>1 DEF TradingInv, TradingTypes
    <3> QED
      BY <2>1, <3>1, TradesAreWhole DEF Open
  <2> QED
    BY <2>1
<1>5. Trading!realised(b) = equity + exits
  BY <1>1 DEF Trading!realised
<1>6. standing # Trading!None =>
        /\ standing.side \in {1, -1}
        /\ standing.entry \in Int /\ standing.stop \in Int /\ standing.quantity \in Int
  <2> DEFINE rest == IF out THEN Trading!None ELSE position
  <2>1. rest # Trading!None => Open /\ rest = position
    BY DEF TradingInv, TradingTypes
  <2>2. CASE standing = rest
    BY <2>1, <2>2 DEF Open
  <2>3. CASE standing # rest
    <3>1. /\ pending # Trading!None
          /\ standing = [side |-> pending.side, stop |-> pending.stop, entry |-> b.open,
                     quantity |-> Trading!quantity(pending),
                     pierced |-> IF pending.side = 1 THEN b.low <= pending.stop
                                                     ELSE b.high >= pending.stop]
      BY <2>3 DEF Trading!filled
    <3>2. pending \in Trading!Signals
      BY <3>1 DEF TradingInv, TradingTypes
    <3>3. pending.side \in {1, -1} /\ pending.stop \in Int
      <4>1. pending \in [side : {1, -1}, price : Prices, stop : Prices]
        BY <3>2, Zenon DEF Trading!Signals
      <4>2. Prices \subseteq Int
        BY CoreAssumption
      <4> QED
        BY <4>1, <4>2
    <3>4. Trading!quantity(pending) \in Int
      BY <3>2, SizesAreWhole DEF TradingInv
    <3> QED
      BY <1>2, <3>1, <3>3, <3>4
  <2> QED
    BY <2>2, <2>3
<1>7. floating \in Int
  <2> HIDE DEF standing
  <2> QED
    BY <1>2, <1>6, TradesAreWhole
<1>8. /\ account' = Trading!mark(account, value, newDay \/ bar = 0) /\ bar < MaxBars /\ bar' = bar + 1
      /\ equity' = Trading!realised(b)
      /\ closed' = closed + exits + (IF ends THEN floating ELSE 0)
      /\ position' = (IF ends THEN Trading!None ELSE standing) /\ pending' = signal
  BY DEF Trading!Walk
<1> HIDE DEF out, standing, exits, floating, ends
<1>9. value \in Int /\ value = equity + exits + floating
  BY <1>1, <1>4, <1>5, <1>7
<1> HIDE DEF value
<1>10. account' \in [peak : Int, dayStart : Int, marked : Int] /\ account'.marked = value
  BY <1>1, <1>8, <1>9 DEF Trading!mark
<1>11. TradingTypes'
  <2>1. position' # Trading!None => Open'
    BY <1>6, <1>8 DEF Open
  <2>2. bar' \in Nat /\ equity' \in Int /\ closed' \in Int
    BY <1>1, <1>4, <1>5, <1>7, <1>8
  <2>3. pending' \in Trading!Signals \cup {Trading!None}
    BY <1>8
  <2> QED
    BY <1>10, <2>1, <2>2, <2>3 DEF TradingTypes
<1>12. equity = Equity + closed
  BY <1>8 DEF TradingInv
<1>13. bar' < MaxBars => equity' = Equity + closed'
  BY <1>1, <1>4, <1>5, <1>8, <1>12 DEF ends
<1>14. bar' = MaxBars => account'.marked = Equity + closed'
  BY <1>1, <1>4, <1>7, <1>8, <1>9, <1>10, <1>12 DEF ends
<1> QED
  BY <1>11, <1>13, <1>14 DEF TradingInv

\* A run that begins has nothing on its books.
LEMMA TradingStarts == Trading!Init => TradingInv
<1>1. MaxBars \in Nat /\ Equity \in Int
  BY CoreAssumption
<1>2. Trading!Init =>
        account \in [peak : Int, dayStart : Int, marked : Int] /\ account.marked = Equity
  BY <1>1 DEF Trading!Fresh, Trading!Init
<1> QED
  BY <1>1, <1>2 DEF TradingInv, TradingTypes, Trading!Init

\* Nothing else touches the books, but a run that begins opens new ones.
LEMMA TradingStep == TradingInv /\ [Trading!Next]_tradingVars => TradingInv'
<1> SUFFICES ASSUME TradingInv, [Trading!Next]_tradingVars PROVE TradingInv'
  OBVIOUS
<1>1. CASE Trading!StartRun
  <2>1. /\ bar' = 0 /\ equity' = Equity /\ closed' = 0 /\ account' = Trading!Fresh
        /\ position' = Trading!None /\ pending' = Trading!None
    BY <1>1 DEF Trading!StartRun
  <2>2. MaxBars \in Nat /\ Equity \in Int
    BY CoreAssumption
  <2>3. account' \in [peak : Int, dayStart : Int, marked : Int] /\ account'.marked = Equity
    BY <2>1, <2>2 DEF Trading!Fresh
  <2> QED
    BY <2>1, <2>2, <2>3 DEF TradingInv, TradingTypes
<1>2. CASE Trading!Resume
  BY <1>2 DEF Trading!Resume, TradingInv, TradingTypes, Open
<1>3. CASE \E b \in Trading!Bars, newDay \in BOOLEAN, s \in Trading!Signals \cup {Trading!None} :
             Trading!Walk(b, newDay, s)
  BY <1>3, BarIsBooked
<1>4. CASE UNCHANGED tradingVars
  BY <1>4 DEF tradingVars, TradingInv, TradingTypes, Open
<1> QED
  BY <1>1, <1>2, <1>3, <1>4 DEF Trading!Next

-------------------------------------------------------------------------------
(* Backups: archives and the updates that take one first.                    *)

Content == [of : Nat, secret : BOOLEAN]
Sheets == UNION {[S -> Content] : S \in SUBSET Backup!PartSet}
Archives == [format : Nat, data : Sheets, sums : Sheets]
Held == [Backup!PartSet -> Content]
Attempts == [version : Versions, over : Versions, state : Held,
             outcome : {"installed", "failed", "refused"}]

BackupTypes ==
  /\ live \in Held /\ worked \in Nat
  /\ files \in [Backup!Files -> Archives] /\ taken \in [Backup!Files -> Held]
  /\ current \in Versions /\ updates \in Seq(Attempts)

\* What is refused whatever the disk does next; or the checksums of what was there, redacted.
Sound(a, was) ==
  \/ a.format # 1 \/ ~(Backup!PartSet \subseteq DOMAIN a.data)
  \/ \A p \in DOMAIN a.sums : a.sums[p] = Backup!redacted(was)[p]

\* Versions only rise, and no attempt after the last one of a version has touched its backup.
Rises ==
  \A i \in 1..Len(updates) : updates[i].outcome = "installed" =>
    /\ updates[i].over <= updates[i].version /\ updates[i].version <= current
    /\ \A j \in (i + 1)..Len(updates) : updates[i].version <= updates[j].over
    /\ (\A j \in (i + 1)..Len(updates) :
          updates[j].outcome = "refused" \/ updates[j].version # updates[i].version)
       => taken[Backup!preUpdate(updates[i].version)] = updates[i].state

BackupInv == BackupTypes /\ (\A f \in Backup!Files : Sound(files[f], taken[f])) /\ Rises

\* Rows of which a credential was taken out.
Clean(c) == [of |-> c.of, secret |-> FALSE]

\* Redacting takes the credentials out and leaves the rest.
LEMMA RedactedIsClean ==
  ASSUME NEW h \in Held
  PROVE  /\ Backup!redacted(h) \in Held
         /\ \A p \in Backup!PartSet : /\ ~Backup!redacted(h)[p].secret
                                      /\ Backup!redacted(h)[p].of = h[p].of
                                      /\ h[p].secret \/ Backup!redacted(h)[p] = h[p]
<1>1. \A c \in Content :
        Clean(c) \in Content /\ ~Clean(c).secret /\ Clean(c).of = c.of /\ (c.secret \/ Clean(c) = c)
  <2> TAKE c \in Content
  <2>1. c = [of |-> c.of, secret |-> c.secret] /\ c.of \in Nat /\ c.secret \in BOOLEAN
    BY DEF Content
  <2>2. Clean(c) \in Content /\ ~Clean(c).secret /\ Clean(c).of = c.of
    BY <2>1 DEF Clean, Content
  <2>3. c.secret \/ Clean(c) = c
    <3>1. c.secret = TRUE \/ c.secret = FALSE
      BY <2>1
    <3>2. c.secret = FALSE => Clean(c) = c
      BY <2>1 DEF Clean
    <3> QED
      BY <3>1, <3>2
  <2> QED
    BY <2>2, <2>3
<1>2. Backup!redacted(h) = [p \in Backup!PartSet |-> Clean(h[p])]
  BY DEF Backup!redacted, Clean
<1>3. \A p \in Backup!PartSet : h[p] \in Content /\ Backup!redacted(h)[p] = Clean(h[p])
  BY <1>2 DEF Held
<1>4. Backup!redacted(h) \in Held
  BY <1>1, <1>2, <1>3 DEF Held
<1> QED
  BY <1>1, <1>3, <1>4

\* A sheet on which a row was overwritten or cut off.
LEMMA SheetsSuffer ==
  ASSUME NEW d \in Sheets, NEW p \in DOMAIN d, NEW n \in Content
  PROVE  /\ [d EXCEPT ![p] = n] \in Sheets /\ DOMAIN [d EXCEPT ![p] = n] = DOMAIN d
         /\ [q \in DOMAIN d \ {p} |-> d[q]] \in Sheets
<1>1. PICK S \in SUBSET Backup!PartSet : d \in [S -> Content]
  BY DEF Sheets
<1>2. [d EXCEPT ![p] = n] \in [S -> Content] /\ [q \in DOMAIN d \ {p} |-> d[q]] \in [S \ {p} -> Content]
  BY <1>1
<1>3. S \ {p} \in SUBSET Backup!PartSet
  BY <1>1
<1> QED
  BY <1>1, <1>2, <1>3 DEF Sheets

\* Writing a file writes what is held, redacted, with its checksums.
LEMMA WrittenIsSound ==
  ASSUME BackupTypes
  PROVE  Backup!written \in Archives /\ Sound(Backup!written, live)
<1>1. Backup!redacted(live) \in Sheets
  <2>1. Backup!redacted(live) \in Held
    BY RedactedIsClean DEF BackupTypes
  <2> QED
    BY <2>1 DEF Held, Sheets
<1>2. Backup!written.sums = Backup!redacted(live) /\ Backup!written \in Archives
  BY <1>1 DEF Backup!written, Archives
<1> QED
  BY <1>2 DEF Sound

\* A file that is written anew leaves every file sound.
LEMMA FileIsWritten ==
  ASSUME BackupInv, NEW f \in Backup!Files, NEW a \in Archives, NEW was \in Held, Sound(a, was),
         files' = [files EXCEPT ![f] = a], taken' = [taken EXCEPT ![f] = was]
  PROVE  /\ files' \in [Backup!Files -> Archives] /\ taken' \in [Backup!Files -> Held]
         /\ \A g \in Backup!Files : Sound(files'[g], taken'[g])
<1>1. files \in [Backup!Files -> Archives] /\ taken \in [Backup!Files -> Held]
  BY DEF BackupInv, BackupTypes
<1>2. files' \in [Backup!Files -> Archives] /\ taken' \in [Backup!Files -> Held]
  BY <1>1
<1>3. \A g \in Backup!Files : /\ files'[g] = IF g = f THEN a ELSE files[g]
                              /\ taken'[g] = IF g = f THEN was ELSE taken[g]
  BY <1>1
<1> QED
  BY <1>2, <1>3 DEF BackupInv

\* An attempt is the last of its version, over what is installed.
LEMMA AttemptRises ==
  ASSUME BackupInv, NEW r \in Backup!Releases, NEW outcome \in {"installed", "failed", "refused"},
         updates' = Append(updates, Backup!attempted(r, outcome)),
         current' \in Versions, current <= current', current <= r.version,
         outcome = "installed" => r.version <= current',
         IF outcome = "refused" THEN taken' = taken
         ELSE taken' = [taken EXCEPT ![Backup!preUpdate(r.version)] = live]
  PROVE  updates' \in Seq(Attempts) /\ Rises'
<1> DEFINE n == Len(updates)
           new == Backup!attempted(r, outcome)
<1>1. /\ live \in Held /\ taken \in [Backup!Files -> Held] /\ current \in Versions
      /\ updates \in Seq(Attempts)
  BY DEF BackupInv, BackupTypes
<1>2. r.version \in Versions /\ Backup!preUpdate(r.version) \in Backup!Files
  BY DEF Backup!Releases, Backup!Files
<1>3. new \in Attempts
  BY <1>1, <1>2 DEF Backup!attempted, Attempts
<1>4. /\ new.version = r.version /\ new.over = current /\ new.outcome = outcome /\ new.state = live
  BY DEF Backup!attempted
<1> HIDE DEF new
<1>5. /\ updates' \in Seq(Attempts) /\ n \in Nat /\ Len(updates') = n + 1
      /\ updates'[n + 1] = new /\ \A i \in 1..n : updates'[i] = updates[i]
  BY <1>1, <1>3, AppendProperties, LenProperties DEF new
<1>6. \A i \in 1..n : updates[i] \in Attempts
  BY <1>1, ElementOfSeq
<1> HIDE DEF n
<1>7. current \in Nat /\ current' \in Nat /\ r.version \in Nat
  BY <1>1, <1>2, CoreAssumption
<1>8. ASSUME NEW i \in 1..(n + 1), updates'[i].outcome = "installed"
      PROVE  /\ updates'[i].over <= updates'[i].version /\ updates'[i].version <= current'
             /\ \A j \in (i + 1)..(n + 1) : updates'[i].version <= updates'[j].over
             /\ (\A j \in (i + 1)..(n + 1) :
                   updates'[j].outcome = "refused" \/ updates'[j].version # updates'[i].version)
                => taken'[Backup!preUpdate(updates'[i].version)] = updates'[i].state
  <2>1. CASE i = n + 1
    <3>1. updates'[i] = new /\ \A j \in (i + 1)..(n + 1) : FALSE
      BY <1>5, <2>1
    <3>2. outcome = "installed" /\ taken' = [taken EXCEPT ![Backup!preUpdate(r.version)] = live]
      BY <1>4, <1>8, <3>1
    <3>3. taken'[Backup!preUpdate(r.version)] = live
      BY <1>1, <1>2, <3>2
    <3> QED
      BY <1>4, <1>7, <3>1, <3>2, <3>3
  <2>2. CASE i \in 1..n
    <3>1. /\ updates'[i] = updates[i] /\ updates[i] \in Attempts
          /\ updates[i].over <= updates[i].version /\ updates[i].version <= current
          /\ \A j \in (i + 1)..n : updates[i].version <= updates[j].over
          /\ (\A j \in (i + 1)..n :
                updates[j].outcome = "refused" \/ updates[j].version # updates[i].version)
             => taken[Backup!preUpdate(updates[i].version)] = updates[i].state
      BY <1>5, <1>6, <1>8, <2>2 DEF BackupInv, Rises, n
    <3>2. updates[i].version \in Versions /\ updates[i].version \in Nat
      BY <3>1, CoreAssumption DEF Attempts
    <3>3. updates[i].version <= current'
      BY <1>7, <3>1, <3>2
    <3>4. ASSUME NEW j \in (i + 1)..(n + 1) PROVE updates'[i].version <= updates'[j].over
      <4>1. CASE j = n + 1
        BY <1>4, <1>5, <3>1, <4>1
      <4>2. CASE j # n + 1
        <5>1. j \in 1..n /\ j \in (i + 1)..n
          BY <1>5, <2>2, <3>4, <4>2
        <5> QED
          BY <1>5, <3>1, <5>1
      <4> QED
        BY <4>1, <4>2
    <3>5. ASSUME \A j \in (i + 1)..(n + 1) :
                   updates'[j].outcome = "refused" \/ updates'[j].version # updates'[i].version
          PROVE  taken'[Backup!preUpdate(updates'[i].version)] = updates'[i].state
      <4>1. ASSUME NEW j \in (i + 1)..n
            PROVE  updates[j].outcome = "refused" \/ updates[j].version # updates[i].version
        <5>1. j \in (i + 1)..(n + 1) /\ j \in 1..n
          BY <1>5, <2>2, <4>1
        <5> QED
          BY <1>5, <3>1, <3>5, <5>1
      <4>2. taken[Backup!preUpdate(updates[i].version)] = updates[i].state
        BY <3>1, <4>1
      <4>3. n + 1 \in (i + 1)..(n + 1)
        BY <1>5, <2>2
      <4>4. outcome = "refused" \/ r.version # updates[i].version
        BY <1>4, <1>5, <3>1, <3>5, <4>3
      <4>5. Backup!preUpdate(updates[i].version) \in Backup!Files
        BY <3>2 DEF Backup!Files
      <4>6. r.version # updates[i].version =>
              Backup!preUpdate(r.version) # Backup!preUpdate(updates[i].version)
        BY DEF Backup!preUpdate
      <4>7. taken'[Backup!preUpdate(updates[i].version)]
              = taken[Backup!preUpdate(updates[i].version)]
        BY <1>1, <4>4, <4>5, <4>6
      <4> QED
        BY <3>1, <4>2, <4>7
    <3> QED
      BY <3>1, <3>3, <3>4, <3>5
  <2> QED
    BY <1>5, <2>1, <2>2
<1>9. Len(updates') = n + 1 /\ updates' \in Seq(Attempts)
  BY <1>5
<1> QED
  BY <1>8, <1>9 DEF Rises

\* Without an attempt, and if no update's backup is written anew, the history stands.
LEMMA HistoryStands ==
  ASSUME BackupInv, UNCHANGED <<updates, current>>,
         \A v \in Versions : taken'[Backup!preUpdate(v)] = taken[Backup!preUpdate(v)]
  PROVE  updates' \in Seq(Attempts) /\ current' \in Versions /\ Rises'
<1>1. updates \in Seq(Attempts) /\ current \in Versions
  BY DEF BackupInv, BackupTypes
<1>2. \A i \in 1..Len(updates) : updates[i].version \in Versions
  <2>1. \A i \in 1..Len(updates) : updates[i] \in Attempts
    BY <1>1, ElementOfSeq
  <2> QED
    BY <2>1 DEF Attempts
<1>3. Rises
  BY DEF BackupInv
<1> QED
  BY <1>1, <1>2, <1>3 DEF Rises

\* What can be restored is what was held, redacted.
LEMMA ProblemsAreSeen ==
  ASSUME NEW a \in Archives, NEW was \in Held, Sound(a, was), ~Backup!problems(a)
  PROVE  a.data = Backup!redacted(was)
<1>1. PICK S \in SUBSET Backup!PartSet : a.data \in [S -> Content]
  BY DEF Archives, Sheets
<1>2. PICK U \in SUBSET Backup!PartSet : a.sums \in [U -> Content]
  BY DEF Archives, Sheets
<1>3. /\ Backup!PartSet \subseteq DOMAIN a.data /\ DOMAIN a.data \subseteq DOMAIN a.sums
      /\ \A p \in DOMAIN a.sums : a.data[p] = a.sums[p]
  BY DEF Backup!problems
<1>4. \A p \in DOMAIN a.sums : a.sums[p] = Backup!redacted(was)[p]
  BY <1>3 DEF Backup!problems, Sound
<1>5. S = Backup!PartSet /\ \A p \in Backup!PartSet : a.data[p] = Backup!redacted(was)[p]
  BY <1>1, <1>2, <1>3, <1>4
<1>6. Backup!redacted(was) \in [Backup!PartSet -> Content]
  BY RedactedIsClean DEF Held
<1> QED
  BY <1>1, <1>5, <1>6

\* What the invariant says of the archives and the updates.
LEMMA BackupIsTrue == BackupInv => Backup!VerifiedIsWhole /\ Backup!UpdateCanBeTakenBack
<1> SUFFICES ASSUME BackupInv PROVE Backup!VerifiedIsWhole /\ Backup!UpdateCanBeTakenBack
  OBVIOUS
<1>1. \A f \in Backup!Files : ~Backup!problems(files[f]) => files[f].data = Backup!redacted(taken[f])
  BY ProblemsAreSeen DEF BackupInv, BackupTypes
<1>2. ASSUME NEW i \in 1..Len(updates), updates[i].outcome = "installed"
      PROVE  /\ updates[i].version >= updates[i].over
             /\ \A j \in (i + 1)..Len(updates) : updates[j].over >= updates[i].version
             /\ (/\ ~Backup!problems(files[Backup!preUpdate(updates[i].version)])
                 /\ \A j \in (i + 1)..Len(updates) :
                      updates[j].outcome = "refused" \/ updates[j].version # updates[i].version)
                => files[Backup!preUpdate(updates[i].version)].data = Backup!redacted(updates[i].state)
  <2>1. updates \in Seq(Attempts) /\ Len(updates) \in Nat
    BY LenProperties DEF BackupInv, BackupTypes
  <2>2. \A j \in 1..Len(updates) : updates[j] \in Attempts
    BY <2>1, ElementOfSeq
  <2>3. \A j \in 1..Len(updates) :
          updates[j].version \in Versions /\ updates[j].version \in Nat /\ updates[j].over \in Nat
    BY <2>2, CoreAssumption DEF Attempts
  <2>4. Backup!preUpdate(updates[i].version) \in Backup!Files
    BY <2>3 DEF Backup!Files
  <2>5. /\ updates[i].over <= updates[i].version
        /\ \A j \in (i + 1)..Len(updates) : updates[i].version <= updates[j].over
        /\ (\A j \in (i + 1)..Len(updates) :
              updates[j].outcome = "refused" \/ updates[j].version # updates[i].version)
           => taken[Backup!preUpdate(updates[i].version)] = updates[i].state
    BY <1>2 DEF BackupInv, Rises
  <2>6. \A j \in (i + 1)..Len(updates) : j \in 1..Len(updates)
    BY <2>1
  <2> QED
    BY <1>1, <2>3, <2>4, <2>5, <2>6
<1>3. Backup!VerifiedIsWhole
  <2> SUFFICES ASSUME NEW f \in Backup!Files, ~Backup!problems(files[f])
               PROVE  /\ DOMAIN files[f].data = Backup!PartSet
                      /\ \A p \in Backup!PartSet :
                           ~files[f].data[p].secret /\ files[f].data[p].of = taken[f][p].of
                      /\ \A p \in Backup!PartSet :
                           taken[f][p].secret \/ files[f].data[p] = taken[f][p]
    BY DEF Backup!VerifiedIsWhole
  <2>1. taken[f] \in Held /\ files[f].data = Backup!redacted(taken[f])
    BY <1>1 DEF BackupInv, BackupTypes
  <2>2. Backup!redacted(taken[f]) \in [Backup!PartSet -> Content]
    BY <2>1, RedactedIsClean DEF Held
  <2> QED
    BY <2>1, <2>2, RedactedIsClean
<1> QED
  BY <1>2, <1>3 DEF Backup!UpdateCanBeTakenBack

\* A backup is taken, or one of another build is brought: those that are layouts of its own
\* lack a part, or are of a version that is refused.
LEMMA FileComes ==
  ASSUME BackupInv, NEW n \in ArchiveNames,
         Backup!Create(<<"backup", n>>) \/ Backup!Brought(<<"backup", n>>)
  PROVE  BackupInv'
<1> DEFINE f == <<"backup", n>>
<1>1. f \in Backup!Files /\ \A v \in Versions : Backup!preUpdate(v) # f
  BY DEF Backup!Files, Backup!preUpdate
<1>2. /\ live \in Held /\ worked \in Nat /\ current \in Versions
      /\ files \in [Backup!Files -> Archives] /\ taken \in [Backup!Files -> Held]
  BY DEF BackupInv, BackupTypes
<1>3. PICK a \in Archives, was \in Held :
        /\ Sound(a, was) /\ files' = [files EXCEPT ![f] = a] /\ taken' = [taken EXCEPT ![f] = was]
  <2>1. CASE Backup!Create(f)
    BY <1>2, <2>1, WrittenIsSound DEF Backup!Create, BackupInv
  <2>2. CASE Backup!Brought(f)
    <3>1. PICK without \in BOOLEAN :
            LET left_ == IF without THEN Backup!PartSet \ {Parts[Len(Parts)]} ELSE Backup!PartSet IN
            files' = [files EXCEPT ![f] = [format |-> IF without THEN 1 ELSE 2,
                                           data |-> [p \in left_ |-> Backup!NoRows],
                                           sums |-> [p \in left_ |-> Backup!NoRows]]]
      BY <2>2 DEF Backup!Brought
    <3> DEFINE S == IF without THEN Backup!PartSet \ {Parts[Len(Parts)]} ELSE Backup!PartSet
               sheet == [p \in S |-> Backup!NoRows]
               a == [format |-> IF without THEN 1 ELSE 2, data |-> sheet, sums |-> sheet]
    <3>2. sheet \in Sheets /\ DOMAIN sheet = S
      <4>1. S \in SUBSET Backup!PartSet /\ sheet \in [S -> Content]
        BY DEF Backup!NoRows, Content
      <4> HIDE DEF S, sheet
      <4> QED
        BY <4>1 DEF Sheets
    <3>3. without => ~(Backup!PartSet \subseteq S)
      BY DEF Backup!PartSet, Parts
    <3> HIDE DEF S, sheet
    <3>4. a \in Archives /\ Sound(a, taken[f])
      BY <3>2, <3>3 DEF Archives, Sound
    <3>5. files' = [files EXCEPT ![f] = a]
      BY <3>1 DEF S, sheet
    <3>6. taken' = taken /\ taken = [taken EXCEPT ![f] = taken[f]] /\ taken[f] \in Held
      BY <1>1, <1>2, <2>2 DEF Backup!Brought
    <3> HIDE DEF a
    <3> QED
      BY <3>4, <3>5, <3>6
  <2> QED
    BY <2>1, <2>2
<1>4. UNCHANGED <<live, worked, updates, current>>
  BY DEF Backup!Create, Backup!Brought
<1>5. \A v \in Versions : taken'[Backup!preUpdate(v)] = taken[Backup!preUpdate(v)]
  BY <1>1, <1>2, <1>3 DEF Backup!Files
<1> HIDE DEF f
<1>6. updates' \in Seq(Attempts) /\ current' \in Versions /\ Rises'
  BY <1>4, <1>5, HistoryStands
<1>7. /\ files' \in [Backup!Files -> Archives] /\ taken' \in [Backup!Files -> Held]
      /\ \A g \in Backup!Files : Sound(files'[g], taken'[g])
  BY <1>1, <1>3, FileIsWritten
<1> QED
  BY <1>2, <1>4, <1>6, <1>7 DEF BackupInv, BackupTypes

\* The disk fails under a file: its checksums do not change but for those that are lost.
LEMMA FileSuffers ==
  ASSUME BackupInv, NEW f \in Backup!Files, Backup!Damaged(f)
  PROVE  BackupInv'
<1>1. /\ files \in [Backup!Files -> Archives] /\ taken \in [Backup!Files -> Held]
      /\ Backup!Garbled \in Content
  BY CoreAssumption DEF BackupInv, BackupTypes, Backup!Garbled, Content
<1> DEFINE old == files[f]
<1>2. old \in Archives /\ Sound(old, taken[f]) /\ taken[f] \in Held
  BY <1>1 DEF BackupInv
<1>3. old.data \in Sheets /\ old.sums \in Sheets /\ old.format \in Nat
  BY <1>2 DEF Archives
<1>4. PICK p \in DOMAIN old.data :
        \/ files' = [files EXCEPT ![f].data[p] = Backup!Garbled]
        \/ files' = [files EXCEPT ![f].data = [q \in DOMAIN @ \ {p} |-> @[q]]]
        \/ files' = [files EXCEPT ![f].sums = [q \in DOMAIN @ \ {p} |-> @[q]]]
  BY DEF Backup!Damaged
<1>5. PICK a \in Archives : Sound(a, taken[f]) /\ files' = [files EXCEPT ![f] = a]
  <2>1. CASE files' = [files EXCEPT ![f].data[p] = Backup!Garbled]
    <3> DEFINE d == [old.data EXCEPT ![p] = Backup!Garbled]
               a == [old EXCEPT !.data = d]
    <3>1. d \in Sheets /\ DOMAIN d = DOMAIN old.data
      BY <1>1, <1>3, SheetsSuffer
    <3> HIDE DEF d
    <3>2. a \in Archives /\ a.format = old.format /\ a.sums = old.sums /\ a.data = d
      BY <1>2, <3>1 DEF Archives
    <3>3. files' = [files EXCEPT ![f] = a]
      BY <1>1, <2>1 DEF d
    <3> HIDE DEF a, old
    <3>4. Sound(a, taken[f])
      BY <1>2, <3>1, <3>2 DEF Sound
    <3> QED
      BY <3>2, <3>3, <3>4
  <2>2. CASE files' = [files EXCEPT ![f].data = [q \in DOMAIN @ \ {p} |-> @[q]]]
    <3> DEFINE d == [q \in DOMAIN old.data \ {p} |-> old.data[q]]
               a == [old EXCEPT !.data = d]
    <3>1. d \in Sheets /\ DOMAIN d \subseteq DOMAIN old.data
      BY <1>1, <1>3, SheetsSuffer
    <3> HIDE DEF d
    <3>2. a \in Archives /\ a.format = old.format /\ a.sums = old.sums /\ a.data = d
      BY <1>2, <3>1 DEF Archives
    <3>3. files' = [files EXCEPT ![f] = a]
      BY <1>1, <2>2 DEF d
    <3> HIDE DEF a, old
    <3>4. Sound(a, taken[f])
      BY <1>2, <3>1, <3>2 DEF Sound
    <3> QED
      BY <3>2, <3>3, <3>4
  <2>3. CASE files' = [files EXCEPT ![f].sums = [q \in DOMAIN @ \ {p} |-> @[q]]]
    <3> DEFINE d == [q \in DOMAIN old.sums \ {p} |-> old.sums[q]]
               a == [old EXCEPT !.sums = d]
    <3>1. d \in Sheets /\ \A q \in DOMAIN d : q \in DOMAIN old.sums /\ d[q] = old.sums[q]
      <4>1. PICK S \in SUBSET Backup!PartSet : old.sums \in [S -> Content]
        BY <1>3 DEF Sheets
      <4>2. d \in [S \ {p} -> Content] /\ S \ {p} \in SUBSET Backup!PartSet
        BY <4>1
      <4> QED
        BY <4>1, <4>2 DEF Sheets
    <3> HIDE DEF d
    <3>2. a \in Archives /\ a.format = old.format /\ a.data = old.data /\ a.sums = d
      BY <1>2, <3>1 DEF Archives
    <3>3. files' = [files EXCEPT ![f] = a]
      BY <1>1, <2>3 DEF d
    <3> HIDE DEF a, old
    <3>4. Sound(a, taken[f])
      BY <1>2, <3>1, <3>2 DEF Sound
    <3> QED
      BY <3>2, <3>3, <3>4
  <2> QED
    BY <1>4, <2>1, <2>2, <2>3
<1>6. UNCHANGED <<live, worked, taken, updates, current>>
  BY DEF Backup!Damaged
<1>7. taken' = [taken EXCEPT ![f] = taken[f]]
  BY <1>1, <1>6
<1> HIDE DEF old
<1>8. updates' \in Seq(Attempts) /\ current' \in Versions /\ Rises'
  BY <1>6, HistoryStands
<1>9. /\ files' \in [Backup!Files -> Archives] /\ taken' \in [Backup!Files -> Held]
      /\ \A g \in Backup!Files : Sound(files'[g], taken'[g])
  BY <1>2, <1>5, <1>7, FileIsWritten
<1> QED
  BY <1>6, <1>8, <1>9 DEF BackupInv, BackupTypes

\* An update is tried, after its backup or without it.
LEMMA UpdateIsTried ==
  ASSUME BackupInv, Backup!Install \/ Backup!InstallFails \/ Backup!BackupFails
  PROVE  BackupInv'
<1>1. live \in Held /\ current \in Versions /\ live' = live /\ worked' = worked /\ worked \in Nat
  BY DEF BackupInv, BackupTypes, Backup!Install, Backup!InstallFails, Backup!BackupFails,
     Backup!Applies
<1>2. PICK r \in Backup!offered, outcome \in {"installed", "failed", "refused"} :
        /\ r.version >= current /\ updates' = Append(updates, Backup!attempted(r, outcome))
        /\ current' = IF outcome = "installed" THEN r.version ELSE current
        /\ IF outcome = "refused" THEN UNCHANGED <<files, taken>>
           ELSE /\ files' = [files EXCEPT ![Backup!preUpdate(r.version)] = Backup!written]
                /\ taken' = [taken EXCEPT ![Backup!preUpdate(r.version)] = live]
  <2>1. CASE Backup!Install
    BY <2>1 DEF Backup!Install, Backup!Applies
  <2>2. CASE Backup!InstallFails
    BY <2>2 DEF Backup!InstallFails, Backup!Applies
  <2>3. CASE Backup!BackupFails
    BY <2>3 DEF Backup!BackupFails
  <2> QED
    BY <2>1, <2>2, <2>3
<1>3. r \in Backup!Releases /\ r.version \in Versions /\ r.version \in Nat /\ current \in Nat
  <2>1. r \in Backup!Releases
    BY DEF Backup!offered
  <2> QED
    BY <1>1, <2>1, CoreAssumption DEF Backup!Releases
<1>4. current' \in Versions /\ current <= current' /\ (outcome = "installed" => r.version <= current')
  BY <1>1, <1>2, <1>3
<1>5. current <= r.version
  BY <1>2, <1>3
<1>6. updates' \in Seq(Attempts) /\ Rises'
  BY <1>2, <1>3, <1>4, <1>5, AttemptRises
<1>7. /\ files' \in [Backup!Files -> Archives] /\ taken' \in [Backup!Files -> Held]
      /\ \A g \in Backup!Files : Sound(files'[g], taken'[g])
  <2>1. CASE outcome = "refused"
    BY <1>2, <2>1 DEF BackupInv, BackupTypes
  <2>2. CASE outcome # "refused"
    <3>1. Backup!preUpdate(r.version) \in Backup!Files
      BY <1>3 DEF Backup!Files
    <3>2. Backup!written \in Archives /\ Sound(Backup!written, live)
      BY WrittenIsSound DEF BackupInv
    <3> QED
      BY <1>1, <1>2, <2>2, <3>1, <3>2, FileIsWritten
  <2> QED
    BY <2>1, <2>2
<1> QED
  BY <1>1, <1>4, <1>6, <1>7 DEF BackupInv, BackupTypes

\* What is put back is of the type of what was there.
LEMMA LiveIsRestored ==
  ASSUME BackupInv, NEW f \in Backup!Files, Backup!Restore(f) \/ Backup!RestoreRaises(f)
  PROVE  BackupInv'
<1>1. PICK i : live' = Backup!restored(files[f], i) /\ ~Backup!problems(files[f])
  BY DEF Backup!Restore, Backup!RestoreRaises
<1>2. UNCHANGED <<worked, files, taken, current, updates>>
  BY DEF Backup!Restore, Backup!RestoreRaises
<1>3. files[f].data \in Held /\ live \in Held
  BY <1>1, ProblemsAreSeen, RedactedIsClean DEF BackupInv, BackupTypes
<1>4. live' \in Held
  BY <1>1, <1>3 DEF Backup!restored, Held
<1> QED
  BY <1>2, <1>4 DEF BackupInv, BackupTypes, Rises

\* Whatever happens, the archives stay sound and the updates can be taken back.
LEMMA BackupStep == BackupInv /\ [Backup!Next]_backupVars => BackupInv'
<1> SUFFICES ASSUME BackupInv, [Backup!Next]_backupVars PROVE BackupInv'
  OBVIOUS
<1>1. CASE \E p \in Backup!PartSet : Backup!Work(p)
  <2>1. PICK p \in Backup!PartSet : Backup!Work(p)
    BY <1>1
  <2>2. live \in Held /\ worked \in Nat
    BY DEF BackupInv, BackupTypes
  <2>3. live' \in Held /\ worked' \in Nat
    BY <2>1, <2>2 DEF Backup!Work, Held, Content
  <2> QED
    BY <2>1, <2>3 DEF Backup!Work, BackupInv, BackupTypes, Rises
<1>2. CASE \E n \in ArchiveNames : \/ Backup!Create(<<"backup", n>>)
                                   \/ Backup!Brought(<<"backup", n>>)
  BY <1>2, FileComes
<1>3. CASE \E f \in Backup!Files : Backup!Damaged(f)
  BY <1>3, FileSuffers
<1>4. CASE \E f \in Backup!Files : Backup!Restore(f) \/ Backup!RestoreRaises(f)
  BY <1>4, LiveIsRestored
<1>5. CASE Backup!Install \/ Backup!InstallFails \/ Backup!BackupFails
  BY <1>5, UpdateIsTried
<1>6. CASE UNCHANGED backupVars
  BY <1>6 DEF backupVars, BackupInv, BackupTypes, Rises
<1> QED
  BY <1>1, <1>2, <1>3, <1>4, <1>5, <1>6 DEF Backup!Next

\* There is nothing to restore yet.
LEMMA BackupStarts == Backup!Init => BackupInv
<1> SUFFICES ASSUME Backup!Init PROVE BackupInv
  OBVIOUS
<1>1. live \in Held /\ worked \in Nat /\ current \in Versions /\ updates = <<>>
  BY DEF Backup!Init, Backup!NoRows, Held, Content
<1>2. taken \in [Backup!Files -> Held]
  BY <1>1 DEF Backup!Init
<1> DEFINE none == Backup!NoArchive
<1>3. none \in Archives /\ none.format # 1
  <2>1. <<>> \in [{} -> Content] /\ {} \in SUBSET Backup!PartSet
    BY EmptySeq
  <2>2. <<>> \in Sheets
    BY <2>1 DEF Sheets
  <2>3. none = [format |-> 0, data |-> <<>>, sums |-> <<>>]
    BY DEF Backup!NoArchive
  <2> HIDE DEF none
  <2> QED
    BY <2>2, <2>3 DEF Archives
<1> HIDE DEF none
<1>4. files = [f \in Backup!Files |-> none]
  BY DEF Backup!Init, none
<1>5. files \in [Backup!Files -> Archives] /\ \A f \in Backup!Files : files[f].format # 1
  BY <1>3, <1>4
<1>6. updates \in Seq(Attempts) /\ Len(updates) = 0
  BY <1>1, EmptySeq
<1> QED
  BY <1>1, <1>2, <1>5, <1>6 DEF BackupInv, BackupTypes, Sound, Rises

-------------------------------------------------------------------------------
(* MediaRender: a render that is resumed.                                    *)

\* Every step reads files before it in the plan.
LEMMA PlanIsOrdered ==
  /\ Len(Plan) \in Nat \ {0} /\ Media!StepIds = 1..Len(Plan) /\ Media!Files = 0..Len(Plan)
  /\ \A i \in Media!StepIds : Plan[i] \subseteq 0..(i - 1)
BY DEF Plan, Media!StepIds, Media!Files

\* What an uninterrupted render makes depends on the picture and the arguments alone.
Intact(picture, args) ==
  CHOOSE f : f = [i \in Media!Files |->
                    IF i = Media!Source THEN picture
                    ELSE Media!Whole([args |-> args[i], from |-> [g \in Plan[i] |-> f[g]]])]

\* The recursion that defines it has a solution, so its equations hold.
LEMMA IntactUnfolds ==
  ASSUME NEW picture, NEW args
  PROVE  LET f == Intact(picture, args) IN
         /\ f[Media!Source] = picture
         /\ \A i \in Media!StepIds :
              f[i] = Media!Whole([args |-> args[i], from |-> [g \in Plan[i] |-> f[g]]])
<1> DEFINE Body(f, i) == IF i = 0 THEN picture
                         ELSE Media!Whole([args |-> args[i], from |-> [g \in Plan[i] |-> f[g]]])
           L == Len(Plan)
           A == { N \in Nat : N <= L => \E f : f = [i \in 0..N |-> Body(f, i)] }
<1>0. L \in Nat \ {0} /\ Media!StepIds = 1..L /\ Media!Files = 0..L
      /\ \A i \in 1..L : Plan[i] \subseteq 0..(i - 1)
  BY PlanIsOrdered
<1> HIDE DEF L
<1>1. 0 \in A
  <2> DEFINE f == [i \in 0..0 |-> picture]
  <2>1. f = [i \in 0..0 |-> Body(f, i)]
    OBVIOUS
  <2> QED
    BY <2>1
<1>2. ASSUME NEW N \in Nat, N \in A PROVE N + 1 \in A
  <2> SUFFICES ASSUME N + 1 <= L PROVE \E f : f = [i \in 0..(N + 1) |-> Body(f, i)]
    BY <1>2
  <2>0. N <= L
    BY <1>0
  <2>1. PICK f : f = [i \in 0..N |-> Body(f, i)]
    <3> HIDE DEF Body
    <3> QED
      BY <1>2, <2>0
  <2> DEFINE h == [i \in 0..(N + 1) |-> IF i = N + 1 THEN Body(f, N + 1) ELSE f[i]]
  <2>2. ASSUME NEW i \in 0..(N + 1) PROVE h[i] = Body(h, i)
    <3>1. i = 0 \/ Plan[i] \subseteq 0..(i - 1)
      BY <1>0
    <3>2. \A g \in 0..(i - 1) : g \in 0..N /\ h[g] = f[g]
      OBVIOUS
    <3>3. i = 0 \/ [g \in Plan[i] |-> h[g]] = [g \in Plan[i] |-> f[g]]
      <4> HIDE DEF h
      <4> QED
        BY <3>1, <3>2
    <3>4. Body(h, i) = Body(f, i)
      <4> HIDE DEF h
      <4> QED
        BY <3>3
    <3>5. CASE i = N + 1
      BY <3>4, <3>5
    <3>6. CASE i \in 0..N
      <4>1. f[i] = Body(f, i)
        BY <2>1, <3>6
      <4> QED
        BY <3>4, <3>6, <4>1
    <3> QED
      BY <3>5, <3>6
  <2>3. h = [i \in 0..(N + 1) |-> h[i]]
    OBVIOUS
  <2> HIDE DEF h
  <2>4. h = [i \in 0..(N + 1) |-> Body(h, i)]
    BY <2>2, <2>3
  <2> QED
    BY <2>4, SMTT(60)
<1>3. L \in A
  <2> HIDE DEF A
  <2>1. 0..L \subseteq A
    BY <1>0, <1>1, <1>2, UpTo
  <2> QED
    BY <1>0, <2>1
<1> DEFINE whole == CHOOSE f : f = [i \in 0..L |-> Body(f, i)]
<1>4. whole = [i \in 0..L |-> Body(whole, i)]
  <2> HIDE DEF Body
  <2>1. \E f : f = [i \in 0..L |-> Body(f, i)]
    BY <1>0, <1>3
  <2> QED
    BY <2>1
<1>5. Intact(picture, args) = whole
  BY <1>0 DEF Intact, Media!Source
<1> HIDE DEF whole
<1>6. \A i \in 0..L : whole[i] = Body(whole, i)
  BY <1>4
<1>7. 0 \in 0..L /\ \A i \in 1..L : i \in 0..L /\ i # 0
  BY <1>0
<1> QED
  BY <1>0, <1>5, <1>6, <1>7 DEF Media!Source

\* It is what the module calls wanted.
LEMMA WantedIs == Media!wanted = Intact(shelf[Media!Source], steps)
BY DEF Media!wanted, Intact

\* A file is there whole, there in part, or not there; the owner's own file is there.
Finished(f) == f.is = "whole"

ShelfTypes ==
  /\ DOMAIN shelf = Media!Files
  /\ \A f \in Media!Files : shelf[f] \in {Media!Missing, Media!Partial} \/ Finished(shelf[f])
  /\ Finished(shelf[Media!Source])

CallTypes ==
  /\ render.at \in {"idle", "next", "run"} /\ (render.at = "idle" <=> render = Media!Idle)
  /\ render # Media!Idle => render.step \in Media!StepIds /\ render.created \subseteq Media!StepIds
  /\ render.at = "run" => Finished(render.making)
  /\ report.created \subseteq Media!StepIds

\* What is whole was made of what is whole.
FromWhole(f, i) == \A g \in Plan[i] : Finished(f.of.from[g])

\* Until a cancelled call leaves its program behind, the files before the step under way are
\* whole or gone.
NoneInPart ==
  /\ left = Media!Source
  /\ render # Media!Idle =>
       \A i \in Media!StepIds : i < render.step => shelf[i] # Media!Partial
  /\ \A i \in Media!StepIds : Finished(shelf[i]) => FromWhole(shelf[i], i)
  /\ render.at = "run" => FromWhole(render.making, render.step)

\* Until the request changes, too, what is whole is what was asked for.
AsWanted ==
  /\ \A i \in Media!StepIds : Finished(shelf[i]) => shelf[i] = Media!wanted[i]
  /\ render.at = "run" => render.making = Media!wanted[render.step]
  /\ report.ok => report.got = report.asked

MediaInv ==
  /\ ShelfTypes /\ CallTypes /\ changed \in BOOLEAN /\ cut \in BOOLEAN
  /\ ~cut => NoneInPart
  /\ ~cut /\ ~changed => AsWanted

\* What is wanted stays while the picture and the arguments do.
LEMMA WantedStays ==
  steps' = steps /\ shelf'[Media!Source] = shelf[Media!Source] => Media!wanted' = Media!wanted
<1>1. Media!wanted' = Intact(shelf'[Media!Source], steps')
  BY DEF Media!wanted, Intact
<1> QED
  BY <1>1, WantedIs

\* One file is written, or taken away.
LEMMA FileBecomes ==
  ASSUME ShelfTypes, NEW i \in Media!StepIds, NEW f,
         f \in {Media!Missing, Media!Partial} \/ Finished(f),
         shelf' = [shelf EXCEPT ![i] = f], steps' = steps
  PROVE  /\ ShelfTypes' /\ Media!wanted' = Media!wanted
         /\ \A j \in Media!StepIds : shelf'[j] = IF j = i THEN f ELSE shelf[j]
<1>1. i \in Media!Files /\ i # Media!Source /\ Media!Source \in Media!Files
      /\ Media!StepIds \subseteq Media!Files
  BY PlanIsOrdered DEF Media!Source
<1>2. DOMAIN shelf' = Media!Files /\ \A j \in Media!Files : shelf'[j] = IF j = i THEN f ELSE shelf[j]
  BY DEF ShelfTypes
<1>3. shelf'[Media!Source] = shelf[Media!Source]
  BY <1>1, <1>2
<1> QED
  BY <1>1, <1>2, <1>3, WantedStays DEF ShelfTypes

\* A call is answered: nothing is under way, and an answer that says ok holds the last file.
LEMMA CallIsAnswered ==
  ASSUME NEW ok \in BOOLEAN, NEW created \in SUBSET Media!StepIds, Media!Answer(ok, created)
  PROVE  /\ CallTypes' /\ render' = Media!Idle /\ render'.at = "idle"
         /\ (report'.ok <=> ok)
         /\ ok => report'.got = shelf'[Len(Plan)] /\ report'.asked = Media!wanted[Len(Plan)]
<1>1. render' = Media!Idle /\ render'.at = "idle"
  BY DEF Media!Answer, Media!Idle
<1>2. CASE ok
  <2>1. report' = [ok |-> TRUE, created |-> created, got |-> shelf'[Len(Plan)],
                   asked |-> Media!wanted[Len(Plan)]]
    BY <1>2 DEF Media!Answer
  <2> QED
    BY <1>1, <1>2, <2>1 DEF CallTypes
<1>3. CASE ~ok
  <2>1. report' = [ok |-> FALSE, created |-> {}]
    BY <1>3 DEF Media!Answer, Media!Failed
  <2> QED
    BY <1>1, <1>3, <2>1 DEF CallTypes
<1> QED
  BY <1>2, <1>3

\* A step is over and its file is whole: the next one comes, or the answer.
LEMMA CallGoesOn ==
  ASSUME MediaInv, render # Media!Idle, NEW entries, NEW created \in SUBSET Media!StepIds,
         Media!GoOn(entries, created), ShelfTypes', UNCHANGED <<left, changed, cut>>,
         Media!wanted' = Media!wanted,
         \A j \in Media!StepIds : j # render.step => shelf'[j] = shelf[j],
         Finished(shelf'[render.step]),
         ~cut => FromWhole(shelf'[render.step], render.step),
         ~cut /\ ~changed => shelf'[render.step] = Media!wanted[render.step]
  PROVE  MediaInv'
<1> DEFINE i == render.step
<1>1. i \in Media!StepIds /\ Media!StepIds = 1..Len(Plan) /\ Len(Plan) \in Nat \ {0}
  BY PlanIsOrdered DEF MediaInv, CallTypes
<1>2. ~cut => \A j \in Media!StepIds : Finished(shelf'[j]) => FromWhole(shelf'[j], j)
  BY DEF MediaInv, NoneInPart
<1>3. ~cut /\ ~changed =>
        \A j \in Media!StepIds : Finished(shelf'[j]) => shelf'[j] = Media!wanted'[j]
  BY DEF MediaInv, AsWanted
<1>4. CASE i = Len(Plan)
  <2>1. Media!Answer(TRUE, created)
    BY <1>4 DEF Media!GoOn
  <2>2. /\ CallTypes' /\ render' = Media!Idle /\ render'.at = "idle" /\ report'.ok
        /\ report'.got = shelf'[Len(Plan)] /\ report'.asked = Media!wanted[Len(Plan)]
    BY <2>1, CallIsAnswered
  <2>3. (~cut)' => NoneInPart'
    BY <1>2, <2>2 DEF MediaInv, NoneInPart
  <2>4. (~cut /\ ~changed)' => AsWanted'
    BY <1>3, <1>4, <2>2 DEF AsWanted
  <2> QED
    BY <2>2, <2>3, <2>4 DEF MediaInv
<1>5. CASE i # Len(Plan)
  <2>1. /\ render' = [at |-> "next", step |-> i + 1, entries |-> entries, created |-> created]
        /\ report' = report
    BY <1>5 DEF Media!GoOn
  <2>2. i + 1 \in Media!StepIds
    BY <1>1, <1>5
  <2>3. /\ render'.at = "next" /\ render' # Media!Idle /\ render'.step = i + 1
        /\ render'.created = created
    BY <2>1 DEF Media!Idle
  <2>4. CallTypes'
    BY <2>1, <2>2, <2>3 DEF CallTypes, MediaInv
  <2>5. ASSUME ~cut, NEW j \in Media!StepIds, j < i + 1 PROVE shelf'[j] # Media!Partial
    <3>1. CASE j = i
      BY <3>1 DEF Finished, Media!Partial
    <3>2. CASE j # i
      BY <1>1, <2>5, <3>2 DEF MediaInv, NoneInPart
    <3> QED
      BY <3>1, <3>2
  <2>6. (~cut)' => NoneInPart'
    BY <1>2, <2>3, <2>5 DEF MediaInv, NoneInPart
  <2>7. (~cut /\ ~changed)' => AsWanted'
    BY <1>3, <2>1, <2>3 DEF MediaInv, AsWanted
  <2> QED
    BY <2>4, <2>6, <2>7 DEF MediaInv
<1> QED
  BY <1>4, <1>5

\* What the invariant asks of a state in which no call is under way and none was answered ok.
LEMMA NothingUnderWay ==
  ASSUME ShelfTypes', CallTypes', changed' \in BOOLEAN, cut' \in BOOLEAN,
         render' = Media!Idle, render'.at = "idle",
         ~cut' => /\ left' = Media!Source
                  /\ \A i \in Media!StepIds : Finished(shelf'[i]) => FromWhole(shelf'[i], i),
         ~cut' /\ ~changed' =>
           /\ \A i \in Media!StepIds : Finished(shelf'[i]) => shelf'[i] = Media!wanted'[i]
           /\ report'.ok => report'.got = report'.asked
  PROVE  MediaInv'
BY DEF MediaInv, NoneInPart, AsWanted

\* A call ends without an answer that says ok; a program it leaves behind is noted.
LEMMA CallFails ==
  ASSUME MediaInv, Media!Answer(FALSE, {}), UNCHANGED <<steps, shelf, changed>>,
         cut' \in BOOLEAN, cut \/ cut' \/ left' \in {left, Media!Source}, cut => cut'
  PROVE  MediaInv'
<1>1. CallTypes' /\ render' = Media!Idle /\ render'.at = "idle" /\ ~report'.ok
  BY CallIsAnswered
<1>2. Media!wanted' = Media!wanted
  BY WantedStays
<1>3. ShelfTypes' /\ changed' \in BOOLEAN
  BY DEF MediaInv, ShelfTypes
<1>4. ~cut' => /\ left' = Media!Source
               /\ \A i \in Media!StepIds : Finished(shelf'[i]) => FromWhole(shelf'[i], i)
  BY DEF MediaInv, NoneInPart
<1>5. ~cut' /\ ~changed' =>
        \A i \in Media!StepIds : Finished(shelf'[i]) => shelf'[i] = Media!wanted'[i]
  BY <1>2 DEF MediaInv, AsWanted
<1> QED
  BY <1>1, <1>3, <1>4, <1>5, NothingUnderWay

\* The sources of a step are whole when it starts.
LEMMA StepStarts == MediaInv /\ Media!StartStep => MediaInv'
<1> SUFFICES ASSUME MediaInv, Media!StartStep PROVE MediaInv'
  OBVIOUS
<1> DEFINE i == render.step
           from == [f \in Plan[i] |-> shelf[f]]
           making == Media!Whole([args |-> steps[i], from |-> from])
<1>1. /\ render.at = "next" /\ \A f \in Plan[i] : shelf[f] # Media!Missing
      /\ render' = [at |-> "run", step |-> i, entries |-> render.entries,
                    created |-> render.created, making |-> making]
      /\ shelf' = [shelf EXCEPT ![i] = Media!Partial]
      /\ UNCHANGED <<steps, checkpoint, report, touches, rendered, left, changed, cut>>
  BY DEF Media!StartStep
<1>2. render # Media!Idle /\ i \in Media!StepIds /\ render.created \subseteq Media!StepIds
  BY <1>1 DEF MediaInv, CallTypes, Media!Idle
<1>3. /\ ShelfTypes' /\ Media!wanted' = Media!wanted
      /\ \A j \in Media!StepIds : shelf'[j] = IF j = i THEN Media!Partial ELSE shelf[j]
  <2>1. ShelfTypes /\ steps' = steps /\ Media!Partial \in {Media!Missing, Media!Partial}
    BY <1>1 DEF MediaInv
  <2> HIDE DEF i, making, from
  <2> QED
    BY <1>1, <1>2, <2>1, FileBecomes
<1>4. making.is = "whole" /\ making.of.from = from /\ making.of.args = steps[i]
  BY DEF Media!Whole
<1>5. /\ Plan[i] \subseteq 0..(i - 1)
      /\ \A g \in 0..(i - 1) : g = Media!Source \/ (g \in Media!StepIds /\ g < i)
  BY <1>2, PlanIsOrdered DEF Media!Source
<1> HIDE DEF i, from, making
<1>6. ~cut => \A g \in Plan[i] : Finished(shelf[g])
  <2> SUFFICES ASSUME ~cut, NEW g \in Plan[i] PROVE Finished(shelf[g])
    OBVIOUS
  <2>1. CASE g = Media!Source
    BY <2>1 DEF MediaInv, ShelfTypes
  <2>2. CASE g \in Media!StepIds /\ g < i
    <3>1. shelf[g] # Media!Partial /\ shelf[g] # Media!Missing
      BY <1>1, <1>2, <2>2 DEF MediaInv, NoneInPart, i
    <3>2. g \in Media!Files
      BY <2>2, PlanIsOrdered
    <3> QED
      BY <3>1, <3>2 DEF MediaInv, ShelfTypes
  <2> QED
    BY <1>5, <2>1, <2>2
<1>7. ~cut => FromWhole(making, i)
  BY <1>4, <1>6 DEF FromWhole, from
<1>8. ~cut /\ ~changed => making = Media!wanted[i]
  <2> SUFFICES ASSUME ~cut, ~changed PROVE making = Media!wanted[i]
    OBVIOUS
  <2>1. \A g \in Plan[i] : shelf[g] = Media!wanted[g]
    <3>1. Media!wanted[Media!Source] = shelf[Media!Source]
      BY WantedIs, IntactUnfolds
    <3> QED
      BY <1>5, <1>6, <3>1 DEF MediaInv, AsWanted
  <2>2. from = [g \in Plan[i] |-> Media!wanted[g]]
    BY <2>1 DEF from
  <2>3. Media!wanted[i]
          = Media!Whole([args |-> steps[i], from |-> [g \in Plan[i] |-> Media!wanted[g]]])
    BY <1>2, WantedIs, IntactUnfolds
  <2> QED
    BY <2>2, <2>3 DEF making
<1>9. /\ render'.at = "run" /\ render' # Media!Idle /\ render'.step = i /\ render'.making = making
      /\ render'.created = render.created
  BY <1>1 DEF Media!Idle
<1>10. CallTypes'
  BY <1>1, <1>2, <1>4, <1>9 DEF CallTypes, MediaInv, Finished, i
<1>11. \A j \in Media!StepIds : Finished(shelf'[j]) => j # i /\ shelf'[j] = shelf[j]
  BY <1>3 DEF Finished, Media!Partial
<1>12. ASSUME ~cut PROVE NoneInPart'
  <2>1. \A j \in Media!StepIds : j < i => j # i /\ shelf[j] # Media!Partial
    BY <1>2, <1>12, PlanIsOrdered DEF MediaInv, NoneInPart, i
  <2> QED
    BY <1>1, <1>3, <1>7, <1>9, <1>11, <1>12, <2>1 DEF MediaInv, NoneInPart
<1>13. ~cut /\ ~changed => AsWanted'
  BY <1>1, <1>3, <1>8, <1>9, <1>11 DEF MediaInv, AsWanted
<1> QED
  BY <1>1, <1>3, <1>10, <1>12, <1>13 DEF MediaInv

\* A step is reused, or done.
LEMMA StepIsOver == MediaInv /\ (Media!Reuse \/ Media!StepDone) => MediaInv'
<1> SUFFICES ASSUME MediaInv, Media!Reuse \/ Media!StepDone PROVE MediaInv'
  OBVIOUS
<1> DEFINE i == render.step
<1>1. render # Media!Idle
  BY DEF Media!Reuse, Media!StepDone, Media!Idle
<1>2. i \in Media!StepIds /\ render.created \subseteq Media!StepIds
  BY <1>1 DEF MediaInv, CallTypes
<1>3. CASE Media!Reuse
  <2>1. /\ Media!GoOn(render.entries, render.created) /\ shelf' = shelf /\ Finished(shelf[i])
        /\ UNCHANGED <<steps, left, changed, cut>>
    BY <1>3 DEF Media!Reuse, Media!reusable, Finished
  <2>2. ShelfTypes' /\ Media!wanted' = Media!wanted
    BY <2>1, WantedStays DEF ShelfTypes, MediaInv
  <2>3. /\ ~cut => FromWhole(shelf'[i], i)
        /\ ~cut /\ ~changed => shelf'[i] = Media!wanted[i]
    BY <1>2, <2>1 DEF MediaInv, NoneInPart, AsWanted
  <2> QED
    BY <1>1, <1>2, <2>1, <2>2, <2>3, CallGoesOn
<1>4. CASE Media!StepDone
  <2>1. /\ render.at = "run" /\ shelf' = [shelf EXCEPT ![i] = render.making]
        /\ Media!GoOn(render.entries \cup {i}, render.created \cup {i})
        /\ UNCHANGED <<steps, left, changed, cut>>
    BY <1>4 DEF Media!StepDone
  <2>2. /\ Finished(render.making) /\ (~cut => FromWhole(render.making, i))
        /\ ~cut /\ ~changed => render.making = Media!wanted[i]
    BY <2>1 DEF MediaInv, CallTypes, NoneInPart, AsWanted
  <2>3. /\ ShelfTypes' /\ Media!wanted' = Media!wanted
        /\ \A j \in Media!StepIds : shelf'[j] = IF j = i THEN render.making ELSE shelf[j]
    <3>1. ShelfTypes /\ steps' = steps
      BY <2>1 DEF MediaInv
    <3> HIDE DEF i
    <3> QED
      BY <1>2, <2>1, <2>2, <3>1, FileBecomes
  <2>4. render.created \cup {i} \in SUBSET Media!StepIds
    BY <1>2
  <2> QED
    BY <1>1, <1>2, <2>1, <2>2, <2>3, <2>4, CallGoesOn
<1> QED
  BY <1>3, <1>4

\* A program that was left behind ends, into whatever its file has become.
LEMMA LooseMixes == MediaInv /\ Media!LooseEnds => MediaInv'
<1> SUFFICES ASSUME MediaInv, Media!LooseEnds PROVE MediaInv'
  OBVIOUS
<1>1. /\ left # Media!Source
      /\ shelf' = [shelf EXCEPT ![left] = IF @ = Media!Missing THEN @ ELSE Media!Whole("mixed")]
      /\ UNCHANGED <<steps, checkpoint, render, report, touches, rendered, changed, cut>>
  BY DEF Media!LooseEnds
<1>2. cut
  BY <1>1 DEF MediaInv, NoneInPart
<1>3. /\ DOMAIN shelf' = Media!Files
      /\ \A f \in Media!Files :
           shelf'[f] = IF f = left /\ shelf[f] # Media!Missing THEN Media!Whole("mixed") ELSE shelf[f]
  BY <1>1 DEF MediaInv, ShelfTypes
<1>4. Finished(Media!Whole("mixed"))
  BY DEF Finished, Media!Whole
<1>5. Media!Source \in Media!Files
  BY PlanIsOrdered DEF Media!Source
<1>6. ShelfTypes'
  BY <1>1, <1>3, <1>4, <1>5 DEF MediaInv, ShelfTypes
<1> QED
  BY <1>1, <1>2, <1>6 DEF MediaInv, CallTypes

\* The owner asks for something else, or the picture shows something else: noted, unless
\* nothing had been made.
LEMMA RequestChanges ==
  ASSUME MediaInv, render = Media!Idle, UNCHANGED <<render, report, left, cut>>,
         changed' = (changed \/ Media!begun), DOMAIN shelf' = DOMAIN shelf,
         Finished(shelf'[Media!Source]), \A i \in Media!StepIds : shelf'[i] = shelf[i]
  PROVE  MediaInv'
<1>1. \A f \in Media!Files : f = Media!Source \/ f \in Media!StepIds
  BY PlanIsOrdered DEF Media!Source
<1>2. ShelfTypes'
  BY <1>1, PlanIsOrdered DEF MediaInv, ShelfTypes
<1>3. CallTypes' /\ render'.at = "idle" /\ cut' \in BOOLEAN
  BY DEF MediaInv, CallTypes
<1>4. changed' \in BOOLEAN
  BY DEF MediaInv, Media!begun
<1>5. ~cut' => /\ left' = Media!Source
               /\ \A i \in Media!StepIds : Finished(shelf'[i]) => FromWhole(shelf'[i], i)
  BY DEF MediaInv, NoneInPart
<1>6. ~cut' /\ ~changed' =>
        /\ \A i \in Media!StepIds : Finished(shelf'[i]) => shelf'[i] = Media!wanted'[i]
        /\ report'.ok => report'.got = report'.asked
  <2>1. ~changed' => ~changed /\ \A i \in Media!StepIds : shelf'[i] = Media!Missing
    BY DEF Media!begun
  <2>2. ~Finished(Media!Missing)
    BY DEF Finished, Media!Missing
  <2> QED
    BY <2>1, <2>2 DEF MediaInv, AsWanted
<1> QED
  BY <1>2, <1>3, <1>4, <1>5, <1>6, NothingUnderWay

\* Files of steps are deleted, whatever else is under way.
LEMMA FilesGo ==
  ASSUME MediaInv, UNCHANGED <<steps, render, left, changed, cut>>,
         report' \in {report, Media!Failed}, NEW S \in SUBSET Media!StepIds,
         DOMAIN shelf' = DOMAIN shelf,
         \A f \in Media!Files : shelf'[f] = IF f \in S THEN Media!Missing ELSE shelf[f]
  PROVE  MediaInv'
<1>1. Media!Source \in Media!Files /\ Media!Source \notin S /\ Media!StepIds \subseteq Media!Files
  BY PlanIsOrdered DEF Media!Source
<1>2. ShelfTypes' /\ Media!wanted' = Media!wanted
  BY <1>1, WantedStays DEF MediaInv, ShelfTypes
<1>3. ~Finished(Media!Missing) /\ Media!Missing # Media!Partial
  BY DEF Finished, Media!Missing, Media!Partial
<1>4. \A i \in Media!StepIds : /\ Finished(shelf'[i]) => shelf'[i] = shelf[i]
                               /\ shelf'[i] = Media!Partial => shelf[i] = Media!Partial
  BY <1>1, <1>3
<1>5. report'.created \subseteq Media!StepIds /\ (report'.ok => report' = report)
  BY DEF MediaInv, CallTypes, Media!Failed
<1>6. CallTypes'
  BY <1>5 DEF MediaInv, CallTypes
<1>7. ~cut => NoneInPart'
  BY <1>4 DEF MediaInv, NoneInPart
<1>8. ~cut /\ ~changed => AsWanted'
  BY <1>2, <1>4, <1>5 DEF MediaInv, AsWanted
<1> QED
  BY <1>2, <1>6, <1>7, <1>8 DEF MediaInv

\* Calls, what ends them, and what the owner does beside them.
LEMMA MediaStep == MediaInv /\ [Media!Next]_mediaVars => MediaInv'
<1> SUFFICES ASSUME MediaInv, [Media!Next]_mediaVars PROVE MediaInv'
  OBVIOUS
<1>1. CASE Media!Begin
  <2>1. /\ render = Media!Idle /\ report' = Media!Failed
        /\ render' = [at |-> "next", step |-> 1, entries |-> checkpoint, created |-> {}]
        /\ UNCHANGED <<steps, shelf, left, changed, cut>>
    BY <1>1 DEF Media!Begin
  <2>2. 1 \in Media!StepIds /\ \A i \in Media!StepIds : ~(i < 1)
    BY PlanIsOrdered
  <2>3. /\ render'.at = "next" /\ render' # Media!Idle /\ render'.step = 1 /\ render'.created = {}
        /\ ~report'.ok /\ report'.created = {}
    BY <2>1 DEF Media!Idle, Media!Failed
  <2>4. ShelfTypes' /\ Media!wanted' = Media!wanted
    BY <2>1, WantedStays DEF MediaInv, ShelfTypes
  <2>5. CallTypes'
    BY <2>2, <2>3 DEF CallTypes
  <2>6. ~cut => NoneInPart'
    BY <2>1, <2>2, <2>3 DEF MediaInv, NoneInPart
  <2>7. ~cut /\ ~changed => AsWanted'
    BY <2>1, <2>3, <2>4 DEF MediaInv, AsWanted
  <2> QED
    BY <2>1, <2>4, <2>5, <2>6, <2>7 DEF MediaInv
<1>2. CASE Media!Reuse \/ Media!StepDone
  BY <1>2, StepIsOver
<1>3. CASE Media!StartStep
  BY <1>3, StepStarts
<1>4. CASE Media!StepFails
  BY <1>4, CallFails DEF Media!StepFails, MediaInv
<1>5. CASE Media!Dies
  BY <1>5, CallFails DEF Media!Dies, MediaInv
<1>6. CASE Media!Cancelled
  BY <1>6, CallFails DEF Media!Cancelled, MediaInv
<1>7. CASE Media!LooseEnds
  BY <1>7, LooseMixes
<1>8. CASE \E i \in Media!StepIds : Media!DeleteFile(i)
  <2>1. PICK i \in Media!StepIds : Media!DeleteFile(i)
    BY <1>8
  <2>2. /\ shelf' = [shelf EXCEPT ![i] = Media!Missing]
        /\ UNCHANGED <<steps, render, report, left, changed, cut>>
    BY <2>1 DEF Media!DeleteFile
  <2>3. /\ DOMAIN shelf' = DOMAIN shelf
        /\ \A f \in Media!Files : shelf'[f] = IF f \in {i} THEN Media!Missing ELSE shelf[f]
    BY <2>2 DEF MediaInv, ShelfTypes
  <2> QED
    BY <2>2, <2>3, FilesGo
<1>9. CASE \E i \in Media!StepIds, c \in Cuts : Media!ChangeStep(i, c)
  <2>1. /\ render = Media!Idle /\ changed' = (changed \/ Media!begun) /\ shelf' = shelf
        /\ UNCHANGED <<render, report, left, cut>>
    BY <1>9 DEF Media!ChangeStep
  <2> QED
    BY <2>1, RequestChanges DEF MediaInv, ShelfTypes
<1>10. CASE \E p \in Pictures : Media!ChangePicture(p)
  <2>1. PICK p \in Pictures : Media!ChangePicture(p)
    BY <1>10
  <2>2. /\ render = Media!Idle /\ changed' = (changed \/ Media!begun)
        /\ shelf' = [shelf EXCEPT ![Media!Source] = Media!Whole(p)]
        /\ UNCHANGED <<render, report, left, cut>>
    BY <2>1 DEF Media!ChangePicture
  <2>3. /\ Media!Source \in Media!Files /\ Media!Source \notin Media!StepIds
        /\ Media!StepIds \subseteq Media!Files
    BY PlanIsOrdered DEF Media!Source
  <2>4. /\ DOMAIN shelf' = DOMAIN shelf /\ Finished(shelf'[Media!Source])
        /\ \A i \in Media!StepIds : shelf'[i] = shelf[i]
    BY <2>2, <2>3 DEF MediaInv, ShelfTypes, Finished, Media!Whole
  <2> QED
    BY <2>2, <2>4, RequestChanges
<1>11. CASE Media!UndoEdit
  <2>1. PICK S \in SUBSET report.created :
          shelf' = [f \in Media!Files |-> IF f \in S THEN Media!Missing ELSE shelf[f]]
    BY <1>11 DEF Media!UndoEdit
  <2>2. report' = Media!Failed /\ UNCHANGED <<steps, render, left, changed, cut>>
    BY <1>11 DEF Media!UndoEdit
  <2>3. S \in SUBSET Media!StepIds /\ DOMAIN shelf' = DOMAIN shelf
    BY <2>1 DEF MediaInv, CallTypes, ShelfTypes
  <2> QED
    BY <2>1, <2>2, <2>3, FilesGo
<1>12. CASE UNCHANGED mediaVars
  <2>1. Media!wanted' = Media!wanted
    BY <1>12, WantedStays DEF mediaVars
  <2> QED
    BY <1>12, <2>1 DEF mediaVars, MediaInv, ShelfTypes, CallTypes, NoneInPart, AsWanted
<1> QED
  BY <1>1, <1>2, <1>3, <1>4, <1>5, <1>6, <1>7, <1>8, <1>9, <1>10, <1>11, <1>12 DEF Media!Next

\* Only the owner's own file is there.
LEMMA MediaStarts == Media!Init => MediaInv
<1> SUFFICES ASSUME Media!Init PROVE MediaInv
  OBVIOUS
<1>1. /\ render = Media!Idle /\ report = Media!Failed /\ left = Media!Source
      /\ changed = FALSE /\ cut = FALSE
      /\ shelf = [f \in Media!Files |-> IF f = Media!Source
                                        THEN Media!Whole(CHOOSE p \in Pictures : TRUE)
                                        ELSE Media!Missing]
  BY DEF Media!Init
<1>2. \A i \in Media!StepIds : i \in Media!Files /\ i # Media!Source
  BY PlanIsOrdered DEF Media!Source
<1>3. Media!Source \in Media!Files
  BY PlanIsOrdered DEF Media!Source
<1>4. Finished(shelf[Media!Source]) /\ \A i \in Media!StepIds : shelf[i] = Media!Missing
  BY <1>1, <1>2, <1>3 DEF Finished, Media!Whole
<1>5. ShelfTypes
  BY <1>1, <1>4 DEF ShelfTypes
<1>6. /\ render.at = "idle" /\ ~report.ok /\ report.created = {} /\ ~Finished(Media!Missing)
  BY <1>1 DEF Media!Idle, Media!Failed, Finished, Media!Missing
<1> QED
  BY <1>1, <1>4, <1>5, <1>6 DEF MediaInv, CallTypes, NoneInPart, AsWanted

\* What the invariant says of the renders.
LEMMA MediaIsTrue == MediaInv => Media!ResumeIsFaithful /\ Media!NoHalfFileIsRead
BY DEF MediaInv, NoneInPart, AsWanted, FromWhole, Finished, Media!ResumeIsFaithful,
       Media!NoHalfFileIsRead

-------------------------------------------------------------------------------

\* The trail and its archives are whole and their alarm is true, the books of the trades add
\* up, what a backup brings back is what was there, and a render that is resumed is as good as
\* one that was not interrupted, for any number of entries, prices, bars, files and calls.
THEOREM RecordsAreHeld == Spec => []RecordsAreTrue
<1> DEFINE Inv == TrailInv /\ TradingInv /\ BackupInv /\ MediaInv
<1>1. Init => Inv
  BY TrailStarts, TradingStarts, BackupStarts, MediaStarts DEF Init
<1>2. Inv /\ [Next]_allVars => Inv'
  BY OnePartSteps, TrailStep, TradingStep, BackupStep, MediaStep
<1>3. Inv => RecordsAreTrue
  BY TrailIsTrue, BackupIsTrue, MediaIsTrue DEF RecordsAreTrue, TradingInv, Trading!BooksBalance
<1> QED
  BY <1>1, <1>2, <1>3, PTL DEF Spec, allVars

-------------------------------------------------------------------------------
(* ModelRouter and SelfRecovery: the breaker, the ceiling and the repairs.   *)

\* A provider that is out of selection has a cooldown running.
Sane(b) ==
  /\ b.fails \in [Recovery!Names -> Nat] /\ b.held \in [Recovery!Names -> 0..Recovery!NotHeld]
  /\ \A n \in Recovery!Names : b.fails[n] >= Trip => b.held[n] <= Cooldown

Spare(b) == \E t \in Tiers : Recovery!choosable(b, t)

\* No provider has failed more often in c than in b, unless it was parked for it.
Milder(c, b) == \A n \in Recovery!Names : c.fails[n] <= b.fails[n] \/ c.fails[n] <= Trip

\* Every tier has a provider, and LOCAL's is on the owner's machine.
LEMMA WiringsAre ==
  ASSUME providers \in Recovery!Wirings
  PROVE  /\ \A t \in Tiers : providers[t] \in Recovery!Names
         /\ Recovery!IsLocal(providers["LOCAL"]) /\ "LOCAL" \in Tiers
<1>1. "LOCAL" \in Tiers
  BY ModelsAssumption
<1>2. CASE providers = [t \in Tiers |-> IF t = "LOCAL" THEN Recovery!Local ELSE t]
  BY <1>1, <1>2 DEF Recovery!Names, Recovery!IsLocal
<1>3. CASE providers = [t \in Tiers |-> "ollama"]
  BY <1>1, <1>3 DEF Recovery!Names, Recovery!IsLocal
<1> QED
  BY <1>1, <1>2, <1>3 DEF Recovery!Wirings

\* Looking at providers holds none of them out that was not.
LEMMA HalfOpenIsSane ==
  ASSUME NEW b, Sane(b), NEW looked
  PROVE  /\ Sane(Recovery!half_open(b, looked))
         /\ \A n \in Recovery!Names :
              Recovery!parked(Recovery!half_open(b, looked), n) => Recovery!parked(b, n)
<1> DEFINE served == {n \in looked : b.fails[n] >= Trip /\ ~Recovery!parked(b, n)}
           f == [n \in Recovery!Names |-> IF n \in served THEN Trip - 1 ELSE b.fails[n]]
           h == [n \in Recovery!Names |-> IF n \in served THEN Recovery!NotHeld ELSE b.held[n]]
           o == Recovery!half_open(b, looked)
<1>1. Trip \in Nat \ {0} /\ Cooldown \in Nat
  BY ModelsAssumption
<1>2. o = [fails |-> f, held |-> h]
  BY DEF Recovery!half_open
<1> HIDE DEF served
<1>3. f \in [Recovery!Names -> Nat] /\ h \in [Recovery!Names -> 0..Recovery!NotHeld]
  BY <1>1 DEF Sane, Recovery!NotHeld
<1>4. \A n \in Recovery!Names : /\ f[n] = IF n \in served THEN Trip - 1 ELSE b.fails[n]
                                /\ h[n] = IF n \in served THEN Recovery!NotHeld ELSE b.held[n]
  OBVIOUS
<1> HIDE DEF f, h
<1>5. o.fails = f /\ o.held = h
  BY <1>2
<1> HIDE DEF o
<1>6. \A n \in Recovery!Names : n \in served => ~(f[n] >= Trip)
  BY <1>1, <1>4
<1>7. Sane(o)
  BY <1>3, <1>4, <1>5, <1>6 DEF Sane
<1>8. \A n \in Recovery!Names : Recovery!parked(o, n) => Recovery!parked(b, n)
  BY <1>4, <1>5, <1>6 DEF Recovery!parked
<1> QED
  BY <1>7, <1>8 DEF o

\* Nor does it count a failure, and one it looked at and found free is short of the trip.
LEMMA HalfOpenFails ==
  ASSUME NEW b, Sane(b), NEW looked, NEW n \in Recovery!Names
  PROVE  /\ Recovery!half_open(b, looked).fails[n] <= b.fails[n]
         /\ n \in looked /\ ~Recovery!parked(b, n) => Recovery!half_open(b, looked).fails[n] < Trip
<1> DEFINE served == {m \in looked : b.fails[m] >= Trip /\ ~Recovery!parked(b, m)}
           f == [m \in Recovery!Names |-> IF m \in served THEN Trip - 1 ELSE b.fails[m]]
           h == [m \in Recovery!Names |-> IF m \in served THEN Recovery!NotHeld ELSE b.held[m]]
<1>1. Recovery!half_open(b, looked) = [fails |-> f, held |-> h]
  BY DEF Recovery!half_open
<1>2. f[n] = IF n \in served THEN Trip - 1 ELSE b.fails[n]
  OBVIOUS
<1>3. n \in served <=> n \in looked /\ b.fails[n] >= Trip /\ ~Recovery!parked(b, n)
  OBVIOUS
<1>4. b.fails[n] \in Nat /\ Trip \in Nat \ {0}
  BY ModelsAssumption DEF Sane
<1> HIDE DEF served, f
<1> QED
  BY <1>1, <1>2, <1>3, <1>4

\* A provider that answered is not held, one that failed once more may be.
LEMMA ClearedIsSane ==
  ASSUME NEW b, Sane(b), NEW n \in Recovery!Names
  PROVE  Sane([fails |-> [b.fails EXCEPT ![n] = 0], held |-> [b.held EXCEPT ![n] = Recovery!NotHeld]])
<1> DEFINE f == [b.fails EXCEPT ![n] = 0]
           h == [b.held EXCEPT ![n] = Recovery!NotHeld]
<1>1. Trip \in Nat \ {0} /\ Cooldown \in Nat
  BY ModelsAssumption
<1>2. f \in [Recovery!Names -> Nat] /\ h \in [Recovery!Names -> 0..Recovery!NotHeld]
  BY <1>1 DEF Sane, Recovery!NotHeld
<1>3. \A m \in Recovery!Names : f[m] >= Trip => h[m] <= Cooldown
  <2>1. \A m \in Recovery!Names : f[m] = (IF m = n THEN 0 ELSE b.fails[m])
                                  /\ h[m] = (IF m = n THEN Recovery!NotHeld ELSE b.held[m])
    BY DEF Sane
  <2> HIDE DEF f, h
  <2> QED
    BY <1>1, <2>1 DEF Sane
<1> HIDE DEF f, h
<1> QED
  BY <1>2, <1>3 DEF Sane, f, h

\* So does one that failed, or was failing when the owner looked.
LEMMA TrippedIsSane ==
  ASSUME NEW b, Sane(b), NEW n \in Recovery!Names
  PROVE  Sane(Recovery!trip(b, n))
<1> DEFINE more == b.fails[n] + 1
           h == IF more >= Trip /\ b.held[n] = Recovery!NotHeld THEN 0 ELSE b.held[n]
           t == Recovery!trip(b, n)
<1>1. Trip \in Nat \ {0} /\ Cooldown \in Nat /\ Recovery!NotHeld = Cooldown + 1
  BY ModelsAssumption DEF Recovery!NotHeld
<1>2. b.fails[n] \in Nat /\ b.held[n] \in 0..(Cooldown + 1)
  BY <1>1 DEF Sane
<1>3. more \in Nat /\ h \in 0..Recovery!NotHeld /\ (more >= Trip => h <= Cooldown)
  BY <1>1, <1>2
<1>4. t = [fails |-> [b.fails EXCEPT ![n] = more], held |-> [b.held EXCEPT ![n] = h]]
  BY DEF Recovery!trip, Sane
<1> HIDE DEF more, h, t
<1>5. t.fails = [b.fails EXCEPT ![n] = more] /\ t.held = [b.held EXCEPT ![n] = h]
  BY <1>4
<1> QED
  BY <1>3, <1>5 DEF Sane, t

\* Parking keeps the breaker sane, never takes the last provider and counts nothing beyond the
\* trip.
LEMMA ParkingSparesOne ==
  ASSUME providers \in Recovery!Wirings, NEW b, Sane(b), NEW n \in Recovery!Names
  PROVE  /\ Sane(Recovery!park(b, n)) /\ (Spare(b) => Spare(Recovery!park(b, n)))
         /\ Milder(Recovery!park(b, n), b)
<1> DEFINE h == Recovery!half_open(b, Recovery!wired \ {n})
           k == [fails |-> [h.fails EXCEPT ![n] = Trip], held |-> [h.held EXCEPT ![n] = 0]]
<1>1. Trip \in Nat \ {0} /\ Cooldown \in Nat /\ Recovery!NotHeld = Cooldown + 1
  BY ModelsAssumption DEF Recovery!NotHeld
<1>2. Sane(h) /\ \A m \in Recovery!Names : Recovery!parked(h, m) => Recovery!parked(b, m)
  BY HalfOpenIsSane
<1>3. \A t \in Tiers : providers[t] \in Recovery!Names
  BY WiringsAre
<1>a. \A m \in Recovery!Names : h.fails[m] <= b.fails[m] /\ h.fails[m] \in Nat
  BY <1>2, HalfOpenFails DEF Sane
<1> HIDE DEF h
<1>4. CASE Recovery!survivors(b, n) = {}
  <2>1. Recovery!park(b, n) = h
    BY <1>4 DEF Recovery!park, h
  <2>2. Spare(b) => Spare(h)
    BY <1>2, <1>3, WiringsAre DEF Spare, Recovery!choosable, Recovery!resolvable
  <2> QED
    BY <1>2, <1>a, <2>1, <2>2 DEF Milder
<1>5. CASE Recovery!survivors(b, n) # {}
  <2>1. Recovery!park(b, n) = k
    BY <1>5 DEF Recovery!park, h
  <2>2. k.fails = [h.fails EXCEPT ![n] = Trip] /\ k.held = [h.held EXCEPT ![n] = 0]
    OBVIOUS
  <2> HIDE DEF k
  <2>3. \A m \in Recovery!Names : /\ k.fails[m] = IF m = n THEN Trip ELSE h.fails[m]
                                  /\ k.held[m] = IF m = n THEN 0 ELSE h.held[m]
    BY <1>2, <2>2 DEF Sane
  <2>4. k.fails \in [Recovery!Names -> Nat] /\ k.held \in [Recovery!Names -> 0..Recovery!NotHeld]
    BY <1>1, <1>2, <2>2 DEF Sane
  <2>5. Sane(k)
    BY <1>1, <1>2, <2>3, <2>4 DEF Sane
  <2>6. PICK t \in Tiers : providers[t] # n /\ ~Recovery!parked(b, providers[t])
    BY <1>5 DEF Recovery!survivors, Recovery!wired
  <2>7. ~Recovery!parked(k, providers[t])
    <3>1. ~Recovery!parked(h, providers[t])
      BY <1>2, <1>3, <2>6
    <3> QED
      BY <1>3, <2>3, <2>6, <3>1 DEF Recovery!parked
  <2>8. Milder(k, b)
    BY <1>1, <1>a, <2>3 DEF Milder
  <2> QED
    BY <2>1, <2>5, <2>7, <2>8 DEF Spare, Recovery!choosable, Recovery!resolvable
<1> QED
  BY <1>4, <1>5

\* Nor do several of them, one after another.
LEMMA AllParkedSparesOne ==
  ASSUME providers \in Recovery!Wirings, NEW b, Sane(b), NEW list,
         Len(list) \in Nat, \A i \in 1..Len(list) : list[i] \in Recovery!Names
  PROVE  /\ Sane(Recovery!parkedAll(b, list))
         /\ Spare(b) => Spare(Recovery!parkedAll(b, list))
         /\ Milder(Recovery!parkedAll(b, list), b)
<1> DEFINE Body(f, i) == IF i = 0 THEN b ELSE Recovery!park(f[i - 1], list[i])
           L == Len(list)
           A == { N \in Nat : \E f : f = [i \in 0..N |-> Body(f, i)] }
<1>0. L \in Nat
  OBVIOUS
<1> HIDE DEF L
<1>1. 0 \in A
  <2> DEFINE f == [i \in 0..0 |-> b]
  <2>1. f = [i \in 0..0 |-> Body(f, i)]
    OBVIOUS
  <2> QED
    BY <2>1
<1>2. ASSUME NEW N \in Nat, N \in A PROVE N + 1 \in A
  <2>1. PICK f : f = [i \in 0..N |-> Body(f, i)]
    <3> HIDE DEF Body
    <3> QED
      BY <1>2
  <2> DEFINE h == [i \in 0..(N + 1) |-> IF i = N + 1 THEN Body(f, N + 1) ELSE f[i]]
  <2>2. ASSUME NEW i \in 0..(N + 1) PROVE h[i] = Body(h, i)
    <3>1. i = 0 \/ h[i - 1] = f[i - 1]
      OBVIOUS
    <3>2. Body(h, i) = Body(f, i)
      <4> HIDE DEF h
      <4> QED
        BY <3>1
    <3>3. CASE i = N + 1
      BY <3>2, <3>3
    <3>4. CASE i \in 0..N
      <4>1. f[i] = Body(f, i)
        BY <2>1, <3>4
      <4> QED
        BY <3>2, <3>4, <4>1
    <3> QED
      BY <3>3, <3>4
  <2>3. h = [i \in 0..(N + 1) |-> h[i]]
    OBVIOUS
  <2> HIDE DEF h
  <2>4. h = [i \in 0..(N + 1) |-> Body(h, i)]
    BY <2>2, <2>3
  <2> HIDE DEF Body
  <2> QED
    BY <2>4
<1>3. L \in A
  <2> HIDE DEF A
  <2>1. \A n \in 0..L : n < L /\ n \in A => n + 1 \in A
    BY <1>0, <1>2
  <2>2. 0..L \subseteq A
    BY <1>0, <1>1, <2>1, UpTo
  <2> QED
    BY <1>0, <2>2
<1> DEFINE upTo == CHOOSE f : f = [i \in 0..L |-> Body(f, i)]
<1>4. upTo = [i \in 0..L |-> Body(upTo, i)]
  <2> HIDE DEF Body
  <2>1. \E f : f = [i \in 0..L |-> Body(f, i)]
    BY <1>3
  <2> QED
    BY <2>1
<1>5. Recovery!parkedAll(b, list) = upTo[L]
  BY DEF Recovery!parkedAll, L
<1> HIDE DEF upTo
<1>6. \A i \in 0..L : upTo[i] = Body(upTo, i)
  BY <1>4
<1> DEFINE Good(c) == Sane(c) /\ (Spare(b) => Spare(c)) /\ Milder(c, b)
           G == {i \in 0..L : Good(upTo[i])}
<1>7. 0 \in G
  BY <1>0, <1>6 DEF Milder, Sane
<1>8. ASSUME NEW i \in 0..L, i < L, i \in G PROVE i + 1 \in G
  <2>1. i + 1 \in 1..L /\ i + 1 \in 0..L /\ (i + 1) - 1 = i /\ i + 1 # 0
    BY <1>0, <1>8
  <2>2. upTo[i + 1] = Recovery!park(upTo[i], list[i + 1])
    BY <1>6, <2>1
  <2>3. list[i + 1] \in Recovery!Names
    BY <2>1 DEF L
  <2>4. Good(upTo[i])
    BY <1>8
  <2>5. Good(upTo[i + 1])
    <3> DEFINE c == upTo[i]
               d == upTo[i + 1]
    <3>1. /\ Sane(c) /\ (Spare(b) => Spare(c)) /\ Milder(c, b)
          /\ Sane(d) /\ (Spare(c) => Spare(d)) /\ Milder(d, c)
      BY <2>2, <2>3, <2>4, ParkingSparesOne
    <3> HIDE DEF c, d
    <3>2. Milder(d, b)
      <4>1. Trip \in Nat /\ \A m \in Recovery!Names : {b.fails[m], c.fails[m], d.fails[m]} \subseteq Nat
        BY <3>1, ModelsAssumption DEF Sane
      <4> QED
        BY <3>1, <4>1 DEF Milder
    <3> QED
      BY <3>1, <3>2 DEF c, d
  <2> QED
    BY <2>1, <2>5
<1>9. L \in G
  <2> HIDE DEF G
  <2>1. 0..L \subseteq G
    BY <1>0, <1>7, <1>8, UpTo
  <2> QED
    BY <1>0, <2>1
<1> QED
  BY <1>5, <1>9

\* What the health checks found failing is parked in some order of them.
LEMMA OrdersAre ==
  ASSUME NEW S \in SUBSET Recovery!Names, NEW list \in Recovery!SetToSeqs(S)
  PROVE  Len(list) \in Nat /\ \A i \in 1..Len(list) : list[i] \in Recovery!Names
<1>1. IsFiniteSet(S)
  <2> DEFINE few == {"ollama", Recovery!Local}
  <2>1. IsFiniteSet(Tiers \ {"LOCAL"})
    BY ModelsAssumption, FS_Subset
  <2>2. IsFiniteSet({"ollama"}) /\ IsFiniteSet({Recovery!Local})
    BY FS_Singleton
  <2>3. IsFiniteSet({"ollama"} \cup {Recovery!Local})
    BY <2>2, FS_Union
  <2>4. IsFiniteSet((Tiers \ {"LOCAL"}) \cup ({"ollama"} \cup {Recovery!Local}))
    BY <2>1, <2>3, FS_Union
  <2>5. S \subseteq (Tiers \ {"LOCAL"}) \cup ({"ollama"} \cup {Recovery!Local})
    BY DEF Recovery!Names
  <2> QED
    BY <2>4, <2>5, FS_Subset
<1>2. Recovery!Cardinality(S) = Cardinality(S)
  BY DEF Recovery!Cardinality, Cardinality
<1>3. Cardinality(S) \in Nat
  BY <1>1, FS_CardinalityType
<1>4. list \in [1..Cardinality(S) -> S]
  BY <1>2 DEF Recovery!SetToSeqs
<1> HIDE DEF Recovery!SetToSeqs
<1> DEFINE n == Cardinality(S)
<1>5. n \in Nat /\ list \in [1..n -> S]
  BY <1>3, <1>4
<1> HIDE DEF n
<1>6. Len(list) = n
  BY <1>5
<1> QED
  BY <1>5, <1>6

\* The calls that will be charged for when they are answered.
Paying == {c \in Calls : calls[c].at # "none" /\ ~Recovery!IsLocal(calls[c].name)}

RouterTypes ==
  /\ providers \in Recovery!Wirings /\ Sane(Recovery!breaker)
  /\ calls \in [Calls -> [at : {"none", "asked", "fallback"}, name : Recovery!Names,
                          secret : BOOLEAN]]
  /\ spent \in Nat /\ stored \in Nat /\ stored <= spent

\* What was spent and what the calls in flight will cost stay under the ceiling and the number
\* of calls, as none that costs is begun at the ceiling.
RouterInv ==
  /\ RouterTypes
  /\ spent + Cardinality(Paying) < Cap + Cardinality(Calls)
  /\ Paying # {} => Cap > 0

\* The tries since a component was last quiet are those that are counted, while they count.
AttemptsInv ==
  /\ attempts \in [Components -> [count : Nat, idle : Nat]] /\ streak \in [Components -> Nat]
  /\ \A k \in Components : /\ streak[k] <= MaxAttempts
                           /\ attempts[k].idle <= Quiet => streak[k] <= attempts[k].count

ModelsInv == RouterInv /\ AttemptsInv

\* Calls are finitely many, so are those that will be charged for.
LEMMA PayingCounts ==
  /\ IsFiniteSet(Paying) /\ Cardinality(Paying) \in Nat /\ Cardinality(Calls) \in Nat \ {0}
  /\ Cardinality(Paying) <= Cardinality(Calls)
  /\ Cap \in Nat /\ Trip \in Nat \ {0} /\ Cooldown \in Nat
<1>1. IsFiniteSet(Calls) /\ Calls # {} /\ Paying \subseteq Calls
  BY ModelsAssumption DEF Paying
<1>2. /\ IsFiniteSet(Paying) /\ Cardinality(Paying) \in Nat /\ Cardinality(Calls) \in Nat
      /\ Cardinality(Paying) <= Cardinality(Calls)
  BY <1>1, FS_Subset, FS_CardinalityType
<1>3. Cardinality(Calls) # 0
  BY <1>1, FS_EmptySet
<1> QED
  BY <1>2, <1>3, ModelsAssumption

\* A call that is over, or that goes on with a provider on the owner's machine.
LEMMA CallIsOver ==
  ASSUME RouterTypes, NEW c \in Calls, NEW new, new.at = "none" \/ Recovery!IsLocal(new.name),
         calls' = [calls EXCEPT ![c] = new]
  PROVE  /\ Paying' = Paying \ {c}
         /\ c \in Paying => Cardinality(Paying') = Cardinality(Paying) - 1
         /\ c \notin Paying => Paying' = Paying
<1>1. Paying' = Paying \ {c}
  BY DEF RouterTypes, Paying
<1>2. Cardinality(Paying \ {c}) = IF c \in Paying THEN Cardinality(Paying) - 1 ELSE Cardinality(Paying)
  BY PayingCounts, FS_RemoveElement
<1> HIDE DEF Paying
<1>3. CASE c \in Paying
  BY <1>1, <1>2, <1>3
<1>4. CASE c \notin Paying
  <2>1. Paying \ {c} = Paying
    BY <1>4
  <2> QED
    BY <1>1, <1>4, <2>1
<1> QED
  BY <1>3, <1>4

\* What is charged for a call leaves the sum as it was, whether it is stored or not.
LEMMA ChargeIsCovered ==
  ASSUME RouterInv, NEW c \in Calls, NEW new, new.at = "none" \/ Recovery!IsLocal(new.name),
         calls' = [calls EXCEPT ![c] = new], calls[c].at # "none", NEW kept_ \in BOOLEAN,
         Recovery!Charged(calls[c].name, kept_)
  PROVE  /\ spent' \in Nat /\ stored' \in Nat /\ stored' <= spent'
         /\ spent' + Cardinality(Paying') < Cap + Cardinality(Calls)
         /\ Paying' # {} => Cap > 0
<1> DEFINE usd == IF Recovery!IsLocal(calls[c].name) THEN 0 ELSE 1
<1>1. /\ spent' = spent + usd /\ stored' = (IF kept_ THEN stored + usd ELSE stored)
      /\ spent \in Nat /\ stored \in Nat /\ stored <= spent
  BY DEF Recovery!Charged, RouterInv, RouterTypes
<1>2. c \in Paying <=> usd = 1
  BY DEF Paying
<1>3. /\ Paying' = Paying \ {c}
      /\ c \in Paying => Cardinality(Paying') = Cardinality(Paying) - 1
      /\ c \notin Paying => Paying' = Paying
  BY CallIsOver DEF RouterInv
<1>4. usd \in {0, 1}
  OBVIOUS
<1>5. spent + Cardinality(Paying) < Cap + Cardinality(Calls) /\ (Paying # {} => Cap > 0)
  BY DEF RouterInv
<1> HIDE DEF usd, Paying
<1>6. spent' + Cardinality(Paying') = spent + Cardinality(Paying)
  <2> DEFINE before == Cardinality(Paying)
             after == Cardinality(Paying')
  <2>1. before \in Nat
    BY PayingCounts
  <2>2. CASE usd = 1
    <3>1. after = before - 1
      BY <1>2, <1>3, <2>2
    <3> HIDE DEF before, after
    <3>2. spent' + after = spent + before
      BY <1>1, <2>1, <2>2, <3>1
    <3> QED
      BY <3>2 DEF before, after
  <2>3. CASE usd = 0
    <3>1. after = before
      <4>1. c \notin Paying
        BY <1>2, <2>3
      <4>2. Paying' = Paying
        BY <1>3, <4>1
      <4> QED
        BY <4>2
    <3> HIDE DEF before, after
    <3>2. spent' + after = spent + before
      BY <1>1, <2>1, <2>3, <3>1
    <3> QED
      BY <3>2 DEF before, after
  <2> QED
    BY <1>4, <2>2, <2>3
<1>7. spent' \in Nat /\ stored' \in Nat /\ stored' <= spent'
  BY <1>1, <1>4
<1>8. Paying' # {} => Cap > 0
  BY <1>3, <1>5
<1> QED
  BY <1>5, <1>6, <1>7, <1>8

\* A call is begun with a provider that costs only under the ceiling.
LEMMA AskIsCovered ==
  ASSUME RouterInv, NEW c \in Calls, NEW tier \in Tiers, NEW secret \in BOOLEAN,
         Recovery!Ask(c, tier, secret)
  PROVE  RouterInv'
<1> DEFINE t0 == Recovery!wanted(tier, secret)
           t1 == Recovery!resolved(t0)
           t == Recovery!withinCap(t1)
           new == [at |-> "asked", name |-> providers[t], secret |-> secret]
<1>1. /\ calls[c].at = "none" /\ calls' = [calls EXCEPT ![c] = new]
      /\ Recovery!Breaker(Recovery!half_open(Recovery!breaker, Recovery!asked(t0)))
      /\ UNCHANGED <<providers, spent, stored>>
  BY DEF Recovery!Ask
<1>2. t0 \in Tiers /\ "LOCAL" \in Tiers
  BY ModelsAssumption DEF Recovery!wanted
<1> HIDE DEF t0
<1>3. t1 \in Tiers
  BY <1>2 DEF Recovery!resolved
<1> HIDE DEF t1
<1>4. t \in Tiers /\ (t # "LOCAL" => ~(spent >= Cap))
  BY <1>2, <1>3 DEF Recovery!withinCap
<1> HIDE DEF t
<1>5. /\ providers[t] \in Recovery!Names /\ Recovery!IsLocal(providers["LOCAL"])
      /\ providers \in Recovery!Wirings
  BY <1>4, WiringsAre DEF RouterInv, RouterTypes
<1>6. /\ new \in [at : {"none", "asked", "fallback"}, name : Recovery!Names, secret : BOOLEAN]
      /\ new.name = providers[t]
  BY <1>5
<1> HIDE DEF new
<1>7. RouterTypes'
  <2>1. Sane(Recovery!half_open(Recovery!breaker, Recovery!asked(t0)))
    BY HalfOpenIsSane DEF RouterInv, RouterTypes
  <2>2. Sane(Recovery!breaker)'
    <3> DEFINE o == Recovery!half_open(Recovery!breaker, Recovery!asked(t0))
    <3>1. fails' = o.fails /\ held' = o.held /\ Sane(o)
      BY <1>1, <2>1 DEF Recovery!Breaker
    <3> HIDE DEF o
    <3> QED
      BY <3>1 DEF Sane, Recovery!breaker
  <2> QED
    BY <1>1, <1>6, <2>2 DEF RouterInv, RouterTypes
<1>8. spent \in Nat /\ spent + Cardinality(Paying) < Cap + Cardinality(Calls) /\ (Paying # {} => Cap > 0)
  BY DEF RouterInv, RouterTypes
<1>9. CASE Recovery!IsLocal(new.name)
  <2>1. c \notin Paying /\ Paying' = Paying
    <3>1. c \notin Paying
      BY <1>1 DEF Paying
    <3> QED
      BY <1>1, <1>9, <3>1, CallIsOver DEF RouterInv
  <2> QED
    BY <1>1, <1>7, <1>8, <2>1 DEF RouterInv
<1>10. CASE ~Recovery!IsLocal(new.name)
  <2>1. ~(spent >= Cap)
    BY <1>4, <1>5, <1>6, <1>10
  <2>2. Cardinality(Paying') \in Nat /\ Cardinality(Paying') <= Cardinality(Calls)
    <3>1. Paying' \subseteq Calls /\ IsFiniteSet(Calls)
      BY ModelsAssumption DEF Paying
    <3> QED
      BY <3>1, FS_Subset, FS_CardinalityType
  <2>3. spent' + Cardinality(Paying') < Cap + Cardinality(Calls) /\ Cap > 0
    BY <1>1, <1>8, <2>1, <2>2, PayingCounts
  <2> QED
    BY <1>7, <2>3 DEF RouterInv
<1> QED
  BY <1>9, <1>10

\* A breaker that is sane stays so when it is assigned.
LEMMA BreakerIs ==
  ASSUME NEW b, Sane(b), Recovery!Breaker(b)
  PROVE  Sane(Recovery!breaker)'
  BY DEF Recovery!Breaker, Recovery!breaker, Sane

\* A call that ends, or falls back to the owner's machine, and its record.
LEMMA EndIsTyped ==
  ASSUME RouterTypes, NEW c \in Calls, Recovery!Done(c) \/ Recovery!Falls(c), UNCHANGED providers
  PROVE  \E new \in [at : {"none", "asked", "fallback"}, name : Recovery!Names, secret : BOOLEAN] :
            /\ new.at = "none" \/ Recovery!IsLocal(new.name)
            /\ calls' = [calls EXCEPT ![c] = new]
<1> DEFINE Recs == [at : {"none", "asked", "fallback"}, name : Recovery!Names, secret : BOOLEAN]
           home == [calls[c] EXCEPT !.at = "fallback", !.name = providers["LOCAL"]]
           none == Recovery!NoCall
<1>1. none \in Recs /\ none.at = "none"
  BY DEF Recovery!NoCall, Recovery!Names
<1>2. /\ providers["LOCAL"] \in Recovery!Names /\ Recovery!IsLocal(providers["LOCAL"])
      /\ calls[c] \in Recs /\ calls \in [Calls -> Recs]
  BY WiringsAre DEF RouterTypes
<1>3. home \in Recs /\ Recovery!IsLocal(home.name)
  BY <1>2
<1>4. CASE Recovery!Done(c)
  <2>1. calls' = [calls EXCEPT ![c] = none]
    BY <1>4 DEF Recovery!Done
  <2> HIDE DEF none, Recs
  <2> QED
    BY <1>1, <2>1 DEF Recs
<1>5. CASE Recovery!Falls(c)
  <2> DEFINE new == IF providers["LOCAL"] = calls[c].name THEN none ELSE home
  <2>1. calls' = [calls EXCEPT ![c] = new]
    BY <1>5 DEF Recovery!Falls
  <2> HIDE DEF none, home, Recs
  <2>2. new \in Recs /\ (new.at = "none" \/ Recovery!IsLocal(new.name))
    BY <1>1, <1>3
  <2> HIDE DEF new
  <2> QED
    BY <2>1, <2>2 DEF Recs
<1> QED
  BY <1>4, <1>5

\* Answers and failures.
LEMMA EndsKeepRouter ==
  ASSUME RouterInv, NEW c \in Calls, NEW on \in BOOLEAN,
         Recovery!Answers(c, on) \/ Recovery!Fails(c) \/ Recovery!PruneFails(c)
  PROVE  RouterInv'
<1> DEFINE n == calls[c].name
           cleared == [fails |-> [fails EXCEPT ![n] = 0], held |-> [held EXCEPT ![n] = Recovery!NotHeld]]
<1>1. /\ calls[c].at # "none" /\ UNCHANGED providers /\ (Recovery!Done(c) \/ Recovery!Falls(c))
      /\ \/ Recovery!Charged(n, on) \/ Recovery!Charged(n, TRUE) \/ UNCHANGED <<spent, stored>>
  BY DEF Recovery!Answers, Recovery!Fails, Recovery!PruneFails
<1>2. n \in Recovery!Names /\ Sane(Recovery!breaker)
  BY DEF RouterInv, RouterTypes
<1>3. Recovery!breaker.fails = fails /\ Recovery!breaker.held = held
  BY DEF Recovery!breaker
<1>4. Sane(cleared)
  BY <1>2, <1>3, ClearedIsSane
<1>5. Sane(Recovery!breaker)'
  <2>1. CASE UNCHANGED <<fails, held>>
    BY <1>2, <2>1 DEF Recovery!breaker, Sane
  <2>2. CASE Recovery!Breaker(cleared)
    BY <1>4, <2>2, BreakerIs
  <2>3. CASE Recovery!Breaker(Recovery!trip(Recovery!breaker, n))
    BY <1>2, <2>3, BreakerIs, TrippedIsSane
  <2>4. CASE Recovery!Breaker(Recovery!trip(cleared, n))
    <3> HIDE DEF cleared
    <3> QED
      BY <1>2, <1>4, <2>4, BreakerIs, TrippedIsSane
  <2> QED
    BY <2>1, <2>2, <2>3, <2>4 DEF Recovery!Answers, Recovery!Fails, Recovery!PruneFails
<1>6. PICK new \in [at : {"none", "asked", "fallback"}, name : Recovery!Names, secret : BOOLEAN] :
         /\ new.at = "none" \/ Recovery!IsLocal(new.name)
         /\ calls' = [calls EXCEPT ![c] = new]
  BY <1>1, EndIsTyped DEF RouterInv
<1>7. /\ spent' \in Nat /\ stored' \in Nat /\ stored' <= spent'
      /\ spent' + Cardinality(Paying') < Cap + Cardinality(Calls)
      /\ Paying' # {} => Cap > 0
  <2>1. CASE \E k \in BOOLEAN : Recovery!Charged(n, k)
    BY <1>1, <1>6, <2>1, ChargeIsCovered
  <2>2. CASE UNCHANGED <<spent, stored>>
    <3>1. /\ Paying' = Paying \ {c}
          /\ c \in Paying => Cardinality(Paying') = Cardinality(Paying) - 1
          /\ c \notin Paying => Paying' = Paying
      BY <1>6, CallIsOver DEF RouterInv
    <3>2. /\ spent \in Nat /\ stored \in Nat /\ stored <= spent
          /\ spent + Cardinality(Paying) < Cap + Cardinality(Calls) /\ (Paying # {} => Cap > 0)
      BY DEF RouterInv, RouterTypes
    <3> HIDE DEF Paying
    <3>3. CASE c \in Paying
      BY <2>2, <3>1, <3>2, <3>3, PayingCounts
    <3>4. CASE c \notin Paying
      BY <2>2, <3>1, <3>2, <3>4
    <3> QED
      BY <3>3, <3>4
  <2> QED
    BY <1>1, <2>1, <2>2
<1>8. calls' \in [Calls -> [at : {"none", "asked", "fallback"}, name : Recovery!Names, secret : BOOLEAN]]
  BY <1>6 DEF RouterInv, RouterTypes
<1> QED
  BY <1>1, <1>5, <1>7, <1>8 DEF RouterInv, RouterTypes

\* Time, midnight and a restart.
LEMMA TimeKeepsRouter ==
  ASSUME RouterInv, Recovery!Tick \/ Recovery!NewDay \/ Recovery!Restart
  PROVE  RouterInv'
<1>1. Trip \in Nat \ {0} /\ Cooldown \in Nat /\ Recovery!NotHeld = Cooldown + 1 /\ Cap \in Nat
  BY ModelsAssumption DEF Recovery!NotHeld
<1>2. /\ spent \in Nat /\ stored \in Nat /\ stored <= spent /\ Sane(Recovery!breaker)
      /\ spent + Cardinality(Paying) < Cap + Cardinality(Calls) /\ (Paying # {} => Cap > 0)
      /\ providers \in Recovery!Wirings
      /\ calls \in [Calls -> [at : {"none", "asked", "fallback"}, name : Recovery!Names,
                              secret : BOOLEAN]]
  BY DEF RouterInv, RouterTypes
<1>3. /\ fails \in [Recovery!Names -> Nat] /\ held \in [Recovery!Names -> 0..(Cooldown + 1)]
      /\ \A n \in Recovery!Names : fails[n] >= Trip => held[n] <= Cooldown
  BY <1>1, <1>2 DEF Sane, Recovery!breaker
<1>4. CASE Recovery!Tick
  <2> DEFINE later == [n \in Recovery!Names |-> IF held[n] < Cooldown THEN held[n] + 1 ELSE held[n]]
  <2>1. held' = later /\ UNCHANGED <<providers, fails, calls, spent, stored>>
    BY <1>4 DEF Recovery!Tick
  <2>2. /\ later \in [Recovery!Names -> 0..(Cooldown + 1)]
        /\ \A n \in Recovery!Names : fails[n] >= Trip => later[n] <= Cooldown
    BY <1>1, <1>3
  <2> HIDE DEF later
  <2>3. Sane(Recovery!breaker)'
    BY <1>1, <1>3, <2>1, <2>2 DEF Sane, Recovery!breaker
  <2>4. Paying' = Paying
    BY <2>1 DEF Paying
  <2> QED
    BY <1>2, <2>1, <2>3, <2>4 DEF RouterInv, RouterTypes
<1>5. CASE Recovery!NewDay
  <2>1. spent' = 0 /\ stored' = 0 /\ UNCHANGED <<providers, fails, held, calls>>
    BY <1>5 DEF Recovery!NewDay
  <2>2. Paying' = Paying
    BY <2>1 DEF Paying
  <2>3. Sane(Recovery!breaker)'
    BY <1>2, <2>1 DEF Sane, Recovery!breaker
  <2>4. 0 + Cardinality(Paying) < Cap + Cardinality(Calls)
    BY <1>2, PayingCounts
  <2> QED
    BY <1>2, <2>1, <2>2, <2>3, <2>4 DEF RouterInv, RouterTypes
<1>6. CASE Recovery!Restart
  <2>1. /\ Recovery!Breaker(Recovery!Shut) /\ calls' = [c \in Calls |-> Recovery!NoCall]
        /\ spent' = stored /\ UNCHANGED <<providers, stored>>
    BY <1>6 DEF Recovery!Restart
  <2>2. Paying' = {}
    BY <2>1 DEF Paying, Recovery!NoCall
  <2>3. Sane(Recovery!Shut)
    BY <1>1 DEF Sane, Recovery!Shut
  <2>4. Cardinality({}) = 0
    BY FS_EmptySet
  <2>5. stored + Cardinality(Paying') < Cap + Cardinality(Calls)
    <3> DEFINE paid == Cardinality(Paying)
               free_ == Cardinality(Paying')
    <3>1. paid \in Nat /\ free_ = 0
      BY <2>2, <2>4, PayingCounts
    <3>2. spent + paid < Cap + Cardinality(Calls)
      BY <1>2
    <3> HIDE DEF paid, free_
    <3>3. stored + free_ < Cap + Cardinality(Calls)
      BY <1>2, <3>1, <3>2, PayingCounts
    <3> QED
      BY <3>3 DEF free_
  <2>6. calls' \in [Calls -> [at : {"none", "asked", "fallback"}, name : Recovery!Names,
                              secret : BOOLEAN]]
    BY <2>1 DEF Recovery!NoCall, Recovery!Names
  <2> QED
    BY <1>2, <2>1, <2>2, <2>3, <2>5, <2>6, BreakerIs DEF RouterInv, RouterTypes
<1> QED
  BY <1>4, <1>5, <1>6

\* What is repaired is parked, and what was repaired is looked at.
LEMMA RepairsKeepRouter ==
  ASSUME RouterInv, NEW p \in Presses, NEW S \in SUBSET Recovery!Names,
         Recovery!Parks(p, S) \/ Recovery!Verified(p, S)
  PROVE  RouterInv'
<1>1. /\ UNCHANGED <<providers, calls, spent, stored>> /\ Sane(Recovery!breaker)
      /\ providers \in Recovery!Wirings
  BY DEF RouterInv, RouterTypes, Recovery!Parks, Recovery!Verified
<1>2. Sane(Recovery!breaker)'
  <2>1. CASE Recovery!Parks(p, S)
    <3>1. PICK list \in Recovery!SetToSeqs(S) :
             Recovery!Breaker(Recovery!parkedAll(Recovery!breaker, list))
      BY <2>1 DEF Recovery!Parks
    <3>2. Len(list) \in Nat /\ \A i \in 1..Len(list) : list[i] \in Recovery!Names
      BY OrdersAre
    <3>3. Sane(Recovery!parkedAll(Recovery!breaker, list))
      BY <1>1, <3>2, AllParkedSparesOne
    <3> QED
      BY <3>1, <3>3, BreakerIs
  <2>2. CASE Recovery!Verified(p, S)
    <3>1. CASE UNCHANGED <<fails, held>>
      BY <1>1, <3>1 DEF Recovery!breaker, Sane
    <3>2. CASE Recovery!Breaker(Recovery!half_open(Recovery!breaker, Recovery!asked("FAST")))
      BY <1>1, <3>2, BreakerIs, HalfOpenIsSane
    <3> QED
      BY <2>2, <3>1, <3>2 DEF Recovery!Verified
  <2> QED
    BY <2>1, <2>2
<1>3. Paying' = Paying
  BY <1>1 DEF Paying
<1> QED
  BY <1>1, <1>2, <1>3 DEF RouterInv, RouterTypes

\* The lesser of two numbers.
LEMMA MinOfTwo ==
  ASSUME NEW a \in Nat, NEW b \in Nat
  PROVE  Recovery!Min({a, b}) = IF a <= b THEN a ELSE b
<1> DEFINE low == IF a <= b THEN a ELSE b
<1>1. low \in {a, b} /\ \A y \in {a, b} : low <= y
  OBVIOUS
<1>2. \A x \in {a, b} : (\A y \in {a, b} : x <= y) => x = low
  OBVIOUS
<1> HIDE DEF low
<1>3. Recovery!Min({a, b}) = CHOOSE x \in {a, b} : \A y \in {a, b} : x <= y
  BY DEF Recovery!Min
<1> QED
  BY <1>1, <1>2, <1>3 DEF low

\* Nothing was tried, or the process has begun anew.
LEMMA NoneIsHeld ==
  ASSUME attempts' = [k \in Components |-> Recovery!None], streak' = [k \in Components |-> 0]
  PROVE  AttemptsInv'
<1>1. MaxAttempts \in Nat \ {0} /\ Quiet \in Nat
  BY ModelsAssumption
<1> QED
  BY <1>1 DEF AttemptsInv, Recovery!None

\* The tries that count are counted.
LEMMA AttemptsStep ==
  ASSUME AttemptsInv, [Recovery!RecoveryNext]_modelVars
  PROVE  AttemptsInv'
<1>1. MaxAttempts \in Nat \ {0} /\ Quiet \in Nat
  BY ModelsAssumption
<1>2. /\ attempts \in [Components -> [count : Nat, idle : Nat]] /\ streak \in [Components -> Nat]
      /\ \A k \in Components : /\ streak[k] <= MaxAttempts
                               /\ attempts[k].idle <= Quiet => streak[k] <= attempts[k].count
  BY DEF AttemptsInv
<1>3. CASE UNCHANGED <<attempts, streak>>
  BY <1>2, <1>3 DEF AttemptsInv
<1>4. ASSUME NEW p \in Presses, NEW n \in Components, Recovery!Press(p, n) PROVE AttemptsInv'
  <2> DEFINE more == attempts[n].count + 1
             count_ == Recovery!Min({more, MaxAttempts + 1})
             tries == IF attempts[n].idle > Quiet THEN 1 ELSE streak[n] + 1
             new == [count |-> count_, idle |-> 0]
  <2>1. /\ attempts' = [attempts EXCEPT ![n] = new] /\ streak' = [streak EXCEPT ![n] = tries]
        /\ ~(attempts[n].count >= MaxAttempts /\ attempts[n].idle <= Quiet)
    BY <1>4 DEF Recovery!Press, Recovery!exhausted
  <2>2. attempts[n].count \in Nat /\ attempts[n].idle \in Nat /\ streak[n] \in Nat
    BY <1>2
  <2>3. count_ = IF more <= MaxAttempts + 1 THEN more ELSE MaxAttempts + 1
    BY <1>1, <2>2, MinOfTwo
  <2>4. tries \in Nat /\ count_ \in Nat /\ tries <= MaxAttempts /\ tries <= count_
    <3>1. attempts[n].idle <= Quiet => streak[n] <= attempts[n].count /\ attempts[n].count < MaxAttempts
      BY <1>1, <1>2, <2>1, <2>2
    <3> HIDE DEF count_
    <3> QED
      BY <1>1, <2>2, <2>3, <3>1
  <2>5. new \in [count : Nat, idle : Nat] /\ new.count = count_ /\ new.idle = 0
    <3> HIDE DEF count_
    <3> QED
      BY <2>4
  <2> HIDE DEF new, tries, count_
  <2> QED
    BY <1>2, <2>1, <2>4, <2>5 DEF AttemptsInv
<1>5. CASE Recovery!Wait
  <2> DEFINE later(k) == Recovery!Min({attempts[k].idle + 1, Quiet + 1})
             new(k) == [attempts[k] EXCEPT !.idle = later(k)]
  <2>1. attempts' = [k \in Components |-> new(k)] /\ UNCHANGED streak
    BY <1>5 DEF Recovery!Wait
  <2>2. ASSUME NEW k \in Components
        PROVE  later(k) \in Nat /\ (later(k) <= Quiet => attempts[k].idle <= Quiet)
    <3>1. attempts[k].idle \in Nat
      BY <1>2
    <3>2. later(k) = IF attempts[k].idle + 1 <= Quiet + 1 THEN attempts[k].idle + 1 ELSE Quiet + 1
      BY <1>1, <3>1, MinOfTwo
    <3> HIDE DEF later
    <3> QED
      BY <1>1, <3>1, <3>2
  <2> HIDE DEF later
  <2>3. \A k \in Components : /\ new(k) \in [count : Nat, idle : Nat]
                              /\ new(k).count = attempts[k].count /\ new(k).idle = later(k)
    BY <1>2, <2>2
  <2> HIDE DEF new
  <2> QED
    BY <1>2, <2>1, <2>2, <2>3 DEF AttemptsInv
<1>6. CASE Recovery!ProcessRestarts
  BY <1>6, NoneIsHeld DEF Recovery!ProcessRestarts
<1>7. \/ UNCHANGED <<attempts, streak>>
      \/ \E p \in Presses, n \in Components : Recovery!Press(p, n)
      \/ Recovery!Wait \/ Recovery!ProcessRestarts
  BY DEF Recovery!RecoveryNext, modelVars, Recovery!recoveryVars, Recovery!Parks, Recovery!Verified
<1> QED
  BY <1>3, <1>4, <1>5, <1>6, <1>7

\* Every step of the router and of the repairs keeps the breaker and the ceiling.
LEMMA RouterStep ==
  ASSUME RouterInv, [Recovery!RecoveryNext]_modelVars
  PROVE  RouterInv'
<1>1. CASE UNCHANGED <<providers, fails, held, calls, spent, stored>>
  <2>1. Paying' = Paying
    BY <1>1 DEF Paying
  <2> QED
    BY <1>1, <2>1 DEF RouterInv, RouterTypes, Sane, Recovery!breaker
<1>2. \/ UNCHANGED <<providers, fails, held, calls, spent, stored>>
      \/ \E p \in Presses, S \in SUBSET Recovery!Names :
            Recovery!Parks(p, S) \/ Recovery!Verified(p, S)
      \/ \E c \in Calls, tier \in Tiers, secret \in BOOLEAN : Recovery!Ask(c, tier, secret)
      \/ \E c \in Calls, k \in BOOLEAN :
            Recovery!Answers(c, k) \/ Recovery!Fails(c) \/ Recovery!PruneFails(c)
      \/ Recovery!Tick \/ Recovery!NewDay \/ Recovery!Restart
  BY DEF Recovery!RecoveryNext, modelVars, Recovery!Press, Recovery!routerVars, Recovery!Wait,
     Recovery!ProcessRestarts
<1> QED
  BY <1>1, <1>2, RepairsKeepRouter, AskIsCovered, EndsKeepRouter, TimeKeepsRouter

\* At first nothing failed and nothing was spent.
LEMMA ModelsInit == Recovery!RecoveryInit => ModelsInv
<1> SUFFICES ASSUME Recovery!RecoveryInit PROVE ModelsInv
  OBVIOUS
<1>1. /\ Trip \in Nat \ {0} /\ Cooldown \in Nat /\ Recovery!NotHeld = Cooldown + 1 /\ Cap \in Nat
      /\ MaxAttempts \in Nat \ {0} /\ Quiet \in Nat
  BY ModelsAssumption DEF Recovery!NotHeld
<1>2. /\ providers \in Recovery!Wirings /\ fails = Recovery!Shut.fails /\ held = Recovery!Shut.held
      /\ calls = [c \in Calls |-> Recovery!NoCall] /\ spent = 0 /\ stored = 0
      /\ attempts = [k \in Components |-> Recovery!None] /\ streak = [k \in Components |-> 0]
  BY DEF Recovery!RecoveryInit, Recovery!Init
<1>3. Sane(Recovery!breaker)
  BY <1>1, <1>2 DEF Sane, Recovery!Shut, Recovery!breaker
<1>4. Paying = {} /\ Cardinality({}) = 0
  BY <1>2, FS_EmptySet DEF Paying, Recovery!NoCall
<1>5. calls \in [Calls -> [at : {"none", "asked", "fallback"}, name : Recovery!Names,
                           secret : BOOLEAN]]
  BY <1>2 DEF Recovery!NoCall, Recovery!Names
<1>6. spent + Cardinality(Paying) < Cap + Cardinality(Calls)
  BY <1>1, <1>2, <1>4, PayingCounts
<1>7. AttemptsInv
  BY <1>1, <1>2 DEF AttemptsInv, Recovery!None
<1> QED
  BY <1>2, <1>3, <1>4, <1>5, <1>6, <1>7 DEF ModelsInv, RouterInv, RouterTypes

\* What the properties say of a state.
LEMMA ModelsInvSays ==
  ModelsInv => Recovery!HeldNotBanned /\ Recovery!CapBinds /\ Recovery!AttemptsAreBounded
<1> SUFFICES ASSUME ModelsInv
             PROVE  Recovery!HeldNotBanned /\ Recovery!CapBinds /\ Recovery!AttemptsAreBounded
  OBVIOUS
<1>1. Recovery!HeldNotBanned
  BY DEF ModelsInv, RouterInv, RouterTypes, Sane, Recovery!breaker, Recovery!HeldNotBanned
<1>2. Recovery!AttemptsAreBounded
  BY DEF ModelsInv, AttemptsInv, Recovery!AttemptsAreBounded
<1>3. Recovery!Cardinality(Calls) = Cardinality(Calls)
  BY DEF Recovery!Cardinality, Cardinality
<1>4. stored < Cap + Cardinality(Calls)
  <2>1. /\ spent \in Nat /\ stored \in Nat /\ stored <= spent
        /\ spent + Cardinality(Paying) < Cap + Cardinality(Calls)
    BY DEF ModelsInv, RouterInv, RouterTypes
  <2> DEFINE paid == Cardinality(Paying)
  <2>2. paid \in Nat /\ spent + paid < Cap + Cardinality(Calls)
    BY <2>1, PayingCounts
  <2> HIDE DEF paid
  <2> QED
    BY <2>1, <2>2, PayingCounts
<1> QED
  BY <1>1, <1>2, <1>3, <1>4 DEF Recovery!CapBinds

\* No parking takes the last provider.
LEMMA ParkingSparesHere == RouterInv => Recovery!ParkingSpares
<1> SUFFICES ASSUME RouterInv, NEW p \in Presses, NEW S \in SUBSET Recovery!Names,
                    Recovery!Parks(p, S), \E t \in Tiers : Recovery!choosable(Recovery!breaker, t)
             PROVE  \E t \in Tiers : Recovery!choosable(Recovery!breaker', t)
  BY DEF Recovery!ParkingSpares
<1>1. PICK list \in Recovery!SetToSeqs(S) :
         Recovery!Breaker(Recovery!parkedAll(Recovery!breaker, list))
  BY DEF Recovery!Parks
<1>2. Len(list) \in Nat /\ \A i \in 1..Len(list) : list[i] \in Recovery!Names
  BY OrdersAre
<1> DEFINE b == Recovery!parkedAll(Recovery!breaker, list)
<1>3. Spare(b)
  BY <1>2, AllParkedSparesOne DEF Spare, RouterInv, RouterTypes
<1>4. UNCHANGED providers /\ fails' = b.fails /\ held' = b.held
  BY <1>1 DEF Recovery!Parks, Recovery!Breaker
<1> HIDE DEF b
<1>5. PICK t \in Tiers : Recovery!choosable(b, t)
  BY <1>3 DEF Spare
<1> QED
  BY <1>4, <1>5 DEF Recovery!choosable, Recovery!resolvable, Recovery!parked, Recovery!breaker

-------------------------------------------------------------------------------
(* ModelRegistry: what machines report and what the owner said.              *)

Found == UNION {Kept[d] : d \in Holders}

JobRecs == [op : {"idle", "observe", "offline", "correct"}, machine : Holders \cup {""},
            reported : SUBSET Found, todo : SUBSET Registry!Keys, at : Nat, size : Nat,
            put : {<<>>} \cup (Registry!Keys \X Registry!Opinions)]

\* What is online is known, and what is known is somewhere in the dictionary's order.
RegistryTypes ==
  /\ models \in [Registry!Keys -> [known : BOOLEAN, online : BOOLEAN, opinion : Registry!Opinions]]
  /\ modelRows \in [Registry!Keys -> Registry!Opinions \cup {Registry!NoRow}]
  /\ connected \in [Holders -> SUBSET Found]
  /\ order \in Seq(Registry!Keys)
  /\ \A k \in Registry!Keys :
       /\ models[k].online => models[k].known
       /\ models[k].known => \E i \in 1..Len(order) : order[i] = k

\* A job saves models of its own machine, and walks the dictionary when nothing is left of
\* the report.
JobIsSound(j, n) ==
  /\ j \in JobRecs /\ j.at <= n
  /\ j.op \in {"observe", "offline"} => j.machine \in Holders
  /\ j.machine \in Holders => j.op \in {"observe", "offline"} /\ (j.put # <<>> => j.put[1][1] = j.machine)
  /\ j.op = "offline" => j.reported = {}
  /\ \A k \in j.todo : k[1] = j.machine /\ k[2] \in j.reported
  /\ j.at > 0 => j.todo = {}
JobsAreSound == jobs \in [Callers -> JobRecs] /\ \A c \in Callers : JobIsSound(jobs[c], Len(order))

\* What is being written of a model is what the owner said, and so is its row.
SavesAreTrue ==
  \A k \in Registry!Keys : k \notin loose =>
    /\ \A c \in Registry!puts(k) : jobs[c].put[2] = models[k].opinion
    /\ Registry!puts(k) = {} /\ models[k].known => modelRows[k] = models[k].opinion

\* What job j has dealt with of machine d is as d reported.
DealtWith(j, d, inventory, entries, list) ==
  /\ j.reported = inventory
  /\ \A m \in Kept[d] : m \in j.reported /\ <<d, m>> \notin j.todo => entries[<<d, m>>].online
  /\ \A i \in 1..j.at : list[i][1] = d /\ list[i][2] \notin j.reported => ~entries[list[i]].online

ReportsAreTrue ==
  \A d \in Holders : Registry!whole(d) \notin loose =>
    /\ \A c1, c2 \in Callers : jobs[c1].machine = d /\ jobs[c2].machine = d => c1 = c2
    /\ ~Registry!busyWith(d) =>
         \A m \in Kept[d] : models[<<d, m>>].online <=> m \in connected[d]
    /\ \A c \in Callers : jobs[c].machine = d => DealtWith(jobs[c], d, connected[d], models, order)

RegistryInv == RegistryTypes /\ JobsAreSound /\ SavesAreTrue /\ ReportsAreTrue

\* A model on a machine.
LEMMA KeysAre ==
  /\ \A k \in Registry!Keys : k[1] \in Holders /\ k[2] \in Kept[k[1]] /\ k = <<k[1], k[2]>>
  /\ \A d \in Holders : \A m \in Kept[d] : /\ <<d, m>> \in Registry!Keys
                                           /\ <<d, m>>[1] = d /\ <<d, m>>[2] = m
<1>1. ASSUME NEW k \in Registry!Keys
      PROVE  k[1] \in Holders /\ k[2] \in Kept[k[1]] /\ k = <<k[1], k[2]>>
  <2>1. PICK d \in Holders : k \in {<<d, m>> : m \in Kept[d]}
    BY DEF Registry!Keys
  <2>2. PICK m \in Kept[d] : k = <<d, m>>
    BY <2>1
  <2> QED
    BY <2>2
<1>2. ASSUME NEW d \in Holders, NEW m \in Kept[d]
      PROVE  <<d, m>> \in Registry!Keys /\ <<d, m>>[1] = d /\ <<d, m>>[2] = m
  <2>1. <<d, m>> \in {<<d, n>> : n \in Kept[d]}
    OBVIOUS
  <2> QED
    BY <2>1 DEF Registry!Keys
<1> QED
  BY <1>1, <1>2

\* There are finitely many models.
LEMMA KeysAreFew == IsFiniteSet(Registry!Keys)
<1> DEFINE all == {Kept[d] : d \in Holders}
           f == [d \in Holders |-> Kept[d]]
<1>1. f \in Surjection(Holders, all)
  BY DEF Surjection
<1>2. IsFiniteSet(all)
  BY <1>1, ModelsAssumption, FS_Surjection
<1>3. IsFiniteSet(Found)
  BY <1>2, ModelsAssumption, FS_UNION DEF Found
<1>4. IsFiniteSet(Holders \X Found)
  BY <1>3, ModelsAssumption, FS_Product
<1>5. Registry!Keys \subseteq Holders \X Found
  <2> SUFFICES ASSUME NEW k \in Registry!Keys PROVE k \in Holders \X Found
    OBVIOUS
  <2>1. k[1] \in Holders /\ k[2] \in Kept[k[1]] /\ k = <<k[1], k[2]>>
    BY KeysAre
  <2>2. k[2] \in Found
    BY <2>1 DEF Found
  <2> QED
    BY <2>1, <2>2
<1> QED
  BY <1>4, <1>5, FS_Subset

\* A row is not the empty tuple, and its parts are those it was made of.
LEMMA RowsAre ==
  ASSUME NEW k \in Registry!Keys, NEW r, r.opinion \in Registry!Opinions
  PROVE  LET p == Registry!row(k, r) IN
         /\ p \in Registry!Keys \X Registry!Opinions /\ p # <<>> /\ p[1] = k /\ p[2] = r.opinion
<1>1. Len(<<k, r.opinion>>) = 2 /\ Len(<<>>) = 0
  OBVIOUS
<1>2. <<k, r.opinion>> # <<>>
  BY <1>1
<1> QED
  BY <1>2 DEF Registry!row

\* An idle job.
LEMMA IdleIs ==
  /\ Registry!Idle \in JobRecs
  /\ Registry!Idle.op = "idle" /\ Registry!Idle.machine = "" /\ Registry!Idle.reported = {}
  /\ Registry!Idle.todo = {} /\ Registry!Idle.at = 0 /\ Registry!Idle.put = <<>>
  BY DEF JobRecs, Registry!Idle

\* A part of a range.
LEMMA Within ==
  ASSUME NEW a \in Nat, NEW b \in Nat, a <= b
  PROVE  \A i \in 1..a : i \in 1..b
  OBVIOUS

\* One job moves.
LEMMA JobMoves ==
  ASSUME JobsAreSound, NEW c \in Callers, NEW new, JobIsSound(new, Len(order')),
         jobs' = [jobs EXCEPT ![c] = new], Len(order) \in Nat, Len(order') \in Nat,
         Len(order) <= Len(order')
  PROVE  /\ JobsAreSound' /\ jobs'[c] = new
         /\ \A c1 \in Callers : c1 # c => jobs'[c1] = jobs[c1]
<1>1. jobs \in [Callers -> JobRecs] /\ \A c1 \in Callers : JobIsSound(jobs[c1], Len(order))
  BY DEF JobsAreSound
<1>2. new \in JobRecs
  BY DEF JobIsSound
<1>3. /\ jobs' \in [Callers -> JobRecs] /\ jobs'[c] = new
      /\ \A c1 \in Callers : c1 # c => jobs'[c1] = jobs[c1]
  BY <1>1, <1>2
<1>4. ASSUME NEW j, JobIsSound(j, Len(order)) PROVE JobIsSound(j, Len(order'))
  <2>1. j.at \in Nat
    BY <1>4 DEF JobIsSound, JobRecs
  <2> QED
    BY <1>4, <2>1 DEF JobIsSound
<1>5. \A c1 \in Callers : JobIsSound(jobs'[c1], Len(order'))
  BY <1>1, <1>3, <1>4
<1> QED
  BY <1>3, <1>5 DEF JobsAreSound

\* A job that saves nothing, before or after.
LEMMA NothingIsSaved ==
  ASSUME SavesAreTrue, JobsAreSound, NEW c \in Callers, NEW new, jobs[c].put = <<>>, new.put = <<>>,
         jobs' = [jobs EXCEPT ![c] = new], loose \subseteq loose', UNCHANGED <<models, modelRows>>
  PROVE  SavesAreTrue'
<1>1. /\ jobs'[c] = new /\ \A c1 \in Callers : c1 # c => jobs'[c1] = jobs[c1]
  BY DEF JobsAreSound
<1>2. \A k \in Registry!Keys : Registry!puts(k)' = Registry!puts(k)
  BY <1>1 DEF Registry!puts
<1>3. \A k \in Registry!Keys : c \notin Registry!puts(k)
  BY DEF Registry!puts
<1>4. \A k \in Registry!Keys : Registry!puts(k) \subseteq Callers
  BY DEF Registry!puts
<1> QED
  BY <1>1, <1>2, <1>3, <1>4 DEF SavesAreTrue

\* A job that begins to save a model.
LEMMA SaveBegins ==
  ASSUME SavesAreTrue, JobsAreSound, NEW c \in Callers, NEW k \in Registry!Keys, NEW new,
         jobs[c].put = <<>>, new.put # <<>>, new.put[1] = k, new.put[2] = models'[k].opinion,
         jobs' = [jobs EXCEPT ![c] = new],
         loose' = loose \cup (IF Registry!puts(k) # {} THEN {k} ELSE {}),
         \A k1 \in Registry!Keys : k1 # k => models'[k1] = models[k1],
         UNCHANGED modelRows
  PROVE  SavesAreTrue'
<1>1. /\ jobs'[c] = new /\ \A c1 \in Callers : c1 # c => jobs'[c1] = jobs[c1]
  BY DEF JobsAreSound
<1>2. ASSUME NEW k1 \in Registry!Keys, k1 \notin loose', k1 # k
      PROVE  /\ \A c1 \in Registry!puts(k1)' : jobs'[c1].put[2] = models'[k1].opinion
             /\ Registry!puts(k1)' = {} /\ models'[k1].known => modelRows'[k1] = models'[k1].opinion
  <2>1. Registry!puts(k1)' = Registry!puts(k1) /\ c \notin Registry!puts(k1)
    BY <1>1, <1>2 DEF Registry!puts
  <2>2. Registry!puts(k1) \subseteq Callers /\ k1 \notin loose
    BY <1>2 DEF Registry!puts
  <2> QED
    BY <1>1, <1>2, <2>1, <2>2 DEF SavesAreTrue
<1>3. ASSUME k \notin loose'
      PROVE  /\ \A c1 \in Registry!puts(k)' : jobs'[c1].put[2] = models'[k].opinion
             /\ Registry!puts(k)' # {}
  <2>1. Registry!puts(k) = {}
    BY <1>3
  <2>2. Registry!puts(k)' = {c}
    BY <1>1, <2>1 DEF Registry!puts
  <2> QED
    BY <1>1, <2>2
<1> QED
  BY <1>2, <1>3 DEF SavesAreTrue

\* The job of caller c becomes j: it goes on or ends, other machines' models stay as they are,
\* and what it dealt with of its own machine is as that machine reported.
Continues(c, j) ==
  /\ jobs' = [jobs EXCEPT ![c] = j] /\ j.machine \in {jobs[c].machine, ""}
  /\ loose \subseteq loose' /\ UNCHANGED connected
  /\ \A i \in 1..Len(order) : order'[i] = order[i]
  /\ \A k \in Registry!Keys : k[1] # jobs[c].machine => models'[k].online = models[k].online
  /\ \A d \in Holders : jobs[c].machine = d /\ Registry!whole(d) \notin loose' =>
       /\ j.machine = d => DealtWith(j, d, connected[d], models', order')
       /\ j.machine # d => \A m \in Kept[d] : models'[<<d, m>>].online <=> m \in connected[d]

\* Nothing changes for the other machines then.
LEMMA ReportsMove ==
  ASSUME RegistryTypes, JobsAreSound, ReportsAreTrue, NEW c \in Callers, NEW new, Continues(c, new)
  PROVE  ReportsAreTrue'
<1>0. /\ jobs' = [jobs EXCEPT ![c] = new] /\ new.machine \in {jobs[c].machine, ""}
      /\ loose \subseteq loose' /\ UNCHANGED connected
      /\ \A i \in 1..Len(order) : order'[i] = order[i]
      /\ \A k \in Registry!Keys : k[1] # jobs[c].machine => models'[k].online = models[k].online
      /\ \A d \in Holders : jobs[c].machine = d /\ Registry!whole(d) \notin loose' =>
           /\ new.machine = d => DealtWith(new, d, connected[d], models', order')
           /\ new.machine # d => \A m \in Kept[d] : models'[<<d, m>>].online <=> m \in connected[d]
  BY DEF Continues
<1>1. /\ jobs'[c] = new /\ \A c1 \in Callers : c1 # c => jobs'[c1] = jobs[c1]
  BY <1>0 DEF JobsAreSound
<1>2. "" \notin Holders
  BY ModelsAssumption
<1> SUFFICES ASSUME NEW d \in Holders, Registry!whole(d) \notin loose'
             PROVE  /\ \A c1, c2 \in Callers : jobs'[c1].machine = d /\ jobs'[c2].machine = d => c1 = c2
                    /\ ~Registry!busyWith(d)' =>
                         \A m \in Kept[d] : models'[<<d, m>>].online <=> m \in connected'[d]
                    /\ \A c1 \in Callers : jobs'[c1].machine = d =>
                         DealtWith(jobs'[c1], d, connected'[d], models', order')
  BY DEF ReportsAreTrue, Registry!whole
<1>3. /\ \A c1, c2 \in Callers : jobs[c1].machine = d /\ jobs[c2].machine = d => c1 = c2
      /\ ~Registry!busyWith(d) =>
           \A m \in Kept[d] : models[<<d, m>>].online <=> m \in connected[d]
      /\ \A c1 \in Callers : jobs[c1].machine = d =>
           DealtWith(jobs[c1], d, connected[d], models, order)
  BY <1>0 DEF ReportsAreTrue, Registry!whole
<1>4. \A c1 \in Callers : jobs'[c1].machine = d => jobs[c1].machine = d
  <2>1. new.machine = d => jobs[c].machine = d
    BY <1>0, <1>2
  <2> QED
    BY <1>1, <2>1
<1>5. CASE jobs[c].machine = d
  <2>1. \A c1 \in Callers : jobs'[c1].machine = d => c1 = c
    BY <1>3, <1>4, <1>5
  <2>2. ~Registry!busyWith(d)' => new.machine # d
    BY <1>1 DEF Registry!busyWith
  <2>3. /\ new.machine = d => DealtWith(new, d, connected[d], models', order')
        /\ new.machine # d =>
             \A m \in Kept[d] : models'[<<d, m>>].online <=> m \in connected[d]
    BY <1>0, <1>5
  <2>4. connected'[d] = connected[d]
    BY <1>0
  <2>5. \A c1 \in Callers : jobs'[c1].machine = d =>
           DealtWith(jobs'[c1], d, connected'[d], models', order')
    <3> SUFFICES ASSUME NEW c1 \in Callers, jobs'[c1].machine = d
                 PROVE  DealtWith(jobs'[c1], d, connected'[d], models', order')
      OBVIOUS
    <3>1. jobs'[c1] = new /\ new.machine = d
      BY <1>1, <2>1
    <3> QED
      BY <2>3, <2>4, <3>1
  <2>6. ~Registry!busyWith(d)' =>
           \A m \in Kept[d] : models'[<<d, m>>].online <=> m \in connected'[d]
    BY <2>2, <2>3, <2>4
  <2> QED
    BY <2>1, <2>5, <2>6
<1>6. CASE jobs[c].machine # d
  <2>1. \A m \in Kept[d] : models'[<<d, m>>].online = models[<<d, m>>].online
    BY <1>0, <1>6, KeysAre
  <2>2. ~Registry!busyWith(d)' => ~Registry!busyWith(d)
    BY <1>1, <1>6 DEF Registry!busyWith
  <2>3. ASSUME NEW c1 \in Callers, jobs'[c1].machine = d
        PROVE  DealtWith(jobs'[c1], d, connected'[d], models', order')
    <3>1. c1 # c /\ jobs'[c1] = jobs[c1] /\ jobs[c1].machine = d
      BY <1>1, <1>4, <1>6, <2>3
    <3>2. DealtWith(jobs[c1], d, connected[d], models, order)
      BY <1>3, <3>1
    <3>3. jobs[c1].at \in Nat /\ jobs[c1].at <= Len(order) /\ Len(order) \in Nat
      BY LenProperties DEF JobsAreSound, JobIsSound, JobRecs, RegistryTypes
    <3> DEFINE walked == jobs[c1].at
               seen == jobs[c1].reported
               size_ == Len(order)
    <3>4. \A i \in 1..walked : order'[i] = order[i] /\ order[i] \in Registry!Keys
      <4>1. walked \in Nat /\ walked <= size_ /\ size_ \in Nat
        BY <3>3
      <4> HIDE DEF walked, size_
      <4>2. \A i \in 1..walked : i \in 1..size_
        BY <4>1, Within
      <4> USE DEF size_
      <4> QED
        BY <1>0, <4>2, ElementOfSeq DEF RegistryTypes
    <3>5. \A i \in 1..walked : order[i][1] = d /\ order[i][2] \notin seen => ~models[order[i]].online
      BY <3>2 DEF DealtWith
    <3> HIDE DEF walked
    <3>6. \A i \in 1..walked : order'[i][1] = d /\ order'[i][2] \notin seen => ~models'[order'[i]].online
      BY <1>0, <1>6, <3>4, <3>5
    <3> USE DEF walked
    <3>7. seen = connected'[d]
      BY <1>0, <3>2 DEF DealtWith
    <3>8. \A m \in Kept[d] : m \in seen /\ <<d, m>> \notin jobs[c1].todo => models'[<<d, m>>].online
      BY <2>1, <3>2 DEF DealtWith
    <3> QED
      BY <3>1, <3>6, <3>7, <3>8 DEF DealtWith
  <2>4. connected'[d] = connected[d]
    BY <1>0
  <2> QED
    BY <1>3, <1>4, <2>1, <2>2, <2>3, <2>4
<1> QED
  BY <1>5, <1>6

\* A machine reports, or has gone.
LEMMA MachineJobBegins ==
  ASSUME RegistryInv, NEW c \in Callers, NEW d \in Holders, NEW new \in JobRecs, NEW S \in SUBSET Kept[d],
         jobs[c] = Registry!Idle, new.op \in {"observe", "offline"}, new.machine = d,
         new.reported = S, new.op = "offline" => S = {}, new.todo = {<<d, m>> : m \in S},
         new.at = 0, new.put = <<>>,
         jobs' = [jobs EXCEPT ![c] = new], connected' = [connected EXCEPT ![d] = S],
         loose' = loose \cup Registry!overlaps(d), UNCHANGED <<models, order, modelRows>>
  PROVE  RegistryInv'
<1>1. /\ RegistryTypes /\ JobsAreSound /\ SavesAreTrue /\ ReportsAreTrue
      /\ connected \in [Holders -> SUBSET Found] /\ S \in SUBSET Found /\ Len(order) \in Nat
  BY LenProperties DEF RegistryInv, RegistryTypes, Found
<1>2. RegistryTypes'
  <2>1. connected' \in [Holders -> SUBSET Found]
    BY <1>1
  <2> QED
    BY <1>1, <2>1 DEF RegistryTypes
<1>3. \A k \in new.todo : k[1] = d /\ k[2] \in S
  OBVIOUS
<1>4. JobIsSound(new, Len(order')) /\ Len(order') \in Nat /\ Len(order) <= Len(order')
  <2>1. Len(order') = Len(order)
    OBVIOUS
  <2>2. new.at <= Len(order)
    BY <1>1
  <2>3. JobIsSound(new, Len(order))
    BY <1>3, <2>2 DEF JobIsSound
  <2> QED
    BY <1>1, <2>1, <2>3
<1>5. /\ JobsAreSound' /\ jobs'[c] = new
      /\ \A c1 \in Callers : c1 # c => jobs'[c1] = jobs[c1]
  BY <1>1, <1>4, JobMoves
<1>6. SavesAreTrue'
  BY <1>1, IdleIs, NothingIsSaved
<1>7. ReportsAreTrue'
  <2> SUFFICES ASSUME NEW d1 \in Holders, Registry!whole(d1) \notin loose'
               PROVE  /\ \A c1, c2 \in Callers : jobs'[c1].machine = d1 /\ jobs'[c2].machine = d1 => c1 = c2
                      /\ ~Registry!busyWith(d1)' =>
                           \A m \in Kept[d1] : models'[<<d1, m>>].online <=> m \in connected'[d1]
                      /\ \A c1 \in Callers : jobs'[c1].machine = d1 =>
                           DealtWith(jobs'[c1], d1, connected'[d1], models', order')
    BY DEF ReportsAreTrue, Registry!whole
  <2>1. jobs[c].machine = "" /\ "" \notin Holders
    BY IdleIs, ModelsAssumption
  <2>2. /\ \A c1, c2 \in Callers : jobs[c1].machine = d1 /\ jobs[c2].machine = d1 => c1 = c2
        /\ ~Registry!busyWith(d1) =>
             \A m \in Kept[d1] : models[<<d1, m>>].online <=> m \in connected[d1]
        /\ \A c1 \in Callers : jobs[c1].machine = d1 =>
             DealtWith(jobs[c1], d1, connected[d1], models, order)
    BY <1>1 DEF ReportsAreTrue, Registry!whole
  <2>3. CASE d1 = d
    <3>1. ~Registry!busyWith(d)
      BY <2>3 DEF Registry!overlaps
    <3>2. \A c1 \in Callers : jobs'[c1].machine = d => c1 = c
      BY <1>5, <3>1 DEF Registry!busyWith
    <3>3. Registry!busyWith(d)'
      BY <1>5 DEF Registry!busyWith
    <3>4. DealtWith(new, d, S, models', order')
      BY DEF DealtWith
    <3>5. connected'[d] = S
      BY <1>1
    <3> QED
      BY <1>5, <2>3, <3>2, <3>3, <3>4, <3>5
  <2>4. CASE d1 # d
    <3>1. \A c1 \in Callers : jobs'[c1].machine = d1 => c1 # c /\ jobs[c1].machine = d1 /\ jobs'[c1] = jobs[c1]
      BY <1>5, <2>4
    <3>2. ~Registry!busyWith(d1)' => ~Registry!busyWith(d1)
      BY <1>5, <2>1 DEF Registry!busyWith
    <3>3. connected'[d1] = connected[d1]
      BY <1>1, <2>4
    <3> QED
      BY <2>2, <3>1, <3>2, <3>3
  <2> QED
    BY <2>3, <2>4
<1> QED
  BY <1>2, <1>5, <1>6, <1>7 DEF RegistryInv

\* DeviceHub.register.
LEMMA ConnectKeeps ==
  ASSUME RegistryInv, NEW c \in Callers, NEW d \in Holders, Registry!Connect(c, d)
  PROVE  RegistryInv'
<1>1. PICK S \in (SUBSET Kept[d]) \ {{}} :
        /\ Registry!Begins(c, d, [Registry!Idle EXCEPT !.op = "observe", !.machine = d,
                                    !.reported = S, !.todo = {<<d, m>> : m \in S}])
        /\ connected' = [connected EXCEPT ![d] = S]
  BY DEF Registry!Connect
<1> DEFINE todo == {<<d, m>> : m \in S}
           new == [Registry!Idle EXCEPT !.op = "observe", !.machine = d, !.reported = S, !.todo = todo]
<1>2. todo \in SUBSET Registry!Keys
  BY KeysAre
<1>3. S \in SUBSET Found /\ S \in SUBSET Kept[d]
  BY DEF Found
<1>4. /\ jobs[c] = Registry!Idle
      /\ jobs' = [jobs EXCEPT ![c] = new]
  BY <1>1 DEF Registry!Begins
<1>5. /\ loose' = loose \cup Registry!overlaps(d) /\ UNCHANGED <<models, order, modelRows>>
  BY DEF Registry!Connect
<1> HIDE DEF todo
<1>6. /\ new \in JobRecs /\ new.op = "observe" /\ new.machine = d /\ new.reported = S
      /\ new.todo = todo /\ new.at = 0 /\ new.put = <<>>
  BY <1>2, <1>3, IdleIs DEF JobRecs
<1> HIDE DEF new
<1> USE DEF todo
<1> QED
  BY <1>1, <1>3, <1>4, <1>5, <1>6, MachineJobBegins

\* DeviceHub.unregister.
LEMMA DisconnectKeeps ==
  ASSUME RegistryInv, NEW c \in Callers, NEW d \in Holders, Registry!Disconnect(c, d)
  PROVE  RegistryInv'
<1> DEFINE new == [Registry!Idle EXCEPT !.op = "offline", !.machine = d]
<1>1. /\ jobs[c] = Registry!Idle
      /\ jobs' = [jobs EXCEPT ![c] = new]
  BY DEF Registry!Disconnect, Registry!Begins
<1>2. /\ loose' = loose \cup Registry!overlaps(d) /\ UNCHANGED <<models, order, modelRows>>
      /\ connected' = [connected EXCEPT ![d] = {}]
  BY DEF Registry!Disconnect
<1>3. /\ new \in JobRecs /\ new.op = "offline" /\ new.machine = d /\ new.reported = {}
      /\ new.todo = {} /\ new.at = 0 /\ new.put = <<>>
  BY IdleIs DEF JobRecs
<1>4. {<<d, m>> : m \in {}} = {} /\ {} \in SUBSET Kept[d]
  OBVIOUS
<1> HIDE DEF new
<1>5. new.todo = {<<d, m>> : m \in {}}
  BY <1>3, <1>4
<1> QED
  BY <1>1, <1>2, <1>3, <1>4, <1>5, MachineJobBegins

\* The owner says something of a model: only what is known of it and its row change.
LEMMA CorrectKeeps ==
  ASSUME RegistryInv, NEW c \in Callers, NEW k \in Registry!Keys, NEW o \in Registry!Opinions,
         Registry!Correct(c, k, o)
  PROVE  RegistryInv'
<1>1. /\ models[k].known /\ jobs[c] = Registry!Idle
      /\ models' = [models EXCEPT ![k].opinion = o]
      /\ Registry!Saves(c, k, [Registry!Idle EXCEPT !.op = "correct"])
      /\ UNCHANGED <<order, modelRows, connected>>
  BY DEF Registry!Correct
<1>2. /\ RegistryTypes /\ JobsAreSound /\ SavesAreTrue /\ ReportsAreTrue /\ Len(order) \in Nat
      /\ models \in [Registry!Keys -> [known : BOOLEAN, online : BOOLEAN, opinion : Registry!Opinions]]
  BY LenProperties DEF RegistryInv, RegistryTypes
<1>3. /\ models' \in [Registry!Keys -> [known : BOOLEAN, online : BOOLEAN, opinion : Registry!Opinions]]
      /\ \A k1 \in Registry!Keys : k1 # k => models'[k1] = models[k1]
      /\ models'[k].known = models[k].known /\ models'[k].online = models[k].online
      /\ models'[k].opinion = o
  BY <1>1, <1>2
<1>4. PICK p : p = Registry!row(k, models'[k])
  OBVIOUS
<1>5. /\ p \in Registry!Keys \X Registry!Opinions /\ p # <<>> /\ p[1] = k /\ p[2] = models'[k].opinion
  BY <1>3, <1>4, RowsAre
<1> DEFINE new == [[Registry!Idle EXCEPT !.op = "correct"] EXCEPT !.put = p]
<1>6. /\ new \in JobRecs /\ new.op = "correct" /\ new.machine = "" /\ new.reported = {}
      /\ new.todo = {} /\ new.at = 0 /\ new.put = p
  BY <1>5, IdleIs DEF JobRecs
<1>7. /\ jobs' = [jobs EXCEPT ![c] = new]
      /\ loose' = loose \cup (IF Registry!puts(k) # {} THEN {k} ELSE {})
  BY <1>1, <1>4 DEF Registry!Saves
<1> HIDE DEF new
<1>8. jobs[c].put = <<>> /\ jobs[c].machine = "" /\ "" \notin Holders
  BY <1>1, IdleIs, ModelsAssumption
<1>9. Len(order') = Len(order) /\ Len(order') \in Nat /\ Len(order) <= Len(order')
  BY <1>1, <1>2
<1>10. JobIsSound(new, Len(order'))
  <2>0. new.at = 0
    BY <1>6
  <2>1. new.at <= Len(order')
    BY <1>9, <2>0
  <2>2. \A k1 \in new.todo : k1[1] = new.machine /\ k1[2] \in new.reported
    BY <1>6
  <2>3. ~(new.at > 0)
    BY <2>0
  <2> QED
    BY <1>6, <1>8, <2>1, <2>2, <2>3 DEF JobIsSound
<1>11. JobsAreSound'
  BY <1>2, <1>7, <1>9, <1>10, JobMoves
<1>12. RegistryTypes'
  <2>1. \A k1 \in Registry!Keys : models'[k1].online = models[k1].online
                                  /\ models'[k1].known = models[k1].known
    BY <1>3
  <2> QED
    BY <1>1, <1>2, <1>3, <2>1 DEF RegistryTypes
<1>13. SavesAreTrue'
  <2>1. new.put # <<>> /\ new.put[1] = k /\ new.put[2] = models'[k].opinion
    BY <1>5, <1>6
  <2>2. UNCHANGED modelRows
    BY <1>1
  <2>3. \A k1 \in Registry!Keys : k1 # k => models'[k1] = models[k1]
    BY <1>3
  <2>4. SavesAreTrue /\ JobsAreSound
    BY <1>2
  <2> QED
    BY <1>7, <1>8, <2>1, <2>2, <2>3, <2>4, SaveBegins
<1>14. ReportsAreTrue'
  <2>1. \A k1 \in Registry!Keys : k1[1] # jobs[c].machine => models'[k1].online = models[k1].online
    BY <1>3
  <2>2. new.machine \in {jobs[c].machine, ""} /\ loose \subseteq loose'
    BY <1>6, <1>7
  <2>3. \A i \in 1..Len(order) : order'[i] = order[i]
    BY <1>1
  <2>4. \A d \in Holders : jobs[c].machine # d
    BY <1>8
  <2>5. Continues(c, new)
    BY <1>1, <1>7, <2>1, <2>2, <2>3, <2>4 DEF Continues
  <2> QED
    BY <1>2, <2>5, ReportsMove
<1> QED
  BY <1>11, <1>12, <1>13, <1>14 DEF RegistryInv

\* observe(), one model of the report.
LEMMA RecordKeeps ==
  ASSUME RegistryInv, NEW c \in Callers, Registry!Record(c)
  PROVE  RegistryInv'
<1>1. PICK k \in jobs[c].todo :
       /\ models' = [models EXCEPT ![k].known = TRUE, ![k].online = TRUE]
       /\ order' = IF models[k].known THEN order ELSE Append(order, k)
       /\ Registry!Saves(c, k, [jobs[c] EXCEPT !.todo = @ \ {k}])
  BY DEF Registry!Record
<1> DEFINE j == jobs[c]
           d == j.machine
<1>2. /\ RegistryTypes /\ JobsAreSound /\ SavesAreTrue /\ ReportsAreTrue
      /\ order \in Seq(Registry!Keys) /\ Len(order) \in Nat
      /\ models \in [Registry!Keys -> [known : BOOLEAN, online : BOOLEAN, opinion : Registry!Opinions]]
      /\ j \in JobRecs /\ JobIsSound(j, Len(order))
  BY LenProperties DEF RegistryInv, RegistryTypes, JobsAreSound
<1>3. j.op = "observe" /\ j.put = <<>> /\ UNCHANGED <<modelRows, connected>>
  BY DEF Registry!Record
<1>4. /\ d \in Holders /\ k \in Registry!Keys /\ k[1] = d /\ k[2] \in j.reported /\ j.at = 0
  <2>1. j.todo \in SUBSET Registry!Keys /\ j.at \in Nat
    BY <1>2 DEF JobRecs
  <2>2. /\ d \in Holders /\ k[1] = d /\ k[2] \in j.reported /\ ~(j.at > 0)
    BY <1>2, <1>3 DEF JobIsSound
  <2> HIDE DEF j
  <2> QED
    BY <2>1, <2>2 DEF j
<1>5. /\ models' \in [Registry!Keys -> [known : BOOLEAN, online : BOOLEAN, opinion : Registry!Opinions]]
      /\ \A k1 \in Registry!Keys : k1 # k => models'[k1] = models[k1]
      /\ models'[k].known /\ models'[k].online /\ models'[k].opinion = models[k].opinion
  BY <1>1, <1>2, <1>4
<1>6. PICK p : p = Registry!row(k, models'[k])
  OBVIOUS
<1>7. /\ p \in Registry!Keys \X Registry!Opinions /\ p # <<>> /\ p[1] = k /\ p[2] = models'[k].opinion
  BY <1>4, <1>5, <1>6, RowsAre
<1> DEFINE new == [[j EXCEPT !.todo = @ \ {k}] EXCEPT !.put = p]
<1>8. /\ jobs' = [jobs EXCEPT ![c] = new]
      /\ loose' = loose \cup (IF Registry!puts(k) # {} THEN {k} ELSE {})
  BY <1>1, <1>6 DEF Registry!Saves
<1> HIDE DEF j
<1>9. /\ new \in JobRecs /\ new.op = "observe" /\ new.machine = d /\ new.reported = j.reported
      /\ new.todo = j.todo \ {k} /\ new.at = 0 /\ new.put = p
  BY <1>2, <1>3, <1>4, <1>7 DEF JobRecs
<1> HIDE DEF new
<1>10. /\ order' \in Seq(Registry!Keys) /\ Len(order') \in Nat /\ Len(order) <= Len(order')
       /\ \A i \in 1..Len(order) : order'[i] = order[i] /\ i \in 1..Len(order')
       /\ \E i \in 1..Len(order') : order'[i] = k
  <2>1. CASE models[k].known
    <3>1. \E i \in 1..Len(order) : order[i] = k
      BY <1>2, <1>4, <2>1 DEF RegistryTypes
    <3> QED
      BY <1>1, <1>2, <2>1, <3>1
  <2>2. CASE ~models[k].known
    <3> DEFINE longer == Append(order, k)
    <3>1. /\ longer \in Seq(Registry!Keys) /\ Len(longer) = Len(order) + 1
          /\ \A i \in 1..Len(order) : longer[i] = order[i]
          /\ longer[Len(order) + 1] = k
      BY <1>2, <1>4, AppendProperties
    <3>2. order' = longer
      BY <1>1, <2>2
    <3> HIDE DEF longer
    <3> QED
      BY <1>2, <3>1, <3>2
  <2> QED
    BY <2>1, <2>2
<1>11. RegistryTypes'
  <2>1. ASSUME NEW k1 \in Registry!Keys, models'[k1].known
        PROVE  \E i \in 1..Len(order') : order'[i] = k1
    <3>1. CASE k1 = k
      BY <1>10, <3>1
    <3>2. CASE k1 # k
      <4>1. PICK i \in 1..Len(order) : order[i] = k1
        BY <1>2, <1>5, <2>1, <3>2 DEF RegistryTypes
      <4> QED
        BY <1>10, <4>1
    <3> QED
      BY <3>1, <3>2
  <2>2. \A k1 \in Registry!Keys : models'[k1].online => models'[k1].known
    BY <1>2, <1>5 DEF RegistryTypes
  <2> QED
    BY <1>2, <1>3, <1>5, <1>10, <2>1, <2>2 DEF RegistryTypes
<1>12. JobIsSound(new, Len(order'))
  <2>1. \A k1 \in new.todo : k1[1] = new.machine /\ k1[2] \in new.reported
    BY <1>2, <1>9 DEF JobIsSound
  <2> QED
    BY <1>4, <1>7, <1>9, <1>10, <2>1 DEF JobIsSound
<1>13. JobsAreSound'
  BY <1>2, <1>8, <1>10, <1>12, JobMoves
<1>14. SavesAreTrue'
  <2>1. new.put # <<>> /\ new.put[1] = k /\ new.put[2] = models'[k].opinion
    BY <1>7, <1>9
  <2>2. UNCHANGED modelRows /\ jobs[c].put = <<>>
    BY <1>3 DEF j
  <2>3. \A k1 \in Registry!Keys : k1 # k => models'[k1] = models[k1]
    BY <1>5
  <2>4. SavesAreTrue /\ JobsAreSound /\ k \in Registry!Keys
    BY <1>2, <1>4
  <2> QED
    BY <1>8, <2>1, <2>2, <2>3, <2>4, SaveBegins
<1>15. ReportsAreTrue'
  <2>1. ASSUME Registry!whole(d) \notin loose'
        PROVE  DealtWith(new, d, connected[d], models', order')
    <3>1. DealtWith(j, d, connected[d], models, order)
      BY <1>2, <1>4, <1>8, <2>1 DEF ReportsAreTrue, j
    <3>2. \A m \in Kept[d] : m \in new.reported /\ <<d, m>> \notin new.todo => models'[<<d, m>>].online
      <4> SUFFICES ASSUME NEW m \in Kept[d], m \in new.reported, <<d, m>> \notin new.todo
                   PROVE  models'[<<d, m>>].online
        OBVIOUS
      <4>1. <<d, m>> \in Registry!Keys
        BY <1>4, KeysAre
      <4>2. CASE <<d, m>> = k
        BY <1>5, <4>2
      <4>3. CASE <<d, m>> # k
        BY <1>5, <1>9, <3>1, <4>1, <4>3 DEF DealtWith
      <4> QED
        BY <4>2, <4>3
    <3> QED
      BY <1>9, <3>1, <3>2 DEF DealtWith
  <2>2. \A k1 \in Registry!Keys : k1[1] # jobs[c].machine => models'[k1].online = models[k1].online
    BY <1>4, <1>5 DEF j
  <2>3. new.machine \in {jobs[c].machine, ""} /\ loose \subseteq loose' /\ new.machine = jobs[c].machine
    BY <1>8, <1>9 DEF j
  <2>4. \A d1 \in Holders : jobs[c].machine = d1 /\ Registry!whole(d1) \notin loose' =>
           /\ new.machine = d1 => DealtWith(new, d1, connected[d1], models', order')
           /\ new.machine # d1 =>
                \A m \in Kept[d1] : models'[<<d1, m>>].online <=> m \in connected[d1]
    BY <2>1, <2>3 DEF j
  <2>5. (\A i \in 1..Len(order) : order'[i] = order[i]) /\ UNCHANGED connected
    BY <1>3, <1>10
  <2>6. Continues(c, new)
    BY <1>8, <2>2, <2>3, <2>4, <2>5 DEF Continues
  <2> QED
    BY <1>2, <2>6, ReportsMove
<1> QED
  BY <1>11, <1>13, <1>14, <1>15 DEF RegistryInv

\* device_offline(), and the end of observe(): the next model that was not reported is taken
\* offline.
LEMMA SweepKeeps ==
  ASSUME RegistryInv, NEW c \in Callers, Registry!Sweep(c)
  PROVE  RegistryInv'
<1> DEFINE j == jobs[c]
           d == j.machine
           T == Registry!ahead(c)
           i == CHOOSE n \in T : \A l \in T : n <= l
           k == order[i]
<1>1. /\ RegistryTypes /\ JobsAreSound /\ SavesAreTrue /\ ReportsAreTrue
      /\ order \in Seq(Registry!Keys) /\ Len(order) \in Nat
      /\ models \in [Registry!Keys -> [known : BOOLEAN, online : BOOLEAN, opinion : Registry!Opinions]]
      /\ j \in JobRecs /\ JobIsSound(j, Len(order))
  BY LenProperties DEF RegistryInv, RegistryTypes, JobsAreSound
<1>2. /\ j.op \in {"observe", "offline"} /\ j.todo = {} /\ j.put = <<>> /\ T # {}
      /\ models' = [models EXCEPT ![k].online = FALSE]
      /\ Registry!Saves(c, k, [j EXCEPT !.at = i, !.size = Len(order)])
      /\ UNCHANGED <<order, modelRows, connected>>
  BY DEF Registry!Sweep, Registry!sweeping
<1>3. d \in Holders /\ (j.op = "offline" => j.reported = {}) /\ j.at \in Nat /\ j.at <= Len(order)
  BY <1>1, <1>2 DEF JobIsSound, JobRecs
<1>4. T = {n \in (j.at + 1)..Len(order) : Registry!unreported(c, order[n])}
  BY DEF Registry!ahead
<1> HIDE DEF T
<1>5. /\ i \in T /\ \A l \in T : i <= l
      /\ i \in (j.at + 1)..Len(order) /\ Registry!unreported(c, k)
  <2>1. T \in SUBSET Nat
    <3> DEFINE walked == j.at
    <3>1. walked \in Nat
      BY <1>3
    <3> HIDE DEF walked, j
    <3>2. (walked + 1)..Len(order) \subseteq Nat
      BY <1>1, <3>1
    <3> QED
      BY <1>4, <3>2 DEF walked
  <2>2. PICK x \in T : \A y \in T : ~(y < x)
    BY <1>2, <2>1, Smallest
  <2>3. x \in T /\ \A l \in T : x <= l
    BY <2>1, <2>2
  <2>4. i \in T /\ \A l \in T : i <= l
    BY <2>3
  <2> HIDE DEF i
  <2> QED
    BY <1>4, <2>4
<1> HIDE DEF i
<1>6. i \in Nat /\ i > j.at /\ i <= Len(order) /\ i \in 1..Len(order) /\ k \in Registry!Keys
  <2> DEFINE walked == j.at
  <2>1. walked \in Nat /\ i \in (walked + 1)..Len(order)
    BY <1>3, <1>5
  <2> HIDE DEF walked, j, k
  <2>2. i \in Nat /\ i > walked /\ i <= Len(order) /\ i \in 1..Len(order)
    BY <1>1, <2>1
  <2>3. k \in Registry!Keys
    BY <1>1, <2>2, ElementOfSeq DEF k
  <2> QED
    BY <2>2, <2>3 DEF walked
<1>7. k[1] = d /\ models[k].online /\ k[2] \notin j.reported
  BY <1>2, <1>3, <1>5 DEF Registry!unreported
<1> HIDE DEF k
<1>8. /\ models' \in [Registry!Keys -> [known : BOOLEAN, online : BOOLEAN, opinion : Registry!Opinions]]
      /\ \A k1 \in Registry!Keys : k1 # k => models'[k1] = models[k1]
      /\ models'[k].known = models[k].known /\ ~models'[k].online
      /\ models'[k].opinion = models[k].opinion
  BY <1>1, <1>2, <1>6
<1>9. PICK p : p = Registry!row(k, models'[k])
  OBVIOUS
<1>10. /\ p \in Registry!Keys \X Registry!Opinions /\ p # <<>> /\ p[1] = k /\ p[2] = models'[k].opinion
  BY <1>6, <1>8, <1>9, RowsAre
<1> DEFINE new == [[j EXCEPT !.at = i, !.size = Len(order)] EXCEPT !.put = p]
<1>11. /\ jobs' = [jobs EXCEPT ![c] = new]
       /\ loose' = loose \cup (IF Registry!puts(k) # {} THEN {k} ELSE {})
  BY <1>2, <1>9 DEF Registry!Saves
<1> HIDE DEF j
<1>12. /\ new \in JobRecs /\ new.op = j.op /\ new.machine = d /\ new.reported = j.reported
       /\ new.todo = {} /\ new.at = i /\ new.put = p
  BY <1>1, <1>2, <1>6, <1>10 DEF JobRecs
<1> HIDE DEF new
<1>13. Len(order') = Len(order) /\ Len(order') \in Nat /\ Len(order) <= Len(order')
  BY <1>1, <1>2
<1>14. RegistryTypes'
  <2>1. \A k1 \in Registry!Keys : /\ models'[k1].online => models[k1].online
                                  /\ models'[k1].known = models[k1].known
    BY <1>8
  <2> QED
    BY <1>1, <1>2, <1>8, <2>1 DEF RegistryTypes
<1>15. JobsAreSound'
  <2>1. JobIsSound(new, Len(order'))
    <3>1. new.at <= Len(order')
      BY <1>6, <1>12, <1>13
    <3>2. \A k1 \in new.todo : k1[1] = new.machine /\ k1[2] \in new.reported
      BY <1>12
    <3> QED
      BY <1>2, <1>3, <1>7, <1>10, <1>12, <3>1, <3>2 DEF JobIsSound
  <2> QED
    BY <1>1, <1>11, <1>13, <2>1, JobMoves
<1>16. SavesAreTrue'
  <2>1. new.put # <<>> /\ new.put[1] = k /\ new.put[2] = models'[k].opinion
    BY <1>10, <1>12
  <2>2. UNCHANGED modelRows /\ jobs[c].put = <<>>
    BY <1>2 DEF j
  <2>3. \A k1 \in Registry!Keys : k1 # k => models'[k1] = models[k1]
    BY <1>8
  <2>4. SavesAreTrue /\ JobsAreSound /\ k \in Registry!Keys
    BY <1>1, <1>6
  <2> QED
    BY <1>11, <2>1, <2>2, <2>3, <2>4, SaveBegins
<1>17. ReportsAreTrue'
  <2>1. ASSUME Registry!whole(d) \notin loose'
        PROVE  DealtWith(new, d, connected[d], models', order')
    <3>1. DealtWith(j, d, connected[d], models, order)
      BY <1>1, <1>3, <1>11, <2>1 DEF ReportsAreTrue, j
    <3>2. \A m \in Kept[d] : m \in new.reported /\ <<d, m>> \notin new.todo => models'[<<d, m>>].online
      <4> SUFFICES ASSUME NEW m \in Kept[d], m \in j.reported
                   PROVE  models'[<<d, m>>].online
        BY <1>12
      <4>1. <<d, m>> \in Registry!Keys /\ <<d, m>> # k
        BY <1>3, <1>7, KeysAre
      <4>2. models[<<d, m>>].online
        BY <1>2, <3>1 DEF DealtWith
      <4> QED
        BY <1>8, <4>1, <4>2
    <3>3. ASSUME NEW n \in 1..i, order[n][1] = d, order[n][2] \notin j.reported
          PROVE  ~models'[order[n]].online
      <4>1. order[n] \in Registry!Keys
        <5>1. n \in 1..Len(order)
          BY <1>1, <1>6
        <5> QED
          BY <1>1, <5>1, ElementOfSeq
      <4>2. CASE order[n] = k
        BY <1>8, <4>2
      <4>3. CASE order[n] # k
        <5>1. SUFFICES ASSUME models[order[n]].online PROVE FALSE
          BY <1>8, <4>1, <4>3
        <5>2. Registry!unreported(c, order[n])
          BY <3>3, <5>1 DEF Registry!unreported, j
        <5>3. n # i
          BY <4>3 DEF k
        <5> DEFINE walked == j.at
        <5>4. CASE n <= walked
          <6>1. n \in 1..walked
            BY <1>3, <5>4
          <6>2. \A l \in 1..walked : order[l][1] = d /\ order[l][2] \notin j.reported => ~models[order[l]].online
            BY <3>1 DEF DealtWith
          <6> QED
            BY <3>3, <5>1, <6>1, <6>2
        <5>5. CASE ~(n <= walked)
          <6>1. walked \in Nat /\ i \in Nat /\ i <= Len(order) /\ Len(order) \in Nat
            BY <1>1, <1>3, <1>6
          <6> HIDE DEF walked
          <6>2. n \in (walked + 1)..Len(order) /\ ~(i <= n)
            BY <5>3, <5>5, <6>1
          <6> USE DEF walked
          <6> QED
            BY <1>4, <1>5, <5>2, <6>2
        <5> QED
          BY <5>4, <5>5
      <4> QED
        BY <4>2, <4>3
    <3>4. \A n \in 1..new.at : order'[n][1] = d /\ order'[n][2] \notin new.reported => ~models'[order'[n]].online
      BY <1>2, <1>12, <3>3
    <3> QED
      BY <1>12, <3>1, <3>2, <3>4 DEF DealtWith
  <2>2. \A k1 \in Registry!Keys : k1[1] # jobs[c].machine => models'[k1].online = models[k1].online
    BY <1>7, <1>8 DEF j
  <2>3. new.machine \in {jobs[c].machine, ""} /\ loose \subseteq loose' /\ new.machine = jobs[c].machine
    BY <1>11, <1>12 DEF j
  <2>4. \A d1 \in Holders : jobs[c].machine = d1 /\ Registry!whole(d1) \notin loose' =>
           /\ new.machine = d1 => DealtWith(new, d1, connected[d1], models', order')
           /\ new.machine # d1 =>
                \A m \in Kept[d1] : models'[<<d1, m>>].online <=> m \in connected[d1]
    BY <2>1, <2>3 DEF j
  <2>5. (\A n \in 1..Len(order) : order'[n] = order[n]) /\ UNCHANGED connected
    BY <1>2
  <2>6. Continues(c, new)
    BY <1>11, <2>2, <2>3, <2>4, <2>5 DEF Continues
  <2> QED
    BY <1>1, <2>6, ReportsMove
<1> QED
  BY <1>14, <1>15, <1>16, <1>17 DEF RegistryInv

\* The walk is over, or raises because the dictionary has grown.
LEMMA SweepEndKeeps ==
  ASSUME RegistryInv, NEW c \in Callers, Registry!SweepEnds(c) \/ Registry!SweepRaises(c)
  PROVE  RegistryInv'
<1> DEFINE j == jobs[c]
           d == j.machine
           new == Registry!Idle
<1>1. /\ RegistryTypes /\ JobsAreSound /\ SavesAreTrue /\ ReportsAreTrue
      /\ order \in Seq(Registry!Keys) /\ Len(order) \in Nat
      /\ j \in JobRecs /\ JobIsSound(j, Len(order))
  BY LenProperties DEF RegistryInv, RegistryTypes, JobsAreSound
<1>2. /\ j.op \in {"observe", "offline"} /\ j.todo = {} /\ j.put = <<>>
      /\ jobs' = [jobs EXCEPT ![c] = new] /\ loose \subseteq loose'
      /\ UNCHANGED <<models, order, modelRows, connected>>
      /\ Registry!whole(d) \notin loose' => Registry!ahead(c) = {}
  BY DEF Registry!SweepEnds, Registry!SweepRaises, Registry!sweeping
<1>3. d \in Holders /\ (j.op = "offline" => j.reported = {}) /\ j.at \in Nat /\ j.at <= Len(order)
  BY <1>1, <1>2 DEF JobIsSound, JobRecs
<1>4. /\ new \in JobRecs /\ new.op = "idle" /\ new.machine = "" /\ new.reported = {}
      /\ new.todo = {} /\ new.at = 0 /\ new.put = <<>> /\ "" \notin Holders
  BY IdleIs, ModelsAssumption
<1> HIDE DEF new
<1>5. Len(order') = Len(order) /\ Len(order') \in Nat /\ Len(order) <= Len(order')
  BY <1>1, <1>2
<1>6. RegistryTypes'
  BY <1>1, <1>2 DEF RegistryTypes
<1>7. JobsAreSound'
  <2>1. JobIsSound(new, Len(order'))
    <3>0. new.at = 0
      BY <1>4
    <3>1. new.at <= Len(order') /\ ~(new.at > 0)
      BY <1>5, <3>0
    <3> QED
      BY <1>4, <3>1 DEF JobIsSound
  <2> QED
    BY <1>1, <1>2, <1>5, <2>1, JobMoves
<1>8. SavesAreTrue'
  <2>1. jobs[c].put = <<>> /\ new.put = <<>> /\ UNCHANGED <<models, modelRows>> /\ loose \subseteq loose'
    BY <1>2, <1>4
  <2> QED
    BY <1>1, <1>2, <2>1, NothingIsSaved
<1>9. ReportsAreTrue'
  <2>1. ASSUME Registry!whole(d) \notin loose', NEW m \in Kept[d]
        PROVE  models'[<<d, m>>].online <=> m \in connected[d]
    <3>1. DealtWith(j, d, connected[d], models, order)
      BY <1>1, <1>2, <1>3, <2>1 DEF ReportsAreTrue
    <3>2. m \in j.reported => models[<<d, m>>].online
      BY <1>2, <3>1 DEF DealtWith
    <3>3. ASSUME models[<<d, m>>].online, m \notin j.reported PROVE FALSE
      <4>1. <<d, m>> \in Registry!Keys /\ <<d, m>>[1] = d /\ <<d, m>>[2] = m
        BY <1>3, KeysAre
      <4>2. PICK n \in 1..Len(order) : order[n] = <<d, m>>
        BY <1>1, <3>3, <4>1 DEF RegistryTypes
      <4>3. Registry!unreported(c, order[n])
        BY <3>3, <4>1, <4>2 DEF Registry!unreported
      <4> DEFINE walked == j.at
      <4>4. CASE n <= walked
        <5>1. walked \in Nat
          BY <1>3
        <5>2. \A l \in 1..walked : order[l][1] = d /\ order[l][2] \notin j.reported => ~models[order[l]].online
          BY <3>1 DEF DealtWith
        <5> HIDE DEF walked
        <5>3. n \in 1..walked
          BY <4>4, <5>1
        <5> QED
          BY <3>3, <4>1, <4>2, <5>2, <5>3
      <4>5. CASE ~(n <= walked)
        <5>1. walked \in Nat
          BY <1>3
        <5> HIDE DEF walked
        <5>2. n \in (walked + 1)..Len(order)
          BY <1>1, <4>5, <5>1
        <5> USE DEF walked
        <5>3. n \in Registry!ahead(c)
          BY <4>3, <5>2 DEF Registry!ahead
        <5> QED
          BY <1>2, <2>1, <5>3
      <4> QED
        BY <4>4, <4>5
    <3> QED
      BY <1>2, <3>1, <3>2, <3>3 DEF DealtWith
  <2>2. \A k1 \in Registry!Keys : k1[1] # jobs[c].machine => models'[k1].online = models[k1].online
    BY <1>2
  <2>3. new.machine \in {jobs[c].machine, ""} /\ loose \subseteq loose'
    BY <1>2, <1>4
  <2>4. \A d1 \in Holders : jobs[c].machine = d1 /\ Registry!whole(d1) \notin loose' =>
           /\ new.machine = d1 => DealtWith(new, d1, connected[d1], models', order')
           /\ new.machine # d1 =>
                \A m \in Kept[d1] : models'[<<d1, m>>].online <=> m \in connected[d1]
    BY <1>4, <2>1
  <2>5. (\A n \in 1..Len(order) : order'[n] = order[n]) /\ UNCHANGED connected
    BY <1>2
  <2>6. Continues(c, new)
    BY <1>2, <2>2, <2>3, <2>4, <2>5 DEF Continues
  <2> QED
    BY <1>1, <2>6, ReportsMove
<1> QED
  BY <1>6, <1>7, <1>8, <1>9 DEF RegistryInv

\* A write commits, or raises and ends its job.
LEMMA CommitKeeps ==
  ASSUME RegistryInv, NEW c \in Callers, Registry!Commit(c) \/ Registry!CommitFails(c)
  PROVE  RegistryInv'
<1> DEFINE j == jobs[c]
           d == j.machine
           k == j.put[1]
<1>1. /\ RegistryTypes /\ JobsAreSound /\ SavesAreTrue /\ ReportsAreTrue
      /\ order \in Seq(Registry!Keys) /\ Len(order) \in Nat
      /\ j \in JobRecs /\ JobIsSound(j, Len(order))
      /\ modelRows \in [Registry!Keys -> Registry!Opinions \cup {Registry!NoRow}]
  BY LenProperties DEF RegistryInv, RegistryTypes, JobsAreSound
<1>2. /\ j.put # <<>> /\ UNCHANGED <<models, order, connected>>
      /\ j.put \in Registry!Keys \X Registry!Opinions
  BY <1>1 DEF Registry!Commit, Registry!CommitFails, JobRecs
<1>3. k \in Registry!Keys /\ j.put[2] \in Registry!Opinions
  BY <1>2
<1> DEFINE goesOn(n) == /\ n.op = j.op /\ n.machine = d /\ n.reported = j.reported /\ n.todo = j.todo
                        /\ n.at = j.at
<1>4. PICK new \in JobRecs :
         /\ jobs' = [jobs EXCEPT ![c] = new] /\ new.put = <<>>
         /\ \/ new = Registry!Idle /\ (j.op = "correct" \/ Registry!whole(k[1]) \in loose')
            \/ goesOn(new)
  <2>1. CASE Registry!CommitFails(c)
    BY <2>1, IdleIs DEF Registry!CommitFails
  <2>2. CASE Registry!Commit(c) /\ j.op = "correct"
    BY <2>2, IdleIs DEF Registry!Commit
  <2>3. CASE Registry!Commit(c) /\ j.op # "correct"
    <3> DEFINE n == [j EXCEPT !.put = <<>>]
    <3>1. jobs' = [jobs EXCEPT ![c] = n]
      BY <2>3 DEF Registry!Commit
    <3> HIDE DEF j
    <3>2. n \in JobRecs /\ goesOn(n) /\ n.put = <<>>
      BY <1>1 DEF JobRecs
    <3> QED
      BY <3>1, <3>2
  <2> QED
    BY <2>1, <2>2, <2>3
<1> HIDE DEF j
<1>5. Len(order') = Len(order) /\ Len(order') \in Nat /\ Len(order) <= Len(order')
  BY <1>1, <1>2
<1>6. loose \subseteq loose'
  BY DEF Registry!Commit, Registry!CommitFails
<1>7. RegistryTypes'
  <2>1. modelRows' \in [Registry!Keys -> Registry!Opinions \cup {Registry!NoRow}]
    <3>1. modelRows' = modelRows \/ modelRows' = [modelRows EXCEPT ![k] = j.put[2]]
      BY DEF Registry!Commit, Registry!CommitFails, j
    <3> QED
      BY <1>1, <1>3, <3>1
  <2> QED
    BY <1>1, <1>2, <2>1 DEF RegistryTypes
<1>8. JobsAreSound'
  <2>1. CASE new = Registry!Idle
    <3>1. new.at = 0
      BY <2>1, IdleIs
    <3>2. new.at <= Len(order') /\ ~(new.at > 0)
      BY <1>5, <3>1
    <3>3. JobIsSound(new, Len(order'))
      BY <2>1, <3>2, IdleIs, ModelsAssumption DEF JobIsSound
    <3> QED
      BY <1>1, <1>4, <1>5, <3>3, JobMoves
  <2>2. CASE goesOn(new)
    <3>1. JobIsSound(new, Len(order'))
      BY <1>1, <1>4, <1>5, <2>2 DEF JobIsSound
    <3> QED
      BY <1>1, <1>4, <1>5, <3>1, JobMoves
  <2> QED
    BY <1>4, <2>1, <2>2
<1>9. /\ jobs'[c] = new /\ \A c1 \in Callers : c1 # c => jobs'[c1] = jobs[c1]
  BY <1>1, <1>4 DEF JobsAreSound
<1>10. SavesAreTrue'
  <2> SUFFICES ASSUME NEW k1 \in Registry!Keys, k1 \notin loose'
               PROVE  /\ \A c1 \in Registry!puts(k1)' : jobs'[c1].put[2] = models'[k1].opinion
                      /\ Registry!puts(k1)' = {} /\ models'[k1].known => modelRows'[k1] = models'[k1].opinion
    BY DEF SavesAreTrue
  <2>1. Registry!puts(k1)' = Registry!puts(k1) \ {c} /\ Registry!puts(k1) \subseteq Callers
    BY <1>4, <1>9 DEF Registry!puts
  <2>2. /\ \A c1 \in Registry!puts(k1) : jobs[c1].put[2] = models[k1].opinion
        /\ Registry!puts(k1) = {} /\ models[k1].known => modelRows[k1] = models[k1].opinion
    BY <1>1, <1>6 DEF SavesAreTrue
  <2>3. \A c1 \in Registry!puts(k1)' : jobs'[c1].put[2] = models'[k1].opinion
    BY <1>2, <1>9, <2>1, <2>2
  <2>4. CASE k1 # k
    <3>1. c \notin Registry!puts(k1)
      BY <2>4 DEF Registry!puts, j
    <3>2. modelRows'[k1] = modelRows[k1]
      BY <1>1, <1>3, <2>4 DEF Registry!Commit, Registry!CommitFails, j
    <3> QED
      BY <1>2, <2>1, <2>2, <2>3, <3>1, <3>2
  <2>5. CASE k1 = k
    <3>1. Registry!Commit(c)
      BY <2>5 DEF Registry!CommitFails, j
    <3>2. modelRows'[k] = j.put[2]
      BY <1>1, <1>3, <3>1 DEF Registry!Commit, j
    <3>3. c \in Registry!puts(k)
      BY <1>2 DEF Registry!puts, j
    <3>4. modelRows'[k1] = models'[k1].opinion
      BY <1>2, <2>2, <2>5, <3>2, <3>3 DEF j
    <3> QED
      BY <2>3, <3>4
  <2> QED
    BY <2>4, <2>5
<1>11. ReportsAreTrue'
  <2>1. new.machine \in {jobs[c].machine, ""}
    BY <1>4, IdleIs DEF j
  <2>2. ASSUME d \in Holders, Registry!whole(d) \notin loose' PROVE goesOn(new)
    <3>1. j.op # "correct" /\ k[1] = d
      BY <1>1, <1>2, <2>2 DEF JobIsSound
    <3> QED
      BY <1>4, <2>2, <3>1
  <2>3. ASSUME d \in Holders, Registry!whole(d) \notin loose'
        PROVE  DealtWith(new, d, connected[d], models', order')
    <3>1. DealtWith(j, d, connected[d], models, order)
      BY <1>1, <1>6, <2>3 DEF ReportsAreTrue, j
    <3> QED
      BY <1>2, <2>2, <2>3, <3>1 DEF DealtWith
  <2>4. \A d1 \in Holders : jobs[c].machine = d1 /\ Registry!whole(d1) \notin loose' =>
           /\ new.machine = d1 => DealtWith(new, d1, connected[d1], models', order')
           /\ new.machine # d1 =>
                \A m \in Kept[d1] : models'[<<d1, m>>].online <=> m \in connected[d1]
    BY <2>2, <2>3 DEF j
  <2>5. /\ \A n \in 1..Len(order) : order'[n] = order[n]
        /\ \A k1 \in Registry!Keys : k1[1] # jobs[c].machine => models'[k1].online = models[k1].online
        /\ UNCHANGED connected
    BY <1>2
  <2>6. Continues(c, new)
    BY <1>4, <1>6, <2>1, <2>4, <2>5 DEF Continues
  <2> QED
    BY <1>1, <2>6, ReportsMove
<1> QED
  BY <1>7, <1>8, <1>10, <1>11 DEF RegistryInv

\* restore(): what the table holds, and nothing is online.
LEMMA RestartKeeps ==
  ASSUME RegistryTypes, Registry!Restart
  PROVE  RegistryInv'
<1> DEFINE S == {k \in Registry!Keys : modelRows[k] # Registry!NoRow}
           n == Cardinality(S)
           entry(k) == IF modelRows[k] = Registry!NoRow THEN Registry!Unknown
                       ELSE [known |-> TRUE, online |-> FALSE, opinion |-> modelRows[k]]
<1>1. /\ models' = [k \in Registry!Keys |-> entry(k)]
      /\ connected' = [d \in Holders |-> {}] /\ jobs' = [c \in Callers |-> Registry!Idle]
      /\ loose' = {} /\ UNCHANGED modelRows
      /\ modelRows \in [Registry!Keys -> Registry!Opinions \cup {Registry!NoRow}]
  BY DEF Registry!Restart, RegistryTypes
<1>2. \A k \in Registry!Keys :
        /\ entry(k) \in [known : BOOLEAN, online : BOOLEAN, opinion : Registry!Opinions]
        /\ ~entry(k).online /\ (entry(k).known <=> k \in S)
        /\ k \in S => entry(k).opinion = modelRows[k]
  BY <1>1 DEF Registry!Unknown, Registry!Opinions, Registry!NoRow
<1> HIDE DEF entry
<1>3. IsFiniteSet(S) /\ n \in Nat
  <2>1. S \in SUBSET Registry!Keys
    OBVIOUS
  <2> HIDE DEF S
  <2> QED
    BY <2>1, KeysAreFew, FS_Subset, FS_CardinalityType
<1>4. Registry!Cardinality(S) = n
  BY DEF Registry!Cardinality, Cardinality
<1>5. /\ order' \in [1..n -> S] /\ \A i, j \in 1..n : i # j => order'[i] # order'[j]
  BY <1>4 DEF Registry!Restart
<1> HIDE DEF S, n
<1>6. \A k \in S : \E i \in 1..n : order'[i] = k
  <2>1. order' \in Injection(1..n, S)
    BY <1>5 DEF Injection, IsInjective
  <2>2. Cardinality(1..n) = n
    BY <1>3, FS_Interval
  <2>3. order' \in Surjection(1..n, S)
    BY <1>3, <2>1, <2>2, FS_Injection DEF n
  <2> QED
    BY <2>3 DEF Surjection
<1>7. order' \in Seq(Registry!Keys) /\ Len(order') = n
  <2>1. S \subseteq Registry!Keys
    BY DEF S
  <2>2. order' \in [1..n -> Registry!Keys]
    BY <1>5, <2>1
  <2> QED
    BY <1>3, <2>2
<1>8. RegistryTypes'
  <2>1. models' \in [Registry!Keys -> [known : BOOLEAN, online : BOOLEAN, opinion : Registry!Opinions]]
    BY <1>1, <1>2
  <2>2. \A k \in Registry!Keys : ~models'[k].online /\ (models'[k].known <=> k \in S)
    BY <1>1, <1>2
  <2>3. connected' \in [Holders -> SUBSET Found]
    BY <1>1
  <2> QED
    BY <1>1, <1>6, <1>7, <2>1, <2>2, <2>3 DEF RegistryTypes
<1>9. JobsAreSound'
  <2>1. Registry!Idle.at <= Len(order') /\ ~(Registry!Idle.at > 0)
    <3>1. Registry!Idle.at = 0
      BY IdleIs
    <3> QED
      BY <1>3, <1>7, <3>1
  <2>2. JobIsSound(Registry!Idle, Len(order'))
    BY <2>1, IdleIs, ModelsAssumption DEF JobIsSound
  <2> QED
    BY <1>1, <2>2, IdleIs DEF JobsAreSound
<1>10. SavesAreTrue'
  <2>1. \A k \in Registry!Keys : Registry!puts(k)' = {}
    BY <1>1, IdleIs DEF Registry!puts
  <2>2. \A k \in Registry!Keys : models'[k].known => modelRows'[k] = models'[k].opinion
    BY <1>1, <1>2
  <2> QED
    BY <2>1, <2>2 DEF SavesAreTrue
<1>11. ReportsAreTrue'
  <2>1. \A c \in Callers : jobs'[c].machine = "" /\ "" \notin Holders
    BY <1>1, IdleIs, ModelsAssumption
  <2>2. \A d \in Holders : \A m \in Kept[d] : ~models'[<<d, m>>].online /\ connected'[d] = {}
    BY <1>1, <1>2, KeysAre
  <2> QED
    BY <2>1, <2>2 DEF ReportsAreTrue
<1> QED
  BY <1>8, <1>9, <1>10, <1>11 DEF RegistryInv

\* A step of the registry.
LEMMA RegistryStep == RegistryInv /\ [Registry!Next]_registryVars => RegistryInv'
<1> SUFFICES ASSUME RegistryInv, [Registry!Next]_registryVars PROVE RegistryInv'
  OBVIOUS
<1>1. CASE UNCHANGED registryVars
  <2>1. /\ RegistryTypes /\ JobsAreSound /\ SavesAreTrue /\ ReportsAreTrue
        /\ UNCHANGED <<models, order, modelRows, connected, jobs, loose>>
    BY <1>1 DEF registryVars, RegistryInv
  <2>2. RegistryTypes'
    BY <2>1 DEF RegistryTypes
  <2>3. JobsAreSound'
    BY <2>1 DEF JobsAreSound
  <2>4. SavesAreTrue'
    BY <2>1 DEF SavesAreTrue, Registry!puts
  <2>5. ReportsAreTrue'
    BY <2>1 DEF ReportsAreTrue, Registry!whole, Registry!busyWith
  <2> QED
    BY <2>2, <2>3, <2>4, <2>5 DEF RegistryInv
<1>2. CASE Registry!Next
  BY <1>2, ConnectKeeps, DisconnectKeeps, CorrectKeeps, RecordKeeps, SweepKeeps, SweepEndKeeps,
     CommitKeeps, RestartKeeps DEF Registry!Next, RegistryInv
<1> QED
  BY <1>1, <1>2

\* At first nothing is known.
LEMMA RegistryStarts == Registry!Init => RegistryInv
<1> SUFFICES ASSUME Registry!Init PROVE RegistryInv
  OBVIOUS
<1>1. /\ models = [k \in Registry!Keys |-> Registry!Unknown] /\ order = <<>>
      /\ modelRows = [k \in Registry!Keys |-> Registry!NoRow]
      /\ connected = [d \in Holders |-> {}]
      /\ jobs = [c \in Callers |-> Registry!Idle] /\ loose = {}
  BY DEF Registry!Init
<1>2. order \in Seq(Registry!Keys) /\ Len(order) = 0
  BY <1>1, EmptySeq
<1>3. /\ Registry!Unknown \in [known : BOOLEAN, online : BOOLEAN, opinion : Registry!Opinions]
      /\ ~Registry!Unknown.known /\ ~Registry!Unknown.online
  BY DEF Registry!Unknown, Registry!Opinions
<1>4. RegistryTypes
  BY <1>1, <1>2, <1>3 DEF RegistryTypes
<1>5. JobsAreSound
  <2>1. Registry!Idle.at <= Len(order) /\ ~(Registry!Idle.at > 0)
    <3>1. Registry!Idle.at = 0
      BY IdleIs
    <3> QED
      BY <1>2, <3>1
  <2>2. JobIsSound(Registry!Idle, Len(order))
    BY <2>1, IdleIs, ModelsAssumption DEF JobIsSound
  <2> QED
    BY <1>1, <2>2, IdleIs DEF JobsAreSound
<1>6. SavesAreTrue
  <2>1. \A k \in Registry!Keys : Registry!puts(k) = {} /\ ~models[k].known
    BY <1>1, <1>3, IdleIs DEF Registry!puts
  <2> QED
    BY <2>1 DEF SavesAreTrue
<1>7. ReportsAreTrue
  <2>1. \A c \in Callers : jobs[c].machine = "" /\ "" \notin Holders
    BY <1>1, IdleIs, ModelsAssumption
  <2>2. \A d \in Holders : \A m \in Kept[d] : ~models[<<d, m>>].online /\ connected[d] = {}
    BY <1>1, <1>3, KeysAre
  <2> QED
    BY <2>1, <2>2 DEF ReportsAreTrue
<1> QED
  BY <1>4, <1>5, <1>6, <1>7 DEF RegistryInv

\* What the properties say of a state, and of a step.
LEMMA RegistryInvSays ==
  RegistryInv => Registry!OnlineMeansReported /\ Registry!CorrectionIsKept
<1> SUFFICES ASSUME RegistryInv
             PROVE  Registry!OnlineMeansReported /\ Registry!CorrectionIsKept
  OBVIOUS
<1>1. Registry!OnlineMeansReported
  BY DEF RegistryInv, ReportsAreTrue, Registry!OnlineMeansReported
<1>2. Registry!CorrectionIsKept
  BY DEF RegistryInv, SavesAreTrue, Registry!CorrectionIsKept
<1> QED
  BY <1>1, <1>2

\* The owner's opinion of a model changes by the owner alone.
LEMMA OpinionSteps ==
  ASSUME RegistryInv, [Registry!Next]_registryVars, NEW k \in Registry!Keys,
         models[k].known, models'[k].known, models'[k].opinion # models[k].opinion
  PROVE  \/ \E c \in Callers : jobs'[c].op = "correct" /\ jobs'[c].put[1] = k
         \/ k \in loose \/ Registry!puts(k) # {}
<1>1. /\ models \in [Registry!Keys -> [known : BOOLEAN, online : BOOLEAN, opinion : Registry!Opinions]]
      /\ jobs \in [Callers -> JobRecs]
  BY DEF RegistryInv, RegistryTypes, JobsAreSound
<1>2. ASSUME NEW c \in Callers, NEW k1 \in Registry!Keys, NEW o \in Registry!Opinions,
             Registry!Correct(c, k1, o)
      PROVE  jobs'[c].op = "correct" /\ jobs'[c].put[1] = k
  <2>1. k1 = k /\ models'[k].opinion = o
    BY <1>1, <1>2 DEF Registry!Correct
  <2>2. PICK p : p = Registry!row(k, models'[k])
    OBVIOUS
  <2>3. p \in Registry!Keys \X Registry!Opinions /\ p[1] = k
    BY <2>1, <2>2, RowsAre
  <2> DEFINE new == [[Registry!Idle EXCEPT !.op = "correct"] EXCEPT !.put = p]
  <2>4. new.op = "correct" /\ new.put = p
    BY <2>3, IdleIs DEF JobRecs
  <2>5. jobs' = [jobs EXCEPT ![c] = new]
    BY <1>2, <2>1, <2>2 DEF Registry!Correct, Registry!Saves
  <2> HIDE DEF new
  <2> QED
    BY <1>1, <2>3, <2>4, <2>5
<1>3. CASE Registry!Restart
  <2>1. modelRows[k] # Registry!NoRow /\ models'[k].opinion = modelRows[k]
    BY <1>3 DEF Registry!Restart, Registry!Unknown
  <2> QED
    BY <2>1 DEF RegistryInv, SavesAreTrue
<1>4. ASSUME NEW c \in Callers, Registry!Record(c) \/ Registry!Sweep(c) PROVE FALSE
  <2>1. \A k1 \in Registry!Keys : models[k1] \in [known : BOOLEAN, online : BOOLEAN, opinion : Registry!Opinions]
    BY <1>1
  <2>2. CASE \E k1 : models' = [models EXCEPT ![k1].known = TRUE, ![k1].online = TRUE]
    <3>1. PICK k1 : models' = [models EXCEPT ![k1].known = TRUE, ![k1].online = TRUE]
      BY <2>2
    <3>2. k1 # k => models'[k] = models[k]
      BY <1>1, <3>1
    <3>3. k1 = k => models'[k].opinion = models[k].opinion
      BY <1>1, <2>1, <3>1
    <3> QED
      BY <3>2, <3>3
  <2>3. CASE \E k1 : models' = [models EXCEPT ![k1].online = FALSE]
    <3>1. PICK k1 : models' = [models EXCEPT ![k1].online = FALSE]
      BY <2>3
    <3>2. k1 # k => models'[k] = models[k]
      BY <1>1, <3>1
    <3>3. k1 = k => models'[k].opinion = models[k].opinion
      BY <1>1, <2>1, <3>1
    <3> QED
      BY <3>2, <3>3
  <2> QED
    BY <1>4, <2>2, <2>3 DEF Registry!Record, Registry!Sweep
<1>5. \/ UNCHANGED models \/ Registry!Restart
      \/ \E c \in Callers : \/ \E k1 \in Registry!Keys, o \in Registry!Opinions : Registry!Correct(c, k1, o)
                            \/ Registry!Record(c) \/ Registry!Sweep(c)
  BY DEF Registry!Next, registryVars, Registry!Connect, Registry!Disconnect, Registry!SweepEnds,
     Registry!SweepRaises, Registry!Commit, Registry!CommitFails
<1> QED
  BY <1>2, <1>3, <1>4, <1>5

\* THEOREM: a model that can answer is held and never banned, the ceiling of a day is kept to
\* the calls in flight, a repair is tried a bounded number of times and never takes the last
\* model away (core/model_router.py, core/cost.py, core/recovery.py); the models on offer are
\* those their machines reported, and what the owner said of one changes by the owner alone
\* (model_registry.py) - for every number of providers, calls, machines, models and saves.
THEOREM ModelsAreServed == Spec => ModelsServe
<1>1. Init => ModelsInv /\ RegistryInv
  BY ModelsInit, RegistryStarts DEF Init
<1>2. ModelsInv /\ [Next]_allVars => ModelsInv'
  BY OnePartSteps, RouterStep, AttemptsStep DEF ModelsInv
<1>3. RegistryInv /\ [Next]_allVars => RegistryInv'
  BY OnePartSteps, RegistryStep
<1>4. ModelsInv =>
        (part = "models" => Recovery!HeldNotBanned /\ Recovery!CapBinds /\ Recovery!AttemptsAreBounded)
  BY ModelsInvSays
<1>5. RegistryInv =>
        (part = "registry" => Registry!OnlineMeansReported /\ Registry!CorrectionIsKept)
  BY RegistryInvSays
<1>6. ModelsInv => Recovery!ParkingSpares
  BY ParkingSparesHere DEF ModelsInv
<1> DEFINE Owned == \A k \in Registry!Keys :
             (models[k].known /\ models'[k].known /\ models'[k].opinion # models[k].opinion)
               => \/ \E c \in Callers : jobs'[c].op = "correct" /\ jobs'[c].put[1] = k
                  \/ k \in loose \/ Registry!puts(k) # {}
<1>7. RegistryInv /\ [Next]_allVars => [Owned]_registryVars
  BY OnePartSteps, OpinionSteps
<1>8. Registry!vars = registryVars
  BY DEF Registry!vars, registryVars
<1>9. Registry!OnlyTheOwnerCorrects <=> [][Owned]_registryVars
  BY <1>8 DEF Registry!OnlyTheOwnerCorrects, registryVars, Registry!vars
<1>10. Spec => [](ModelsInv /\ RegistryInv)
  BY <1>1, <1>2, <1>3, PTL DEF Spec, allVars
<1>11. ModelsInv => [Recovery!ParkingSpares]_modelVars
  BY <1>6
<1>12. Spec => [][Owned]_registryVars
  BY <1>7, <1>10, PTL DEF Spec, allVars
<1>13. Spec => [][Recovery!ParkingSpares]_modelVars
  BY <1>10, <1>11, PTL
<1> QED
  BY <1>4, <1>5, <1>9, <1>10, <1>12, <1>13, PTL DEF ModelsServe

-------------------------------------------------------------------------------
(* The types, where they are bounds.                                         *)

\* The calls a provider has been asked for and has not answered.
Asking(n) == {c \in Calls : calls[c].at = "asked" /\ calls[c].name = n}

\* A provider that failed beyond the trip was asked before it was held: every failure counted
\* after that ends one of the calls still with it.  The rule-based one is not held at all.
FailsInv ==
  /\ \A n \in Recovery!Names : fails[n] + Cardinality(Asking(n)) <= Trip + Cardinality(Calls)
  /\ fails[Recovery!Local] <= Trip

RepairTypes ==
  /\ attempts \in [Components -> [count : 0..(MaxAttempts + 1), idle : 0..(Quiet + 1)]]
  /\ presses \in [Presses -> {"none", "health", "verify"}]

\* There are no more calls with a provider than calls.
LEMMA AskingCounts ==
  ASSUME NEW n
  PROVE  /\ IsFiniteSet(Asking(n)) /\ Cardinality(Asking(n)) \in Nat
         /\ Cardinality(Asking(n)) <= Cardinality(Calls) /\ Cardinality(Calls) \in Nat
         /\ IsFiniteSet(Asking(n)') /\ Cardinality(Asking(n)') \in Nat
         /\ Cardinality(Asking(n)') <= Cardinality(Calls)
<1>1. IsFiniteSet(Calls) /\ Asking(n) \subseteq Calls /\ Asking(n)' \subseteq Calls
  BY ModelsAssumption DEF Asking
<1> QED
  BY <1>1, FS_Subset, FS_CardinalityType

\* What a step may do to a provider's failures: leave them within the trip, count none, or count
\* one for a call that is with it no longer.
LEMMA FewEnough ==
  ASSUME RouterTypes, RouterTypes', FailsInv, NEW n \in Recovery!Names,
         \/ fails'[n] <= Trip
         \/ fails'[n] <= fails[n] /\ Asking(n)' \subseteq Asking(n)
         \/ \E c \in Asking(n) : fails'[n] = fails[n] + 1 /\ Asking(n)' = Asking(n) \ {c}
  PROVE  fails'[n] + Cardinality(Asking(n)') <= Trip + Cardinality(Calls)
<1> DEFINE was == Cardinality(Asking(n))
           now == Cardinality(Asking(n)')
           all == Cardinality(Calls)
<1>1. was \in Nat /\ now \in Nat /\ all \in Nat /\ now <= all
  BY AskingCounts
<1>2. fails[n] \in Nat /\ fails'[n] \in Nat /\ Trip \in Nat /\ fails[n] + was <= Trip + all
  BY ModelsAssumption DEF RouterTypes, Sane, Recovery!breaker, FailsInv
<1>3. CASE fails'[n] <= Trip
  <2> HIDE DEF was, now, all
  <2>1. fails'[n] + now <= Trip + all
    BY <1>1, <1>2, <1>3
  <2> QED
    BY <2>1 DEF now, all
<1>4. CASE fails'[n] <= fails[n] /\ Asking(n)' \subseteq Asking(n)
  <2>1. now <= was
    BY <1>4, AskingCounts, FS_Subset
  <2> HIDE DEF was, now, all
  <2>2. fails'[n] + now <= Trip + all
    BY <1>1, <1>2, <1>4, <2>1
  <2> QED
    BY <2>2 DEF now, all
<1>5. ASSUME NEW c \in Asking(n), fails'[n] = fails[n] + 1, Asking(n)' = Asking(n) \ {c}
      PROVE  fails'[n] + now <= Trip + all
  <2>1. now = was - 1
    BY <1>5, AskingCounts, FS_RemoveElement
  <2> HIDE DEF was, now, all
  <2> QED
    BY <1>1, <1>2, <1>5, <2>1
<1> QED
  BY <1>3, <1>4, <1>5

\* Who is asked was found free, or is the rule-based one, which is never held.
LEMMA AskedIsFree ==
  ASSUME RouterTypes, FailsInv, NEW tier \in Tiers, NEW secret \in BOOLEAN,
         Recovery!choosable(Recovery!breaker, Recovery!wanted(tier, secret))
  PROVE  LET t0 == Recovery!wanted(tier, secret)
             o == Recovery!half_open(Recovery!breaker, Recovery!asked(t0))
             n == providers[Recovery!withinCap(Recovery!resolved(t0))]
         IN  n \in Recovery!Names /\ o.fails[n] <= Trip
<1> DEFINE b == Recovery!breaker
           t0 == Recovery!wanted(tier, secret)
           o == Recovery!half_open(b, Recovery!asked(t0))
           t1 == Recovery!resolved(t0)
           t == Recovery!withinCap(t1)
<1>1. Sane(b) /\ b.fails = fails
  BY DEF RouterTypes, Recovery!breaker
<1>2. t0 \in Tiers /\ "LOCAL" \in Tiers /\ Trip \in Nat
  BY ModelsAssumption DEF Recovery!wanted
<1>3. \A u \in Tiers : providers[u] \in Recovery!Names
  BY WiringsAre DEF RouterTypes
<1> HIDE DEF t0, b
<1>4. \A u \in Tiers : providers[u] \in Recovery!asked(t0) /\ ~Recovery!parked(b, providers[u])
         => o.fails[providers[u]] <= Trip
  <2> SUFFICES ASSUME NEW u \in Tiers, providers[u] \in Recovery!asked(t0),
                      ~Recovery!parked(b, providers[u])
               PROVE  o.fails[providers[u]] <= Trip
    OBVIOUS
  <2>1. providers[u] \in Recovery!Names
    BY <1>3
  <2>2. o.fails[providers[u]] < Trip
    BY <1>1, <2>1, HalfOpenFails
  <2>3. Sane(o)
    BY <1>1, HalfOpenIsSane
  <2>4. o.fails[providers[u]] \in Nat
    BY <2>1, <2>3 DEF Sane
  <2> HIDE DEF o
  <2> QED
    BY <1>2, <2>2, <2>4
<1>5. CASE ~Recovery!resolvable(b, t0)
  <2>1. t1 = "LOCAL" /\ Recovery!asked(t0) = {providers[t0], providers["LOCAL"]}
    BY <1>5 DEF Recovery!resolved, Recovery!asked, b
  <2>2. t = "LOCAL"
    BY <2>1 DEF Recovery!withinCap
  <2>3. Recovery!resolvable(b, "LOCAL")
    BY <1>5 DEF Recovery!choosable, b, t0
  <2> HIDE DEF o, t
  <2>4. o.fails[providers[t]] <= Trip
    BY <1>2, <1>4, <2>1, <2>2, <2>3 DEF Recovery!resolvable
  <2> QED
    BY <1>2, <1>3, <2>2, <2>4 DEF o, t, b, t0
<1>6. CASE Recovery!resolvable(b, t0)
  <2>1. t1 = t0 /\ Recovery!asked(t0) = {providers[t0]}
    BY <1>6 DEF Recovery!resolved, Recovery!asked, b
  <2>2. o.fails[providers[t0]] <= Trip
    <3> HIDE DEF o
    <3> QED
      BY <1>2, <1>4, <1>6, <2>1 DEF Recovery!resolvable
  <2>3. t = t0 \/ t = "LOCAL"
    BY <2>1 DEF Recovery!withinCap
  <2>4. CASE providers["LOCAL"] = Recovery!Local
    <3>1. o.fails[Recovery!Local] <= fails[Recovery!Local] /\ fails[Recovery!Local] <= Trip
      BY <1>1, HalfOpenFails DEF Recovery!Names, FailsInv
    <3>2. Sane(o)
      BY <1>1, HalfOpenIsSane
    <3>3. o.fails[Recovery!Local] \in Nat /\ fails[Recovery!Local] \in Nat
      BY <1>1, <3>2 DEF Sane, Recovery!Names
    <3> HIDE DEF o
    <3>4. o.fails[Recovery!Local] <= Trip
      BY <1>2, <3>1, <3>3
    <3> HIDE DEF t
    <3>5. o.fails[providers[t]] <= Trip /\ t \in Tiers
      BY <1>2, <2>2, <2>3, <2>4, <3>4
    <3> QED
      BY <1>3, <3>5 DEF o, t, b, t0
  <2>5. CASE providers["LOCAL"] # Recovery!Local
    <3>1. providers = [u \in Tiers |-> "ollama"]
      BY <1>2, <2>5 DEF RouterTypes, Recovery!Wirings
    <3>2. providers["LOCAL"] = providers[t0]
      BY <1>2, <3>1
    <3> HIDE DEF o, t
    <3>3. o.fails[providers[t]] <= Trip /\ t \in Tiers
      BY <1>2, <2>2, <2>3, <3>2
    <3> QED
      BY <1>3, <3>3 DEF o, t, b, t0
  <2> QED
    BY <2>4, <2>5
<1> QED
  BY <1>5, <1>6

\* Asking a provider.
LEMMA AskCounts ==
  ASSUME RouterInv, RouterInv', FailsInv, NEW c \in Calls, NEW tier \in Tiers, NEW secret \in BOOLEAN,
         Recovery!Ask(c, tier, secret)
  PROVE  FailsInv'
<1> DEFINE t0 == Recovery!wanted(tier, secret)
           o == Recovery!half_open(Recovery!breaker, Recovery!asked(t0))
           p == providers[Recovery!withinCap(Recovery!resolved(t0))]
           new == [at |-> "asked", name |-> p, secret |-> secret]
<1>1. /\ calls[c].at = "none" /\ calls' = [calls EXCEPT ![c] = new]
      /\ fails' = o.fails /\ Recovery!choosable(Recovery!breaker, t0)
  BY DEF Recovery!Ask, Recovery!Breaker
<1>2. RouterTypes /\ RouterTypes'
  BY DEF RouterInv
<1>3. p \in Recovery!Names /\ o.fails[p] <= Trip
  BY <1>1, <1>2, AskedIsFree
<1>4. ASSUME NEW n \in Recovery!Names PROVE o.fails[n] <= fails[n]
  BY <1>2, HalfOpenFails DEF RouterTypes, Recovery!breaker
<1>5. new.at = "asked" /\ new.name = p
  OBVIOUS
<1> HIDE DEF p, o, t0, new
<1>6. ASSUME NEW n \in Recovery!Names PROVE fails'[n] + Cardinality(Asking(n)') <= Trip + Cardinality(Calls)
  <2>1. CASE n = p
    BY <1>1, <1>2, <1>3, <2>1, FewEnough
  <2>2. CASE n # p
    <3>1. Asking(n)' \subseteq Asking(n)
      BY <1>1, <1>2, <1>5, <2>2 DEF Asking, RouterTypes
    <3> QED
      BY <1>1, <1>2, <1>4, <3>1, FewEnough
  <2> QED
    BY <2>1, <2>2
<1>7. fails'[Recovery!Local] <= Trip
  <2>1. Recovery!Local \in Recovery!Names /\ Trip \in Nat
    BY ModelsAssumption DEF Recovery!Names
  <2>2. fails[Recovery!Local] \in Nat /\ fails'[Recovery!Local] \in Nat
    BY <1>2, <2>1 DEF RouterTypes, Sane, Recovery!breaker
  <2> QED
    BY <1>1, <1>4, <2>1, <2>2 DEF FailsInv
<1> QED
  BY <1>6, <1>7 DEF FailsInv

\* Its answer, or its failure.
LEMMA EndCounts ==
  ASSUME RouterInv, RouterInv', FailsInv, NEW c \in Calls, NEW on \in BOOLEAN,
         Recovery!Answers(c, on) \/ Recovery!Fails(c) \/ Recovery!PruneFails(c)
  PROVE  FailsInv'
<1> DEFINE n == calls[c].name
           cleared == [fails |-> [fails EXCEPT ![n] = 0], held |-> [held EXCEPT ![n] = Recovery!NotHeld]]
<1>1. RouterTypes /\ RouterTypes' /\ Trip \in Nat \ {0}
  BY ModelsAssumption DEF RouterInv
<1>2. /\ n \in Recovery!Names /\ Recovery!Local \in Recovery!Names
      /\ fails \in [Recovery!Names -> Nat] /\ fails' \in [Recovery!Names -> Nat]
  BY <1>1 DEF RouterTypes, Sane, Recovery!breaker, Recovery!Names
<1>3. ASSUME NEW new, new.at # "asked", calls' = [calls EXCEPT ![c] = new], NEW m
      PROVE  Asking(m)' = Asking(m) \ {c}
  BY <1>1, <1>3 DEF Asking, RouterTypes
<1>4. \A m : Asking(m)' = Asking(m) \ {c}
  <2> DEFINE none == Recovery!NoCall
             home == [calls[c] EXCEPT !.at = "fallback", !.name = providers["LOCAL"]]
             new == IF providers["LOCAL"] = calls[c].name THEN none ELSE home
  <2>1. none.at # "asked"
    BY DEF Recovery!NoCall
  <2>2. home.at # "asked"
    BY <1>1 DEF RouterTypes
  <2> HIDE DEF none, home
  <2>3. CASE Recovery!Done(c)
    <3>1. calls' = [calls EXCEPT ![c] = none]
      BY <2>3 DEF Recovery!Done, none
    <3> QED
      BY <1>3, <2>1, <3>1
  <2>4. CASE Recovery!Falls(c)
    <3>1. calls' = [calls EXCEPT ![c] = new]
      BY <2>4 DEF Recovery!Falls, none, home
    <3>2. new.at # "asked"
      BY <2>1, <2>2
    <3> HIDE DEF new
    <3> QED
      BY <1>3, <3>1, <3>2
  <2> QED
    BY <2>3, <2>4 DEF Recovery!Answers, Recovery!Fails, Recovery!PruneFails
<1>5. CASE UNCHANGED fails
  <2>1. ASSUME NEW m \in Recovery!Names
        PROVE fails'[m] + Cardinality(Asking(m)') <= Trip + Cardinality(Calls)
    <3>1. fails'[m] <= fails[m]
      BY <1>2, <1>5
    <3>2. Asking(m)' \subseteq Asking(m)
      BY <1>4
    <3> QED
      BY <1>1, <3>1, <3>2, FewEnough
  <2> QED
    BY <1>5, <2>1 DEF FailsInv
<1>6. CASE \E k \in 0..Trip : fails' = [fails EXCEPT ![n] = k]
  <2>1. PICK k \in 0..Trip : fails' = [fails EXCEPT ![n] = k]
    BY <1>6
  <2>2. ASSUME NEW m \in Recovery!Names
        PROVE fails'[m] + Cardinality(Asking(m)') <= Trip + Cardinality(Calls)
    <3>1. fails'[m] <= Trip \/ fails'[m] <= fails[m]
      BY <1>1, <1>2, <2>1
    <3>2. Asking(m)' \subseteq Asking(m)
      BY <1>4
    <3> QED
      BY <1>1, <3>1, <3>2, FewEnough
  <2>3. fails'[Recovery!Local] <= Trip
    BY <1>1, <1>2, <2>1 DEF FailsInv
  <2> QED
    BY <2>2, <2>3 DEF FailsInv
<1>7. CASE calls[c].at = "asked" /\ n # Recovery!Local /\ fails' = [fails EXCEPT ![n] = fails[n] + 1]
  <2>1. c \in Asking(n)
    BY <1>7 DEF Asking
  <2>2. ASSUME NEW m \in Recovery!Names
        PROVE fails'[m] + Cardinality(Asking(m)') <= Trip + Cardinality(Calls)
    <3>1. CASE m = n
      <4>1. fails'[m] = fails[m] + 1
        BY <1>2, <1>7, <3>1
      <4>2. \E d \in Asking(m) : fails'[m] = fails[m] + 1 /\ Asking(m)' = Asking(m) \ {d}
        <5> HIDE DEF n
        <5> QED
          BY <1>4, <2>1, <3>1, <4>1
      <4> QED
        BY <1>1, <4>2, FewEnough
    <3>2. CASE m # n
      <4>1. fails'[m] <= fails[m]
        BY <1>2, <1>7, <3>2
      <4>2. Asking(m)' \subseteq Asking(m)
        BY <1>4
      <4> QED
        BY <1>1, <4>1, <4>2, FewEnough
    <3> QED
      BY <3>1, <3>2
  <2>3. fails'[Recovery!Local] <= Trip
    BY <1>2, <1>7 DEF FailsInv
  <2> QED
    BY <2>2, <2>3 DEF FailsInv
<1>8. CASE Recovery!Answers(c, on)
  <2>1. UNCHANGED fails \/ fails' = [fails EXCEPT ![n] = 0]
    BY <1>8 DEF Recovery!Answers, Recovery!Breaker
  <2> QED
    BY <1>1, <1>5, <1>6, <2>1
<1>9. CASE Recovery!Fails(c)
  <2>1. calls[c].at = "asked" /\ n # Recovery!Local /\ fails' = [fails EXCEPT ![n] = fails[n] + 1]
    BY <1>2, <1>9 DEF Recovery!Fails, Recovery!Breaker, Recovery!trip, Recovery!breaker, Recovery!MayFail
  <2> QED
    BY <1>7, <2>1
<1>10. CASE Recovery!PruneFails(c)
  <2>1. fails' = Recovery!trip(cleared, n).fails
    BY <1>10 DEF Recovery!PruneFails, Recovery!Breaker
  <2>2. Recovery!trip(cleared, n).fails = [cleared.fails EXCEPT ![n] = cleared.fails[n] + 1]
    <3> HIDE DEF cleared
    <3> QED
      BY DEF Recovery!trip
  <2>3. cleared.fails = [fails EXCEPT ![n] = 0]
    OBVIOUS
  <2>4. [cleared.fails EXCEPT ![n] = cleared.fails[n] + 1] = [fails EXCEPT ![n] = 1]
    BY <1>2, <2>3
  <2>5. fails' = [fails EXCEPT ![n] = 1] /\ 1 \in 0..Trip
    BY <1>1, <2>1, <2>2, <2>4
  <2> QED
    BY <1>6, <2>5
<1> QED
  BY <1>8, <1>9, <1>10

\* Looking at the breaker, parking in it, waiting and starting anew.
LEMMA RestCounts ==
  ASSUME RouterInv, RouterInv', FailsInv,
         \/ UNCHANGED <<calls, fails>>
         \/ /\ UNCHANGED calls
            /\ \A n \in Recovery!Names : fails'[n] <= fails[n] \/ fails'[n] <= Trip
         \/ Recovery!Restart
  PROVE  FailsInv'
<1>1. RouterTypes /\ RouterTypes' /\ Trip \in Nat \ {0}
  BY ModelsAssumption DEF RouterInv
<1>2. /\ Recovery!Local \in Recovery!Names
      /\ fails \in [Recovery!Names -> Nat] /\ fails' \in [Recovery!Names -> Nat]
  BY <1>1 DEF RouterTypes, Sane, Recovery!breaker, Recovery!Names
<1>3. ASSUME NEW n \in Recovery!Names
      PROVE  /\ fails'[n] <= Trip \/ (fails'[n] <= fails[n] /\ Asking(n)' \subseteq Asking(n))
             /\ fails'[n] <= fails[n] \/ fails'[n] <= Trip
  <2>1. CASE UNCHANGED <<calls, fails>>
    BY <1>2, <2>1 DEF Asking
  <2>2. CASE UNCHANGED calls /\ \A m \in Recovery!Names : fails'[m] <= fails[m] \/ fails'[m] <= Trip
    BY <2>2 DEF Asking
  <2>3. CASE Recovery!Restart
    <3>1. fails'[n] = 0
      BY <2>3 DEF Recovery!Restart, Recovery!Breaker, Recovery!Shut
    <3> QED
      BY <1>1, <3>1
  <2> QED
    BY <2>1, <2>2, <2>3
<1>4. ASSUME NEW n \in Recovery!Names
      PROVE  fails'[n] + Cardinality(Asking(n)') <= Trip + Cardinality(Calls)
  BY <1>1, <1>3, FewEnough
<1>5. fails'[Recovery!Local] <= Trip
  BY <1>1, <1>2, <1>3 DEF FailsInv
<1> QED
  BY <1>4, <1>5 DEF FailsInv

\* What is counted of the failures holds on, whatever is asked, answered and repaired.
LEMMA FailsStep == RouterInv /\ RouterInv' /\ FailsInv /\ [Recovery!RecoveryNext]_modelVars => FailsInv'
<1> SUFFICES ASSUME RouterInv, RouterInv', FailsInv, [Recovery!RecoveryNext]_modelVars PROVE FailsInv'
  OBVIOUS
<1>0. Sane(Recovery!breaker) /\ Recovery!breaker.fails = fails /\ providers \in Recovery!Wirings
  BY DEF RouterInv, RouterTypes, Recovery!breaker
<1>1. CASE UNCHANGED modelVars
  BY <1>1, RestCounts DEF modelVars
<1>2. ASSUME NEW p \in Presses, NEW k \in Components, Recovery!Press(p, k) PROVE FailsInv'
  BY <1>2, RestCounts DEF Recovery!Press, Recovery!routerVars
<1>3. ASSUME NEW p \in Presses, NEW S \in SUBSET Recovery!Names, Recovery!Parks(p, S) PROVE FailsInv'
  <2>1. PICK list \in Recovery!SetToSeqs(S) :
           Recovery!Breaker(Recovery!parkedAll(Recovery!breaker, list))
    BY <1>3 DEF Recovery!Parks
  <2>2. Len(list) \in Nat /\ \A i \in 1..Len(list) : list[i] \in Recovery!Names
    BY OrdersAre
  <2> DEFINE d == Recovery!parkedAll(Recovery!breaker, list)
  <2>3. Milder(d, Recovery!breaker)
    BY <1>0, <2>2, AllParkedSparesOne
  <2>4. UNCHANGED calls /\ fails' = d.fails
    BY <1>3, <2>1 DEF Recovery!Parks, Recovery!Breaker
  <2> HIDE DEF d
  <2> QED
    BY <1>0, <2>3, <2>4, RestCounts DEF Milder
<1>4. ASSUME NEW p \in Presses, NEW healthy \in SUBSET Recovery!Names, Recovery!Verified(p, healthy)
      PROVE  FailsInv'
  <2> DEFINE o == Recovery!half_open(Recovery!breaker, Recovery!asked("FAST"))
  <2>1. UNCHANGED calls /\ (UNCHANGED fails \/ fails' = o.fails)
    BY <1>4 DEF Recovery!Verified, Recovery!Breaker
  <2>2. \A n \in Recovery!Names : o.fails[n] <= fails[n]
    BY <1>0, HalfOpenFails
  <2> HIDE DEF o
  <2> QED
    BY <2>1, <2>2, RestCounts
<1>5. CASE Recovery!Wait \/ Recovery!NewDay
  BY <1>5, RestCounts DEF Recovery!Wait, Recovery!Tick, Recovery!NewDay
<1>6. CASE Recovery!ProcessRestarts
  BY <1>6, RestCounts DEF Recovery!ProcessRestarts
<1>7. ASSUME NEW tier \in Tiers, NEW secret \in BOOLEAN, NEW c \in Calls, Recovery!Ask(c, tier, secret)
      PROVE  FailsInv'
  BY <1>7, AskCounts
<1>8. ASSUME NEW c \in Calls, NEW on \in BOOLEAN,
             Recovery!Answers(c, on) \/ Recovery!Fails(c) \/ Recovery!PruneFails(c)
      PROVE  FailsInv'
  BY <1>8, EndCounts
<1> QED
  BY <1>1, <1>2, <1>3, <1>4, <1>5, <1>6, <1>7, <1>8 DEF Recovery!RecoveryNext

\* The repairs are counted up to one more than are made, and rested up to one more than it takes.
LEMMA RepairsStep == RepairTypes /\ [Recovery!RecoveryNext]_modelVars => RepairTypes'
<1> SUFFICES ASSUME RepairTypes, [Recovery!RecoveryNext]_modelVars PROVE RepairTypes'
  OBVIOUS
<1> DEFINE Try == [count : 0..(MaxAttempts + 1), idle : 0..(Quiet + 1)]
<1>0. /\ MaxAttempts \in Nat /\ Quiet \in Nat
      /\ attempts \in [Components -> Try] /\ presses \in [Presses -> {"none", "health", "verify"}]
  BY ModelsAssumption DEF RepairTypes
<1>1. CASE UNCHANGED <<attempts, presses>>
  BY <1>1 DEF RepairTypes
<1>2. ASSUME NEW p \in Presses, NEW n \in Components, Recovery!Press(p, n) PROVE RepairTypes'
  <2> DEFINE more == attempts[n].count + 1
             count_ == Recovery!Min({more, MaxAttempts + 1})
             new == [count |-> count_, idle |-> 0]
  <2>1. attempts' = [attempts EXCEPT ![n] = new] /\ presses' = [presses EXCEPT ![p] = "health"]
    BY <1>0, <1>2 DEF Recovery!Press
  <2>2. more \in Nat /\ MaxAttempts + 1 \in Nat
    BY <1>0
  <2> HIDE DEF more
  <2>3. count_ = IF more <= MaxAttempts + 1 THEN more ELSE MaxAttempts + 1
    BY <2>2, MinOfTwo
  <2> HIDE DEF count_
  <2>4. new \in Try
    BY <1>0, <2>2, <2>3
  <2> HIDE DEF new
  <2> QED
    BY <1>0, <2>1, <2>4 DEF RepairTypes
<1>3. CASE Recovery!Wait
  <2> DEFINE later(k) == Recovery!Min({attempts[k].idle + 1, Quiet + 1})
             new(k) == [attempts[k] EXCEPT !.idle = later(k)]
  <2>1. attempts' = [k \in Components |-> new(k)] /\ presses' = presses
    BY <1>3 DEF Recovery!Wait
  <2>2. \A k \in Components : later(k) \in 0..(Quiet + 1)
    <3> SUFFICES ASSUME NEW k \in Components PROVE later(k) \in 0..(Quiet + 1)
      OBVIOUS
    <3> DEFINE more == attempts[k].idle + 1
    <3>1. more \in Nat /\ Quiet + 1 \in Nat
      BY <1>0
    <3> HIDE DEF more
    <3>2. Recovery!Min({more, Quiet + 1}) = IF more <= Quiet + 1 THEN more ELSE Quiet + 1
      BY <3>1, MinOfTwo
    <3>3. Recovery!Min({more, Quiet + 1}) \in 0..(Quiet + 1)
      BY <3>1, <3>2
    <3> QED
      BY <3>3 DEF more
  <2> HIDE DEF later
  <2>3. \A k \in Components : new(k) \in Try
    BY <1>0, <2>2
  <2> HIDE DEF new
  <2> QED
    BY <1>0, <2>1, <2>3 DEF RepairTypes
<1>4. CASE Recovery!ProcessRestarts
  <2>1. Recovery!None \in Try
    BY <1>0 DEF Recovery!None
  <2>2. attempts' = [k \in Components |-> Recovery!None] /\ presses' = [p \in Presses |-> "none"]
    BY <1>4 DEF Recovery!ProcessRestarts
  <2> QED
    BY <2>1, <2>2 DEF RepairTypes
<1>5. ASSUME NEW p \in Presses, NEW S \in SUBSET Recovery!Names,
             Recovery!Parks(p, S) \/ Recovery!Verified(p, S)
      PROVE  RepairTypes'
  <2>1. UNCHANGED attempts
    BY <1>5 DEF Recovery!Parks, Recovery!Verified
  <2>2. \E now \in {"none", "verify"} : presses' = [presses EXCEPT ![p] = now]
    BY <1>5 DEF Recovery!Parks, Recovery!Verified
  <2> QED
    BY <1>0, <2>1, <2>2 DEF RepairTypes
<1> QED
  BY <1>1, <1>2, <1>3, <1>4, <1>5 DEF Recovery!RecoveryNext, Recovery!recoveryVars, modelVars

\* They are counted from nothing.
LEMMA RepairsStart == Recovery!RecoveryInit => FailsInv /\ RepairTypes
<1> SUFFICES ASSUME Recovery!RecoveryInit PROVE FailsInv /\ RepairTypes
  OBVIOUS
<1>1. /\ fails = [n \in Recovery!Names |-> 0] /\ calls = [c \in Calls |-> Recovery!NoCall]
      /\ attempts = [k \in Components |-> Recovery!None] /\ presses = [p \in Presses |-> "none"]
  BY DEF Recovery!RecoveryInit, Recovery!Init, Recovery!Shut
<1>2. Trip \in Nat /\ MaxAttempts \in Nat /\ Quiet \in Nat
  BY ModelsAssumption
<1>3. ASSUME NEW n \in Recovery!Names
      PROVE  fails[n] + Cardinality(Asking(n)) <= Trip + Cardinality(Calls)
  <2> DEFINE now == Cardinality(Asking(n))
             all == Cardinality(Calls)
  <2>1. now \in Nat /\ all \in Nat /\ now <= all /\ fails[n] = 0
    BY <1>1, AskingCounts
  <2> HIDE DEF now, all
  <2>2. fails[n] + now <= Trip + all
    BY <1>2, <2>1
  <2> QED
    BY <2>2 DEF now, all
<1>4. fails[Recovery!Local] <= Trip
  BY <1>1, <1>2 DEF Recovery!Names
<1>5. RepairTypes
  BY <1>1, <1>2 DEF RepairTypes, Recovery!None
<1> QED
  BY <1>3, <1>4, <1>5 DEF FailsInv

\* With the breaker's own invariant, these are the types of the router and the repairs.
LEMMA ModelsAreTyped == ModelsInv /\ FailsInv /\ RepairTypes => Recovery!RecoveryTypeOK
<1> SUFFICES ASSUME ModelsInv, FailsInv, RepairTypes PROVE Recovery!RecoveryTypeOK
  OBVIOUS
<1>1. /\ providers \in Recovery!Wirings /\ Sane(Recovery!breaker)
      /\ calls \in [Calls -> [at : {"none", "asked", "fallback"}, name : Recovery!Names,
                              secret : BOOLEAN]]
      /\ spent \in Nat /\ stored \in Nat /\ stored <= spent
      /\ streak \in [Components -> Nat]
  BY DEF ModelsInv, RouterInv, RouterTypes, AttemptsInv
<1>2. /\ fails \in [Recovery!Names -> Nat] /\ held \in [Recovery!Names -> 0..Recovery!NotHeld]
  BY <1>1 DEF Sane, Recovery!breaker
<1>3. fails \in [Recovery!Names -> 0..(Trip + Cardinality(Calls))]
  <2>1. ASSUME NEW n \in Recovery!Names PROVE fails[n] \in 0..(Trip + Cardinality(Calls))
    <3> DEFINE now == Cardinality(Asking(n))
               all == Cardinality(Calls)
    <3>1. now \in Nat /\ all \in Nat /\ fails[n] \in Nat /\ Trip \in Nat /\ fails[n] + now <= Trip + all
      BY <1>2, AskingCounts, ModelsAssumption DEF FailsInv
    <3> HIDE DEF now, all
    <3>2. fails[n] \in 0..(Trip + all)
      BY <3>1
    <3> QED
      BY <3>2 DEF all
  <2> QED
    BY <1>2, <2>1
<1>4. Recovery!Cardinality(Calls) = Cardinality(Calls)
  BY DEF Recovery!Cardinality, Cardinality
<1>5. stored \in 0..spent
  BY <1>1
<1> QED
  BY <1>1, <1>2, <1>3, <1>4, <1>5 DEF Recovery!RecoveryTypeOK, Recovery!TypeOK, RepairTypes

\* A chain that holds no more entries than there were made, and none but those.
Short(c, n) == Len(c) <= n /\ \A i \in 1..Len(c) : c[i] \in 1..n

\* No chain is longer than what was recorded, also when one was taken back from a backup, and
\* what an entry was put on came before it.
TrailBounds ==
  /\ Len(prev) <= MaxEntries
  /\ \A e \in 1..Len(prev) : beneath[e] \subseteq 1..(e - 1) /\ prev[e] \in 0..Len(prev)
  /\ Short(trail, Len(prev))
  /\ \A a \in {writing, archive} : a = Audit!NoArchive \/ Short(a, Len(prev))

\* An ascending chain of entries is not longer than they are many.
LEMMA AscendingIsShort ==
  ASSUME NEW c \in Seq(Nat), NEW n \in Nat, Ascending(c), \A i \in 1..Len(c) : c[i] \in 1..n
  PROVE  Short(c, n)
<1> DEFINE l == Len(c)
<1>1. l \in Nat /\ DOMAIN c = 1..l /\ c = [i \in 1..l |-> c[i]]
  BY LenProperties
<1>2. c \in [1..l -> 1..n]
  BY <1>1
<1>3. \A i, j \in 1..l : i # j => c[i] # c[j]
  <2> SUFFICES ASSUME NEW i \in 1..l, NEW j \in 1..l, i # j PROVE c[i] # c[j]
    OBVIOUS
  <2>1. c[i] \in Nat /\ c[j] \in Nat /\ (i < j \/ j < i)
    BY <1>1, <1>2
  <2> QED
    BY <1>1, <2>1 DEF Ascending
<1>4. /\ IsFiniteSet(1..l) /\ Cardinality(1..l) = l
      /\ IsFiniteSet(1..n) /\ Cardinality(1..n) = n
  <2>1. 1 \in Int /\ l \in Int /\ n \in Int
    BY <1>1
  <2>2. /\ IsFiniteSet(1..l) /\ Cardinality(1..l) = IF 1 > l THEN 0 ELSE l - 1 + 1
        /\ IsFiniteSet(1..n) /\ Cardinality(1..n) = IF 1 > n THEN 0 ELSE n - 1 + 1
    BY <2>1, FS_Interval
  <2> HIDE DEF l
  <2> QED
    BY <1>1, <2>2
<1> HIDE DEF l
<1>5. ~(n < l)
  BY <1>2, <1>3, <1>4, FS_PigeonHole
<1>6. l <= n
  BY <1>1, <1>5
<1> QED
  BY <1>6 DEF Short, l

\* A chain that is short enough for what was made stays so.
LEMMA ShortStays ==
  ASSUME NEW c, NEW n \in Nat, Len(c) \in Nat, Short(c, n)
  PROVE  Short(c, n + 1)
  BY DEF Short

\* An entry more: every part of the trail may grow by one, and none by more.
LEMMA BoundsRecord ==
  ASSUME TrailInv, TrailBounds, Audit!Record PROVE TrailBounds'
<1> DEFINE n == Len(prev)
           e == n + 1
           p == Audit!chainedTo
           b == Audit!ToSet(trail)
           l == Len(trail)
<1>1. /\ e \in 1..MaxEntries /\ prev' = Append(prev, p) /\ beneath' = Append(beneath, b)
      /\ trail' = Append(trail, e) /\ writing' = writing /\ archive' = archive
  BY DEF Audit!Record, Audit!Entries
<1>2. /\ trail \in Seq(Nat) /\ prev \in Seq(Nat) /\ beneath \in Seq(SUBSET Nat)
      /\ n \in Nat /\ l \in Nat /\ Len(beneath) = n /\ MaxEntries \in Nat
      /\ Len(writing) \in Nat /\ Len(archive) \in Nat /\ DOMAIN trail = 1..l
  BY TrailShapes, BoundsAssumption DEF TrailInv, TrailTypes
<1>3. b = {trail[i] : i \in 1..l} /\ (p = IF l = 0 THEN 0 ELSE trail[l])
  BY <1>2 DEF Audit!ToSet, Audit!chainedTo, Audit!Last, Audit!Genesis
<1>4. /\ Len(prev) <= MaxEntries /\ l <= n /\ \A i \in 1..l : trail[i] \in 1..n
      /\ \A x \in 1..n : beneath[x] \subseteq 1..(x - 1) /\ prev[x] \in 0..n
      /\ \A a \in {writing, archive} : a = Audit!NoArchive \/ Short(a, n)
  BY DEF TrailBounds, Short
<1> HIDE DEF p, b, l, n
<1>5. b \subseteq 1..n /\ b \in SUBSET Nat /\ p \in 0..n /\ p \in Nat
  <2>1. b \subseteq 1..n /\ b \in SUBSET Nat
    BY <1>2, <1>3, <1>4
  <2>2. p \in 0..n
    BY <1>2, <1>3, <1>4
  <2> QED
    BY <1>2, <2>1, <2>2
<1>6. /\ Len(prev') = n + 1 /\ prev'[n + 1] = p /\ \A x \in 1..n : prev'[x] = prev[x]
      /\ beneath'[n + 1] = b /\ \A x \in 1..n : beneath'[x] = beneath[x]
      /\ Len(trail') = l + 1 /\ trail'[l + 1] = n + 1 /\ \A i \in 1..l : trail'[i] = trail[i]
  <2>1. Len(prev') = n + 1 /\ prev'[n + 1] = p /\ \A x \in 1..n : prev'[x] = prev[x]
    BY <1>1, <1>2, <1>5, AppendProperties DEF n
  <2>2. beneath'[n + 1] = b /\ \A x \in 1..n : beneath'[x] = beneath[x]
    <3> DEFINE more == Append(beneath, b)
    <3>1. Len(beneath) = n /\ more[Len(beneath) + 1] = b /\ \A x \in 1..Len(beneath) : more[x] = beneath[x]
      BY <1>2, <1>5, AppendProperties
    <3>2. beneath' = more
      BY <1>1
    <3> HIDE DEF more
    <3> QED
      BY <3>1, <3>2
  <2>3. Len(trail') = l + 1 /\ trail'[l + 1] = n + 1 /\ \A i \in 1..l : trail'[i] = trail[i]
    <3>1. e \in Nat
      BY <1>2
    <3> QED
      BY <1>1, <1>2, <3>1, AppendProperties DEF l
  <2> QED
    BY <2>1, <2>2, <2>3
<1>7. Len(prev') <= MaxEntries
  BY <1>1, <1>2, <1>6
<1>8. \A x \in 1..(n + 1) : beneath'[x] \subseteq 1..(x - 1) /\ prev'[x] \in 0..(n + 1)
  <2> SUFFICES ASSUME NEW x \in 1..(n + 1)
               PROVE  beneath'[x] \subseteq 1..(x - 1) /\ prev'[x] \in 0..(n + 1)
    OBVIOUS
  <2>1. x = n + 1 \/ x \in 1..n
    BY <1>2
  <2>2. CASE x = n + 1
    <3>1. x - 1 = n /\ prev'[x] = p /\ beneath'[x] = b
      BY <1>2, <1>6, <2>2
    <3>2. p \in 0..(n + 1)
      BY <1>2, <1>5
    <3> QED
      BY <1>5, <3>1, <3>2
  <2>3. CASE x \in 1..n
    <3>1. prev'[x] = prev[x] /\ beneath'[x] = beneath[x] /\ prev[x] \in 0..n
      BY <1>4, <1>6, <2>3
    <3>2. prev[x] \in 0..(n + 1)
      BY <1>2, <3>1
    <3> QED
      BY <1>4, <2>3, <3>1, <3>2
  <2> QED
    BY <2>1, <2>2, <2>3
<1>9. Short(trail', n + 1)
  <2>1. l + 1 <= n + 1 /\ \A i \in 1..(l + 1) : i = l + 1 \/ i \in 1..l
    BY <1>2, <1>4
  <2>2. \A i \in 1..n : i \in 1..(n + 1)
    BY <1>2
  <2>3. n + 1 \in 1..(n + 1)
    BY <1>2
  <2>4. \A i \in 1..(l + 1) : trail'[i] \in 1..(n + 1)
    BY <1>4, <1>6, <2>1, <2>2, <2>3
  <2> QED
    BY <1>6, <2>1, <2>4 DEF Short
<1>10. \A a \in {writing, archive} : a = Audit!NoArchive \/ Short(a, n + 1)
  BY <1>2, <1>4, ShortStays
<1>11. Audit!NoArchive' = Audit!NoArchive
  BY DEF Audit!NoArchive, Audit!Genesis
<1>12. /\ \A x \in 1..Len(prev') : beneath'[x] \subseteq 1..(x - 1) /\ prev'[x] \in 0..Len(prev')
       /\ Short(trail', Len(prev'))
  BY <1>6, <1>8, <1>9
<1>13. \A a \in {writing', archive'} : a = Audit!NoArchive' \/ Short(a, Len(prev'))
  BY <1>1, <1>6, <1>10, <1>11
<1> QED
  BY <1>7, <1>12, <1>13 DEF TrailBounds

\* Nothing in the trail's state is longer than what was recorded, whatever is lost or restored.
LEMMA TrailBoundsStep == TrailInv /\ TrailInv' /\ TrailBounds /\ [Audit!Next]_trailVars => TrailBounds'
<1> SUFFICES ASSUME TrailInv, TrailInv', TrailBounds, [Audit!Next]_trailVars PROVE TrailBounds'
  OBVIOUS
<1>0. Audit!NoArchive' = Audit!NoArchive
  BY DEF Audit!NoArchive, Audit!Genesis
<1>1. CASE Audit!Record
  BY <1>1, BoundsRecord
<1>2. CASE UNCHANGED <<trail, prev, beneath, writing, archive>>
  BY <1>0, <1>2 DEF TrailBounds, Short
<1>3. CASE Audit!BackupBegins
  BY <1>0, <1>3 DEF Audit!BackupBegins, TrailBounds, Short
<1>4. CASE Audit!BackupLands
  BY <1>0, <1>4 DEF Audit!BackupLands, TrailBounds, Short
<1>5. CASE Audit!RestoreBackup
  BY <1>0, <1>5 DEF Audit!RestoreBackup, TrailBounds, Short
<1>6. ASSUME NEW landed \in SUBSET puts, Audit!Restart(landed) PROVE TrailBounds'
  <2>1. /\ trail' \in Audit!restored(table') /\ writing' = Audit!NoArchive
        /\ UNCHANGED <<prev, beneath, archive>>
    BY <1>6 DEF Audit!Restart
  <2>2. trail' \in Seq(Nat) /\ DOMAIN trail' = 1..Len(trail') /\ table' \subseteq 1..Len(prev)
    <3>1. trail' \in Seq(Nat) /\ table' \subseteq 1..Len(prev')
      BY DEF TrailInv, TrailTypes
    <3> QED
      BY <2>1, <3>1, LenProperties
  <2>3. Ascending(trail') /\ \A i \in 1..Len(trail') : trail'[i] \in table'
    BY <2>1, <2>2 DEF Audit!restored, Ascending, Audit!ToSet
  <2>4. Len(prev) \in Nat
    BY TrailShapes DEF TrailInv
  <2>5. Short(trail', Len(prev))
    BY <2>2, <2>3, <2>4, AscendingIsShort
  <2> QED
    BY <1>0, <2>1, <2>5 DEF TrailBounds
<1> QED
  BY <1>1, <1>2, <1>3, <1>4, <1>5, <1>6 DEF Audit!Next, trailVars, Audit!PutReturns

\* At first nothing was recorded.
LEMMA TrailBoundsStart == Audit!Init => TrailBounds
<1> SUFFICES ASSUME Audit!Init PROVE TrailBounds
  OBVIOUS
<1>1. /\ trail = <<>> /\ prev = <<>> /\ writing = Audit!NoArchive /\ archive = Audit!NoArchive
  BY DEF Audit!Init
<1>2. Len(prev) = 0 /\ Len(trail) = 0 /\ MaxEntries \in Nat
  BY <1>1, BoundsAssumption
<1> QED
  BY <1>1, <1>2 DEF TrailBounds, Short

\* With the trail's own invariant, these are its types.
LEMMA TrailIsTyped == TrailInv /\ TrailBounds => Audit!TypeOK
<1> SUFFICES ASSUME TrailInv, TrailBounds PROVE Audit!TypeOK
  OBVIOUS
<1> DEFINE n == Len(prev)
<1>1. /\ n \in Nat /\ n <= MaxEntries /\ MaxEntries \in Nat /\ TrailTypes
      /\ trail \in Seq(Nat) /\ prev \in Seq(Nat) /\ writing \in Seq(Nat) /\ archive \in Seq(Nat)
      /\ DOMAIN prev = 1..n /\ DOMAIN beneath = 1..n
  BY TrailShapes, BoundsAssumption DEF TrailInv, TrailTypes, TrailBounds
<1>2. ASSUME NEW c \in Seq(Nat), Short(c, n) PROVE c \in Audit!Chains
  <2> DEFINE l == Len(c)
  <2>1. l \in Nat /\ c = [i \in 1..l |-> c[i]]
    BY LenProperties
  <2>2. l <= n /\ \A i \in 1..l : c[i] \in 1..n
    BY <1>2 DEF Short
  <2> HIDE DEF l, n
  <2>3. l \in 0..MaxEntries /\ c \in [1..l -> 1..MaxEntries]
    BY <1>1, <2>1, <2>2
  <2> QED
    BY <2>3 DEF Audit!Chains, Audit!BoundedSeq, Audit!SeqOf, Audit!Entries
<1>3. prev \in Audit!BoundedSeq(0..MaxEntries, MaxEntries)
  <2>1. prev = [i \in 1..n |-> prev[i]] /\ \A e \in 1..n : prev[e] \in 0..n
    BY <1>1, LenProperties DEF TrailBounds
  <2> HIDE DEF n
  <2>2. n \in 0..MaxEntries /\ prev \in [1..n -> 0..MaxEntries]
    BY <1>1, <2>1
  <2> QED
    BY <2>2 DEF Audit!BoundedSeq, Audit!SeqOf
<1>4. trail \in Audit!Chains /\ {writing, archive} \subseteq Audit!Chains \cup {Audit!NoArchive}
  BY <1>1, <1>2 DEF TrailBounds
<1>5. /\ {puts, table, acked} \subseteq SUBSET DOMAIN prev /\ {lost, replaced} \subseteq BOOLEAN
      /\ altered \subseteq Revealing
  BY <1>1 DEF TrailTypes
<1> QED
  BY <1>1, <1>3, <1>4, <1>5 DEF Audit!TypeOK, TrailBounds

TradingBounds ==
  /\ bar \in 0..MaxBars /\ runs \in 0..MaxRuns /\ halted \in BOOLEAN
  /\ position # Trading!None => position.quantity > 0

\* Bars and runs are counted up to their bounds, and nothing is opened at no size.
LEMMA TradingBoundsStep == TradingInv /\ TradingBounds /\ [Trading!Next]_tradingVars => TradingBounds'
<1> SUFFICES ASSUME TradingInv, TradingBounds, [Trading!Next]_tradingVars PROVE TradingBounds'
  OBVIOUS
<1>0. /\ MaxBars \in Nat /\ MaxRuns \in Nat /\ bar \in 0..MaxBars /\ runs \in 0..MaxRuns
      /\ halted \in BOOLEAN /\ (position # Trading!None => position.quantity > 0)
  BY CoreAssumption, BoundsAssumption DEF TradingBounds
<1>1. CASE Trading!StartRun
  <2>1. bar' = 0 /\ runs < MaxRuns /\ runs' = runs + 1 /\ halted' = halted /\ position' = Trading!None
    BY <1>1 DEF Trading!StartRun
  <2> QED
    BY <1>0, <2>1 DEF TradingBounds
<1>2. CASE Trading!Resume
  BY <1>0, <1>2 DEF Trading!Resume, TradingBounds
<1>3. ASSUME NEW b \in Trading!Bars, NEW newDay \in BOOLEAN,
             NEW s \in Trading!Signals \cup {Trading!None}, Trading!Walk(b, newDay, s)
      PROVE  TradingBounds'
  <2> DEFINE rest == IF Trading!stopped(b) THEN Trading!None ELSE position
             standing == Trading!filled(b, rest)
  <2>1. /\ bar < MaxBars /\ bar' = bar + 1 /\ runs' = runs
        /\ position' = (IF bar + 1 = MaxBars THEN Trading!None ELSE standing)
    BY <1>3 DEF Trading!Walk
  <2>2. halted' \in BOOLEAN
    <3>1. \E more : halted' = (halted \/ Trading!breached(more))
      BY <1>3 DEF Trading!Walk
    <3> QED
      BY <3>1
  <2>3. standing # Trading!None => standing.quantity > 0
    <3>1. rest # Trading!None => rest.quantity > 0
      BY <1>0
    <3> HIDE DEF rest
    <3>2. CASE standing = rest
      BY <3>1, <3>2
    <3>3. CASE standing # rest
      <4>1. Trading!sizes(pending) /\ standing.quantity = Trading!quantity(pending)
        BY <3>3 DEF Trading!filled
      <4> QED
        BY <4>1 DEF Trading!sizes
    <3> QED
      BY <3>2, <3>3
  <2> HIDE DEF standing
  <2> QED
    BY <1>0, <2>1, <2>2, <2>3 DEF TradingBounds
<1>4. CASE UNCHANGED tradingVars
  BY <1>0, <1>4 DEF tradingVars, TradingBounds
<1> QED
  BY <1>1, <1>2, <1>3, <1>4 DEF Trading!Next

\* So the trading's state is well typed, from the first.
LEMMA TradingIsTyped ==
  /\ Trading!Init => TradingBounds
  /\ TradingInv /\ TradingBounds => Trading!TypeOK
<1>1. MaxBars \in Nat /\ MaxRuns \in Nat
  BY CoreAssumption, BoundsAssumption
<1>2. ASSUME Trading!Init PROVE TradingBounds
  <2>1. bar = 0 /\ runs = 0 /\ position = Trading!None /\ halted = FALSE
    BY <1>2 DEF Trading!Init
  <2>2. bar \in 0..MaxBars /\ runs \in 0..MaxRuns
    BY <1>1, <2>1
  <2>3. halted \in BOOLEAN /\ (position # Trading!None => position.quantity > 0)
    BY <2>1
  <2> QED
    BY <2>2, <2>3 DEF TradingBounds
<1>3. TradingInv /\ TradingBounds => Trading!TypeOK
  BY DEF TradingInv, TradingTypes, TradingBounds, Trading!TypeOK
<1> QED
  BY <1>2, <1>3

\* A skill has no more versions than the registry may hold, and what is tested is one of them.
SkillBounds ==
  /\ DOMAIN skills \subseteq SkillNames
  /\ \A s \in DOMAIN skills : Len(skills[s].versions) <= MaxVersions
  /\ sandbox \subseteq SkillNames \X (1..MaxVersions)

\* While there is room for a version, each skill has fewer than the registry may hold.
LEMMA RoomIsLeft ==
  ASSUME SkillInv, SkillBounds, Skills!room
  PROVE  /\ MaxVersions \in Nat \ {0}
         /\ \A s \in DOMAIN skills : Len(skills[s].versions) < MaxVersions
<1> DEFINE all == Skills!versions
<1>1. MaxVersions \in Nat /\ IsFiniteSet(SkillNames)
  BY BoundsAssumption
<1>2. IsFiniteSet(all) /\ Cardinality(all) \in Nat
  <2>1. IsFiniteSet(1..MaxVersions)
    BY <1>1, FS_Interval
  <2>2. IsFiniteSet(SkillNames \X (1..MaxVersions))
    BY <1>1, <2>1, FS_Product
  <2>3. all \subseteq SkillNames \X (1..MaxVersions)
    BY DEF Skills!versions
  <2> QED
    BY <2>2, <2>3, FS_Subset, FS_CardinalityType
<1>3. Cardinality(all) < MaxVersions
  BY DEF Skills!room, Skills!Cardinality, Cardinality
<1>4. ASSUME NEW s \in DOMAIN skills PROVE Len(skills[s].versions) < MaxVersions
  <2> DEFINE l == Len(skills[s].versions)
             mine == {s} \X (1..l)
  <2>1. skills[s] \in SkillRecord /\ s \in SkillNames /\ l <= MaxVersions
    BY DEF SkillInv, SkillBounds
  <2>2. l \in Nat /\ DOMAIN skills[s].versions = 1..l
    BY <2>1 DEF SkillRecord
  <2> HIDE DEF l
  <2>3. mine \subseteq all
    <3>1. \A v \in 1..l : <<s, v>> \in all
      <4> SUFFICES ASSUME NEW v \in 1..l PROVE <<s, v>> \in all
        OBVIOUS
      <4>1. v \in 1..MaxVersions
        BY <1>1, <2>1, <2>2
      <4> QED
        BY <2>1, <2>2, <4>1 DEF Skills!versions
    <3> QED
      BY <3>1
  <2>4. Cardinality(mine) = l
    <3>1. IsFiniteSet({s}) /\ Cardinality({s}) = 1
      BY FS_Singleton
    <3>2. IsFiniteSet(1..l) /\ Cardinality(1..l) = IF 1 > l THEN 0 ELSE l - 1 + 1
      BY <2>2, FS_Interval
    <3>3. Cardinality(1..l) = l
      BY <2>2, <3>2
    <3>4. Cardinality(mine) = Cardinality({s}) * Cardinality(1..l)
      BY <3>1, <3>2, FS_Product
    <3> QED
      BY <2>2, <3>1, <3>3, <3>4
  <2>5. Cardinality(mine) <= Cardinality(all)
    BY <1>2, <2>3, FS_Subset
  <2> HIDE DEF mine, all
  <2>6. l < MaxVersions
    BY <1>1, <1>2, <1>3, <2>2, <2>4, <2>5
  <2> QED
    BY <2>6 DEF l
<1>5. MaxVersions # 0
  <2> HIDE DEF all
  <2> QED
    BY <1>1, <1>2, <1>3
<1> QED
  BY <1>1, <1>4, <1>5

\* A skill that becomes another one keeps the bounds while it has few enough versions.
LEMMA SkillStaysFew ==
  ASSUME SkillBounds, NEW s \in DOMAIN skills, NEW skill, Len(skill.versions) <= MaxVersions,
         skills' = [skills EXCEPT ![s] = skill], sandbox' \subseteq sandbox
  PROVE  SkillBounds'
  BY DEF SkillBounds

\* A version is added only while there is room, so no skill has more of them than the bound.
LEMMA SkillBoundsStep == SkillInv /\ SkillBounds /\ [Skills!Next]_skillVars => SkillBounds'
<1> SUFFICES ASSUME SkillInv, SkillBounds, [Skills!Next]_skillVars PROVE SkillBounds'
  OBVIOUS
<1>0. ASSUME NEW s \in DOMAIN skills
      PROVE  /\ skills[s] \in SkillRecord /\ skills[s].versions \in Seq(Skills!Version)
             /\ Len(skills[s].versions) \in Nat /\ Len(skills[s].versions) <= MaxVersions
             /\ DOMAIN skills[s].versions = 1..Len(skills[s].versions) /\ s \in SkillNames
             /\ \A n : Skills!target(s, n) \in 1..MaxVersions
  <2>1. skills[s] \in SkillRecord /\ Earned(skills[s])
    BY DEF SkillInv
  <2>2. /\ skills[s].versions \in Seq(Skills!Version) /\ skills[s].current \in DOMAIN skills[s].versions
        /\ Len(skills[s].versions) <= MaxVersions /\ s \in SkillNames
    BY <2>1 DEF SkillRecord, SkillBounds, Earned
  <2>3. /\ Len(skills[s].versions) \in Nat
        /\ DOMAIN skills[s].versions = 1..Len(skills[s].versions)
    BY <2>2, LenProperties
  <2> DEFINE l == Len(skills[s].versions)
  <2>4. \A n : Skills!target(s, n) \in 1..l
    BY <2>2, <2>3 DEF Skills!target
  <2> HIDE DEF l
  <2>5. 1..l \subseteq 1..MaxVersions
    BY <2>2, <2>3, BoundsAssumption DEF l
  <2> QED
    BY <2>1, <2>2, <2>3, <2>4, <2>5 DEF l
<1>1. ASSUME NEW s \in SkillNames, NEW risky, Skills!room,
             skills' = Skills!Added(s, Skills!captured(risky)), UNCHANGED sandbox
      PROVE  SkillBounds'
  <2> DEFINE draft == Skills!captured(risky)
  <2>1. Len(draft.versions) = 1
    BY DEF Skills!captured
  <2>2. skills' = [t \in DOMAIN skills \cup {s} |-> IF t = s THEN draft ELSE skills[t]]
    BY <1>1 DEF Skills!Added
  <2>3. 1 <= MaxVersions
    BY <1>1, RoomIsLeft
  <2> HIDE DEF draft
  <2> QED
    BY <1>1, <2>1, <2>2, <2>3 DEF SkillBounds
<1>2. ASSUME NEW s \in SkillNames, NEW risky \in BOOLEAN, Skills!Capture(s, risky) PROVE SkillBounds'
  BY <1>1, <1>2 DEF Skills!Capture
<1>3. ASSUME NEW s \in SkillNames, NEW p, NEW q, Skills!Compose(s, <<p, q>>) PROVE SkillBounds'
  <2> DEFINE risky == \E i \in DOMAIN <<p, q>> : Skills!currentOf(<<p, q>>[i]).risky
  <2>1. Skills!room /\ skills' = Skills!Added(s, Skills!captured(risky)) /\ UNCHANGED sandbox
    BY <1>3 DEF Skills!Compose
  <2> HIDE DEF risky
  <2> QED
    BY <1>1, <2>1
<1>4. ASSUME NEW s \in DOMAIN skills, NEW risky \in BOOLEAN, Skills!AddVersion(s, risky)
      PROVE  SkillBounds'
  <2> DEFINE v == [risky |-> risky, approved |-> FALSE]
             more == Append(skills[s].versions, v)
             skill == [skills[s] EXCEPT !.versions = more, !.status = "DRAFT", !.proven = FALSE,
                                        !.shelved = FALSE]
  <2>1. Skills!room /\ skills' = [skills EXCEPT ![s] = skill] /\ sandbox' = sandbox
    BY <1>4 DEF Skills!AddVersion, Skills!Became
  <2>2. Len(more) = Len(skills[s].versions) + 1
    BY <1>0, AppendProperties DEF Skills!Version
  <2> HIDE DEF more
  <2>3. skill.versions = more
    BY <1>0 DEF SkillRecord
  <2> HIDE DEF skill
  <2>4. Len(skill.versions) <= MaxVersions
    BY <1>0, <2>1, <2>2, <2>3, RoomIsLeft
  <2> QED
    BY <2>1, <2>4, SkillStaysFew
<1>5. ASSUME NEW s \in DOMAIN skills, NEW n, Skills!TestBegins(s, n) PROVE SkillBounds'
  BY <1>0, <1>5 DEF Skills!TestBegins, SkillBounds
<1>6. ASSUME NEW t \in sandbox, NEW ok \in BOOLEAN, Skills!TestEnds(t, ok) PROVE SkillBounds'
  <2> DEFINE s == t[1]
             skill == [skills[s] EXCEPT !.status = "TESTING", !.proven = TRUE]
  <2>1. s \in DOMAIN skills /\ sandbox' \subseteq sandbox
    BY <1>6 DEF SkillInv, Skills!TestEnds
  <2>2. skills' = skills \/ skills' = [skills EXCEPT ![s] = skill]
    BY <1>6 DEF Skills!TestEnds, Skills!Became
  <2> HIDE DEF s
  <2>3. skill.versions = skills[s].versions
    BY <1>0, <2>1 DEF SkillRecord
  <2> HIDE DEF skill
  <2>4. CASE skills' = skills
    BY <2>1, <2>4 DEF SkillBounds
  <2>5. CASE skills' = [skills EXCEPT ![s] = skill]
    BY <1>0, <2>1, <2>3, <2>5, SkillStaysFew
  <2> QED
    BY <2>2, <2>4, <2>5
<1>7. ASSUME NEW s \in DOMAIN skills, NEW n, Skills!Approve(s, n) PROVE SkillBounds'
  <2> DEFINE k == Skills!target(s, n)
             was == skills[s].versions
             reviewed == [was EXCEPT ![k] = [was[k] EXCEPT !.approved = TRUE]]
             skill == [skills[s] EXCEPT !.versions = reviewed]
  <2>1. skills' = [skills EXCEPT ![s] = skill] /\ sandbox' = sandbox
    BY <1>7 DEF Skills!Approve, Skills!Became
  <2>2. Len(reviewed) = Len(was)
    <3>1. was \in Seq(Skills!Version)
      BY <1>0
    <3> HIDE DEF was, k
    <3> QED
      BY <3>1
  <2> HIDE DEF reviewed
  <2>3. skill.versions = reviewed
    BY <1>0 DEF SkillRecord
  <2> HIDE DEF skill
  <2> QED
    BY <1>0, <2>1, <2>2, <2>3, SkillStaysFew
<1>8. ASSUME NEW s \in DOMAIN skills, NEW n, Skills!Activate(s, n) PROVE SkillBounds'
  <2> DEFINE skill == [skills[s] EXCEPT !.status = "ACTIVE", !.current = Skills!target(s, n),
                                        !.rolled = FALSE]
  <2>1. skills' = [skills EXCEPT ![s] = skill] /\ sandbox' = sandbox
    BY <1>8 DEF Skills!Activate, Skills!Became
  <2>2. skill.versions = skills[s].versions
    BY <1>0 DEF SkillRecord
  <2> HIDE DEF skill
  <2> QED
    BY <1>0, <2>1, <2>2, SkillStaysFew
<1>9. ASSUME NEW s \in DOMAIN skills, NEW n, Skills!Rollback(s, n) PROVE SkillBounds'
  <2> DEFINE skill == [skills[s] EXCEPT !.current = n, !.rolled = TRUE]
  <2>1. skills' = [skills EXCEPT ![s] = skill] /\ sandbox' = sandbox
    BY <1>9 DEF Skills!Rollback, Skills!Became
  <2>2. skill.versions = skills[s].versions
    BY <1>0 DEF SkillRecord
  <2> HIDE DEF skill
  <2> QED
    BY <1>0, <2>1, <2>2, SkillStaysFew
<1>10. ASSUME NEW s \in DOMAIN skills, Skills!Deprecate(s) PROVE SkillBounds'
  <2> DEFINE skill == [skills[s] EXCEPT !.status = "DEPRECATED", !.shelved = TRUE]
  <2>1. skills' = [skills EXCEPT ![s] = skill] /\ sandbox' = sandbox
    BY <1>10 DEF Skills!Deprecate, Skills!Became
  <2>2. skill.versions = skills[s].versions
    BY <1>0 DEF SkillRecord
  <2> HIDE DEF skill
  <2> QED
    BY <1>0, <2>1, <2>2, SkillStaysFew
<1>11. CASE UNCHANGED skillVars
  BY <1>11 DEF skillVars, SkillBounds
<1> QED
  BY <1>2, <1>3, <1>4, <1>5, <1>6, <1>7, <1>8, <1>9, <1>10, <1>11 DEF Skills!Next

\* So the skills' state is well typed, from the first.
LEMMA SkillsAreTyped ==
  /\ Skills!Init => SkillBounds
  /\ SkillInv /\ SkillBounds => Skills!TypeOK
<1>1. Skills!Init => SkillBounds
  BY DEF Skills!Init, SkillBounds
<1>2. ASSUME SkillInv, SkillBounds PROVE Skills!TypeOK
  <2>1. ASSUME NEW s \in DOMAIN skills
        PROVE  skills[s] \in Skills!Skill /\ skills[s].current \in DOMAIN skills[s].versions
    <3>1. /\ skills[s] \in SkillRecord /\ skills[s].current \in DOMAIN skills[s].versions
          /\ Len(skills[s].versions) <= MaxVersions
      BY <1>2 DEF SkillInv, SkillBounds, Earned
    <3>2. skills[s].versions \in Seq(Skills!Version)
      BY <3>1 DEF SkillRecord
    <3>3. /\ Len(skills[s].versions) \in Nat
          /\ DOMAIN skills[s].versions = 1..Len(skills[s].versions)
      BY <3>2, LenProperties
    <3>4. skills[s].current \in 1..MaxVersions
      <4> DEFINE l == Len(skills[s].versions)
                 c == skills[s].current
      <4>1. c \in 1..l /\ l \in Nat /\ l <= MaxVersions /\ MaxVersions \in Nat
        BY <3>1, <3>3, BoundsAssumption
      <4> HIDE DEF l, c
      <4>2. c \in 1..MaxVersions
        BY <4>1
      <4> QED
        BY <4>2 DEF c
    <3> QED
      BY <3>1, <3>4 DEF SkillRecord, Skills!Skill
  <2> QED
    BY <1>2, <2>1 DEF Skills!TypeOK, SkillBounds
<1> QED
  BY <1>1, <1>2

\* Nothing holds or held more than the work that was done, and every layout is one of those known.
Worked(s) == \A p \in Backup!PartSet : s[p].of <= MaxWork
BackupBounds ==
  /\ worked <= MaxWork /\ damages \in 0..MaxDamages /\ Worked(live)
  /\ \A f \in Backup!Files : Worked(taken[f]) /\ files[f].format <= 2

\* A file is written or suffers: it keeps a known layout, and what was held when it was written.
LEMMA FileStaysKnown ==
  ASSUME BackupInv, BackupBounds, NEW f \in Backup!Files, NEW a, a.format <= 2, NEW was, Worked(was),
         files' = [files EXCEPT ![f] = a], taken' = [taken EXCEPT ![f] = was],
         worked' <= MaxWork, damages' \in 0..MaxDamages, Worked(live')
  PROVE  BackupBounds'
<1>1. files \in [Backup!Files -> Archives] /\ taken \in [Backup!Files -> Held]
  BY DEF BackupInv, BackupTypes
<1>2. \A g \in Backup!Files : /\ files'[g] = IF g = f THEN a ELSE files[g]
                              /\ taken'[g] = IF g = f THEN was ELSE taken[g]
  BY <1>1
<1>3. \A g \in Backup!Files : Worked(taken'[g]) /\ files'[g].format <= 2
  BY <1>2 DEF BackupBounds
<1> QED
  BY <1>3 DEF BackupBounds, Worked

\* What is written, damaged, updated or restored was held at some time, and all of it was worked.
LEMMA BackupBoundsStep == BackupInv /\ BackupBounds /\ [Backup!Next]_backupVars => BackupBounds'
<1> SUFFICES ASSUME BackupInv, BackupBounds, [Backup!Next]_backupVars PROVE BackupBounds'
  OBVIOUS
<1>0. /\ files \in [Backup!Files -> Archives] /\ taken \in [Backup!Files -> Held] /\ live \in Held
      /\ worked \in Nat /\ worked <= MaxWork /\ damages \in 0..MaxDamages /\ Worked(live)
      /\ \A f \in Backup!Files : Worked(taken[f]) /\ files[f].format <= 2
      /\ MaxWork \in Nat /\ MaxDamages \in Nat
  BY CoreAssumption, BoundsAssumption DEF BackupInv, BackupTypes, BackupBounds
<1>1. Backup!written.format = 1
  BY DEF Backup!written
<1>2. ASSUME NEW p \in Backup!PartSet, Backup!Work(p) PROVE BackupBounds'
  <2>1. PICK secret \in BOOLEAN :
          /\ worked < MaxWork /\ worked' = worked + 1
          /\ live' = [live EXCEPT ![p] = [of |-> worked + 1, secret |-> secret]]
          /\ UNCHANGED <<damages, files, taken>>
    BY <1>2 DEF Backup!Work
  <2>2. worked' <= MaxWork
    BY <1>0, <2>1
  <2>3. \A q \in Backup!PartSet : live'[q].of <= MaxWork
    BY <1>0, <2>1, <2>2 DEF Held, Worked
  <2> QED
    BY <1>0, <2>1, <2>2, <2>3 DEF BackupBounds, Worked
<1>3. ASSUME NEW f \in Backup!Files, Backup!Create(f) PROVE BackupBounds'
  <2> DEFINE a == Backup!written
  <2>1. /\ files' = [files EXCEPT ![f] = a] /\ taken' = [taken EXCEPT ![f] = live]
        /\ UNCHANGED <<live, worked, damages>>
    BY <1>3 DEF Backup!Create
  <2>2. a.format <= 2
    BY <1>1
  <2> HIDE DEF a
  <2> QED
    BY <1>0, <2>1, <2>2, FileStaysKnown
<1>4. ASSUME NEW f \in Backup!Files, NEW a, a.format <= 2, files' = [files EXCEPT ![f] = a],
             UNCHANGED <<taken, live, worked>>, damages' \in 0..MaxDamages
      PROVE  BackupBounds'
  <2>1. taken' = [taken EXCEPT ![f] = taken[f]]
    BY <1>0, <1>4
  <2> QED
    BY <1>0, <1>4, <2>1, FileStaysKnown
<1>5. ASSUME NEW f \in Backup!Files, Backup!Brought(f) PROVE BackupBounds'
  <2>1. PICK without \in BOOLEAN :
          LET left_ == IF without THEN Backup!PartSet \ {Parts[Len(Parts)]} ELSE Backup!PartSet IN
          files' = [files EXCEPT ![f] = [format |-> IF without THEN 1 ELSE 2,
                                         data |-> [p \in left_ |-> Backup!NoRows],
                                           sums |-> [p \in left_ |-> Backup!NoRows]]]
    BY <1>5 DEF Backup!Brought
  <2> DEFINE S == IF without THEN Backup!PartSet \ {Parts[Len(Parts)]} ELSE Backup!PartSet
             rows_ == [p \in S |-> Backup!NoRows]
             a == [format |-> IF without THEN 1 ELSE 2, data |-> rows_, sums |-> rows_]
  <2>2. files' = [files EXCEPT ![f] = a]
    BY <2>1
  <2>3. a.format <= 2
    OBVIOUS
  <2>4. UNCHANGED <<taken, live, worked, damages>>
    BY <1>5 DEF Backup!Brought
  <2> HIDE DEF a
  <2> QED
    BY <1>0, <1>4, <2>2, <2>3, <2>4
<1>6. ASSUME NEW f \in Backup!Files, Backup!Damaged(f) PROVE BackupBounds'
  <2> DEFINE old == files[f]
  <2>1. old \in Archives /\ old.format <= 2
    BY <1>0
  <2>2. PICK p \in DOMAIN old.data :
          \/ files' = [files EXCEPT ![f].data[p] = Backup!Garbled]
          \/ files' = [files EXCEPT ![f].data = [q \in DOMAIN @ \ {p} |-> @[q]]]
          \/ files' = [files EXCEPT ![f].sums = [q \in DOMAIN @ \ {p} |-> @[q]]]
    BY <1>6 DEF Backup!Damaged
  <2>3. \E d : files' = [files EXCEPT ![f] = [old EXCEPT !.data = d]]
               \/ files' = [files EXCEPT ![f] = [old EXCEPT !.sums = d]]
    BY <1>0, <2>2
  <2>4. PICK d : files' = [files EXCEPT ![f] = [old EXCEPT !.data = d]]
                 \/ files' = [files EXCEPT ![f] = [old EXCEPT !.sums = d]]
    BY <2>3
  <2>5. damages' \in 0..MaxDamages /\ UNCHANGED <<taken, live, worked>>
    BY <1>0, <1>6 DEF Backup!Damaged
  <2> DEFINE a == [old EXCEPT !.data = d]
             b == [old EXCEPT !.sums = d]
  <2>6. a.format <= 2 /\ b.format <= 2
    <3> HIDE DEF old
    <3> QED
      BY <2>1 DEF Archives
  <2>7. files' = [files EXCEPT ![f] = a] \/ files' = [files EXCEPT ![f] = b]
    BY <2>4
  <2> HIDE DEF a, b
  <2> QED
    BY <1>4, <2>5, <2>6, <2>7
<1>7. ASSUME NEW f \in Backup!Files, Backup!Restore(f) \/ Backup!RestoreRaises(f) PROVE BackupBounds'
  <2>1. PICK i : live' = Backup!restored(files[f], i) /\ ~Backup!problems(files[f])
    BY <1>7 DEF Backup!Restore, Backup!RestoreRaises
  <2>2. UNCHANGED <<worked, damages, files, taken>>
    BY <1>7 DEF Backup!Restore, Backup!RestoreRaises
  <2>3. \A p \in Backup!PartSet : files[f].data[p].of = taken[f][p].of
    BY <2>1, ProblemsAreSeen, RedactedIsClean DEF BackupInv, BackupTypes
  <2>4. \A p \in Backup!PartSet : live'[p].of <= MaxWork
    BY <1>0, <2>1, <2>3 DEF Backup!restored, Worked
  <2> QED
    BY <1>0, <2>2, <2>4 DEF BackupBounds, Worked
<1>8. CASE Backup!Install \/ Backup!InstallFails
  <2>1. PICK r \in Backup!offered :
          /\ files' = [files EXCEPT ![Backup!preUpdate(r.version)] = Backup!written]
          /\ taken' = [taken EXCEPT ![Backup!preUpdate(r.version)] = live]
    BY <1>8 DEF Backup!Install, Backup!InstallFails, Backup!Applies
  <2>2. UNCHANGED <<live, worked, damages>>
    BY <1>8 DEF Backup!Install, Backup!InstallFails, Backup!Applies
  <2>3. Backup!preUpdate(r.version) \in Backup!Files
    BY DEF Backup!offered, Backup!Releases, Backup!Files
  <2> DEFINE a == Backup!written
  <2>4. a.format <= 2
    BY <1>1
  <2>5. files' = [files EXCEPT ![Backup!preUpdate(r.version)] = a]
    BY <2>1
  <2> HIDE DEF a
  <2> QED
    BY <1>0, <2>1, <2>2, <2>3, <2>4, <2>5, FileStaysKnown
<1>9. CASE Backup!BackupFails
  BY <1>0, <1>9 DEF Backup!BackupFails, BackupBounds, Worked
<1>10. CASE UNCHANGED backupVars
  BY <1>0, <1>10 DEF backupVars, BackupBounds, Worked
<1>11. \A n \in ArchiveNames : <<"backup", n>> \in Backup!Files
  BY DEF Backup!Files
<1> QED
  BY <1>2, <1>3, <1>5, <1>6, <1>7, <1>8, <1>9, <1>10, <1>11 DEF Backup!Next

\* So the backups' state is well typed, from the first.
LEMMA BackupIsTyped ==
  /\ Backup!Init => BackupBounds
  /\ BackupInv /\ BackupBounds => Backup!TypeOK
<1>0. MaxWork \in Nat /\ MaxDamages \in Nat
  BY CoreAssumption, BoundsAssumption
<1>1. ASSUME Backup!Init PROVE BackupBounds
  <2>1. /\ live = [p \in Backup!PartSet |-> Backup!NoRows] /\ worked = 0 /\ damages = 0
        /\ files = [f \in Backup!Files |-> Backup!NoArchive] /\ taken = [f \in Backup!Files |-> live]
    BY <1>1 DEF Backup!Init
  <2>2. Backup!NoArchive.format = 0
    BY DEF Backup!NoArchive
  <2>3. \A f \in Backup!Files : taken[f] = live /\ files[f].format = 0
    BY <2>1, <2>2
  <2>4. Worked(live)
    BY <1>0, <2>1 DEF Worked, Backup!NoRows
  <2> QED
    BY <1>0, <2>1, <2>3, <2>4 DEF BackupBounds
<1>2. ASSUME BackupInv, BackupBounds PROVE Backup!TypeOK
  <2>1. /\ live \in Held /\ worked \in Nat /\ files \in [Backup!Files -> Archives] /\ current \in Versions
        /\ worked <= MaxWork /\ damages \in 0..MaxDamages /\ \A p \in Backup!PartSet : live[p].of <= MaxWork
        /\ \A f \in Backup!Files : files[f].format <= 2
    BY <1>2 DEF BackupInv, BackupTypes, BackupBounds, Worked
  <2>2. live \in [Backup!PartSet -> Backup!Rows]
    <3>1. live \in [Backup!PartSet -> Content] /\ \A p \in Backup!PartSet : live[p].of \in 0..MaxWork
      BY <1>0, <2>1 DEF Held, Content
    <3>2. \A p \in Backup!PartSet : live[p] \in Backup!Rows
      BY <3>1 DEF Content, Backup!Rows
    <3> QED
      BY <3>1, <3>2
  <2>3. ASSUME NEW f \in Backup!Files
        PROVE  files[f].format \in 0..2 /\ DOMAIN files[f].data \subseteq Backup!PartSet
    <3>1. files[f].format \in Nat /\ files[f].data \in Sheets
      BY <2>1 DEF Archives
    <3>2. PICK S \in SUBSET Backup!PartSet : files[f].data \in [S -> Content]
      BY <3>1 DEF Sheets
    <3>3. DOMAIN files[f].data \subseteq Backup!PartSet
      BY <3>2
    <3>4. files[f].format \in 0..2
      BY <2>1, <3>1
    <3> QED
      BY <3>3, <3>4
  <2> QED
    BY <1>0, <2>1, <2>2, <2>3 DEF Backup!TypeOK
<1> QED
  BY <1>1, <1>2

\* The dictionary lists only what is known.
OrderIsKnown == \A i \in 1..Len(order) : models[order[i]].known

\* A model that is recorded, corrected or taken offline stays known.
LEMMA KnownStays ==
  ASSUME RegistryTypes, NEW k \in Registry!Keys, NEW c \in Callers,
         \/ \E o \in Registry!Opinions : models' = [models EXCEPT ![k].opinion = o]
         \/ models' = [models EXCEPT ![k].online = FALSE]
         \/ models' = [models EXCEPT ![k].known = TRUE, ![k].online = TRUE]
  PROVE  \A k1 \in Registry!Keys : models[k1].known => models'[k1].known
<1>1. models \in [Registry!Keys -> [known : BOOLEAN, online : BOOLEAN, opinion : Registry!Opinions]]
  BY DEF RegistryTypes
<1>2. \A k1 \in Registry!Keys : k1 # k => models'[k1] = models[k1]
  BY <1>1
<1>3. models[k] \in [known : BOOLEAN, online : BOOLEAN, opinion : Registry!Opinions]
  BY <1>1
<1>4. models[k].known => models'[k].known
  BY <1>1, <1>3
<1> QED
  BY <1>2, <1>4

\* The dictionary is as it was, or has a model more that is known now, or was read from the
\* table.
LEMMA OrderStep ==
  RegistryInv /\ OrderIsKnown /\ [Registry!Next]_registryVars => OrderIsKnown'
<1> SUFFICES ASSUME RegistryInv, OrderIsKnown, [Registry!Next]_registryVars PROVE OrderIsKnown'
  OBVIOUS
<1>1. /\ RegistryTypes /\ order \in Seq(Registry!Keys) /\ Len(order) \in Nat
      /\ \A i \in 1..Len(order) : order[i] \in Registry!Keys
      /\ jobs \in [Callers -> JobRecs]
  BY LenProperties, ElementOfSeq DEF RegistryInv, RegistryTypes, JobsAreSound
<1>2. ASSUME order' = order, \A k \in Registry!Keys : models[k].known => models'[k].known
      PROVE  OrderIsKnown'
  BY <1>1, <1>2 DEF OrderIsKnown
<1>3. CASE \E c \in Callers, k \in Registry!Keys, o \in Registry!Opinions : Registry!Correct(c, k, o)
  <2>1. PICK c \in Callers, k \in Registry!Keys, o \in Registry!Opinions : Registry!Correct(c, k, o)
    BY <1>3
  <2>2. models' = [models EXCEPT ![k].opinion = o] /\ order' = order
    BY <2>1 DEF Registry!Correct
  <2> QED
    BY <1>1, <1>2, <2>2, KnownStays
<1>4. CASE \E c \in Callers : Registry!Sweep(c)
  <2>1. PICK c \in Callers : Registry!Sweep(c)
    BY <1>4
  <2> DEFINE i == CHOOSE j \in Registry!ahead(c) : \A l \in Registry!ahead(c) : j <= l
  <2>2. PICK k : k = order[i]
    OBVIOUS
  <2>3. models' = [models EXCEPT ![k].online = FALSE] /\ order' = order
    BY <2>1, <2>2 DEF Registry!Sweep
  <2> HIDE DEF i
  <2>4. \A k1 \in Registry!Keys : models[k1].known => models'[k1].known
    <3>1. CASE k \in Registry!Keys
      BY <1>1, <2>3, <3>1, KnownStays
    <3>2. CASE k \notin Registry!Keys
      BY <1>1, <2>3, <3>2 DEF RegistryTypes
    <3> QED
      BY <3>1, <3>2
  <2> QED
    BY <1>2, <2>3, <2>4
<1>5. CASE \E c \in Callers : Registry!Record(c)
  <2>1. PICK c \in Callers : Registry!Record(c)
    BY <1>5
  <2>2. PICK k \in jobs[c].todo :
          /\ models' = [models EXCEPT ![k].known = TRUE, ![k].online = TRUE]
          /\ order' = IF models[k].known THEN order ELSE Append(order, k)
    BY <2>1 DEF Registry!Record
  <2>3. k \in Registry!Keys
    BY <1>1 DEF JobRecs
  <2>4. \A k1 \in Registry!Keys : models[k1].known => models'[k1].known
    BY <1>1, <2>2, <2>3, KnownStays
  <2>5. models'[k].known
    <3>1. models \in [Registry!Keys -> [known : BOOLEAN, online : BOOLEAN, opinion : Registry!Opinions]]
      BY <1>1 DEF RegistryTypes
    <3> QED
      BY <2>2, <2>3, <3>1
  <2>6. CASE models[k].known
    BY <1>2, <2>2, <2>4, <2>6
  <2>7. CASE ~models[k].known
    <3>1. order' = Append(order, k)
      BY <2>2, <2>7
    <3>2. /\ Len(order') = Len(order) + 1 /\ order'[Len(order) + 1] = k
          /\ \A i \in 1..Len(order) : order'[i] = order[i]
      BY <1>1, <2>3, <3>1, AppendProperties
    <3>3. \A i \in 1..(Len(order) + 1) : i \in 1..Len(order) \/ i = Len(order) + 1
      BY <1>1
    <3> QED
      BY <1>1, <2>4, <2>5, <3>2, <3>3 DEF OrderIsKnown
  <2> QED
    BY <2>6, <2>7
<1>6. CASE Registry!Restart
  <2> DEFINE S == {k \in Registry!Keys : modelRows[k] # Registry!NoRow}
             n == Registry!Cardinality(S)
  <2>1. order' \in [1..n -> S]
    BY <1>6 DEF Registry!Restart
  <2>2. S \in SUBSET Registry!Keys /\ \A k \in S : models'[k].known
    BY <1>6 DEF Registry!Restart
  <2>3. n \in Nat
    <3>1. n = Cardinality(S)
      BY DEF Registry!Cardinality, Cardinality
    <3>2. IsFiniteSet(S)
      <4> HIDE DEF S
      <4> QED
        BY <2>2, KeysAreFew, FS_Subset
    <3> HIDE DEF n
    <3> QED
      BY <3>1, <3>2, FS_CardinalityType
  <2> HIDE DEF S, n
  <2>4. Len(order') = n
    BY <2>1, <2>3
  <2> QED
    BY <2>1, <2>2, <2>4 DEF OrderIsKnown
<1>7. \/ UNCHANGED <<models, order>> \/ Registry!Restart
      \/ \E c \in Callers, k \in Registry!Keys, o \in Registry!Opinions : Registry!Correct(c, k, o)
      \/ \E c \in Callers : Registry!Record(c)
      \/ \E c \in Callers : Registry!Sweep(c)
  BY DEF Registry!Next, registryVars, Registry!Connect, Registry!Disconnect, Registry!SweepEnds,
     Registry!SweepRaises, Registry!Commit, Registry!CommitFails
<1>8. CASE UNCHANGED <<models, order>>
  BY <1>8 DEF OrderIsKnown
<1> QED
  BY <1>3, <1>4, <1>5, <1>6, <1>7, <1>8

\* So the registry's state is well typed; at first nothing is listed.
LEMMA RegistryIsTyped ==
  (Registry!Init => OrderIsKnown) /\ (RegistryInv /\ OrderIsKnown => Registry!TypeOK)
<1>1. ASSUME Registry!Init PROVE OrderIsKnown
  <2>1. order = <<>>
    BY <1>1 DEF Registry!Init
  <2>2. Len(order) = 0
    BY <2>1, EmptySeq
  <2> QED
    BY <2>2 DEF OrderIsKnown
<1>2. ASSUME RegistryInv, OrderIsKnown PROVE Registry!TypeOK
  <2>1. /\ RegistryTypes /\ \A i \in 1..Len(order) : order[i] \in Registry!Keys
        /\ jobs \in [Callers -> JobRecs]
    BY <1>2, LenProperties, ElementOfSeq DEF RegistryInv, RegistryTypes, JobsAreSound
  <2>2. {order[i] : i \in 1..Len(order)} = {k \in Registry!Keys : models[k].known}
    <3>1. \A i \in 1..Len(order) : order[i] \in Registry!Keys /\ models[order[i]].known
      BY <1>2, <2>1 DEF OrderIsKnown
    <3>2. \A k \in Registry!Keys : models[k].known => \E i \in 1..Len(order) : order[i] = k
      BY <2>1 DEF RegistryTypes
    <3>3. {order[i] : i \in 1..Len(order)} \subseteq {k \in Registry!Keys : models[k].known}
      BY <3>1
    <3>4. {k \in Registry!Keys : models[k].known} \subseteq {order[i] : i \in 1..Len(order)}
      BY <3>2
    <3> QED
      BY <3>3, <3>4
  <2>3. \A c \in Callers : jobs[c].op \in {"idle", "observe", "offline", "correct"}
    BY <2>1 DEF JobRecs
  <2> QED
    BY <2>1, <2>2, <2>3 DEF RegistryTypes, Registry!TypeOK
<1> QED
  BY <1>1, <1>2

\* Work, memory and undo keep their types in what they keep anyway.
LEMMA OthersAreTyped ==
  /\ WorkInv => Work!TypeOK
  /\ MemoryInv => Memory!TypeOK
  /\ UndoInv => Undo!TypeOK
<1>1. WorkInv => Work!TypeOK
  BY DEF WorkInv, WorkTypes, Routed, Work!TypeOK
<1>2. MemoryInv => Memory!TypeOK
  BY DEF MemoryInv
<1>3. ASSUME UndoInv PROVE Undo!TypeOK
  <2>1. \A n \in Nodes : \A p \in Paths : disk[n][p] \in 0..MaxActs
    BY <1>3 DEF UndoInv, FilesAre, Disks, Contents
  <2>2. Len(inverses) \in Nat
    BY <1>3, LenProperties DEF UndoInv
  <2>3. \A u \in Undoers : requests[u].record \in Nat /\ requests[u].record <= Len(inverses)
    BY <1>3 DEF UndoInv, Requests
  <2>4. \A u \in Undoers : requests[u].record \in 0..Len(inverses)
    BY <2>2, <2>3
  <2> QED
    BY <1>3, <2>1, <2>4 DEF UndoInv, Undo!TypeOK
<1> QED
  BY <1>1, <1>2, <1>3

\* What the owner asks for and what is counted; the checkpoint, and what a call read of it,
\* name steps of the plan.
MediaBounds ==
  /\ steps \in [Media!StepIds -> Cuts] /\ checkpoint \subseteq Media!StepIds
  /\ render # Media!Idle => render.entries \subseteq Media!StepIds
  /\ report.ok \in BOOLEAN
  /\ touches \in 0..MaxTouches /\ rendered \in 0..MaxCalls /\ left \in Media!Files

\* A call is answered.
LEMMA AnswerIsBounded ==
  ASSUME NEW ok \in BOOLEAN, NEW created, Media!Answer(ok, created)
  PROVE  render' = Media!Idle /\ report'.ok \in BOOLEAN
<1>1. CASE ok
  BY <1>1 DEF Media!Answer
<1>2. CASE ~ok
  BY <1>2 DEF Media!Answer, Media!Failed
<1> QED
  BY <1>1, <1>2

\* A call goes on to the next step, or is answered.
LEMMA GoingOnIsBounded ==
  ASSUME MediaBounds, NEW entries \in SUBSET Media!StepIds, NEW created, Media!GoOn(entries, created)
  PROVE  /\ render' # Media!Idle => render'.entries \subseteq Media!StepIds
         /\ report'.ok \in BOOLEAN
<1>1. CASE render.step = Len(Plan)
  <2>1. Media!Answer(TRUE, created)
    BY <1>1 DEF Media!GoOn
  <2> QED
    BY <2>1, AnswerIsBounded
<1>2. CASE render.step # Len(Plan)
  <2>1. render'.entries = entries /\ report' = report
    BY <1>2 DEF Media!GoOn
  <2> QED
    BY <2>1 DEF MediaBounds
<1> QED
  BY <1>1, <1>2

\* The owner does something beside the calls.
LEMMA TouchCounts == MediaBounds /\ Media!Touches => touches' \in 0..MaxTouches
<1> SUFFICES ASSUME MediaBounds, Media!Touches PROVE touches' \in 0..MaxTouches
  OBVIOUS
<1>1. touches \in 0..MaxTouches /\ touches < MaxTouches /\ touches' = touches + 1 /\ MaxTouches \in Nat
  BY BoundsAssumption DEF MediaBounds, Media!Touches
<1> QED
  BY <1>1

\* Calls, what ends them, and what the owner does beside them.
LEMMA MediaBoundsStep ==
  MediaInv /\ MediaBounds /\ [Media!Next]_mediaVars => MediaBounds'
<1> SUFFICES ASSUME MediaInv, MediaBounds, [Media!Next]_mediaVars PROVE MediaBounds'
  OBVIOUS
<1>1. CASE Media!Begin
  <2>1. /\ rendered < MaxCalls /\ rendered' = rendered + 1 /\ report' = Media!Failed
        /\ render'.entries = checkpoint /\ UNCHANGED <<steps, checkpoint, touches, left>>
    BY <1>1 DEF Media!Begin
  <2>2. rendered \in 0..MaxCalls /\ MaxCalls \in Nat
    BY BoundsAssumption DEF MediaBounds
  <2>3. rendered' \in 0..MaxCalls
    BY <2>1, <2>2
  <2>4. report'.ok \in BOOLEAN
    BY <2>1 DEF Media!Failed
  <2> QED
    BY <2>1, <2>3, <2>4 DEF MediaBounds
<1>2. CASE Media!Reuse
  <2>1. /\ render # Media!Idle /\ Media!GoOn(render.entries, render.created)
        /\ UNCHANGED <<steps, checkpoint, touches, rendered, left>>
    BY <1>2 DEF Media!Reuse, Media!Idle
  <2>2. render.entries \in SUBSET Media!StepIds
    BY <2>1 DEF MediaBounds
  <2>3. /\ render' # Media!Idle => render'.entries \subseteq Media!StepIds
        /\ report'.ok \in BOOLEAN
    BY <2>1, <2>2, GoingOnIsBounded
  <2> QED
    BY <2>1, <2>3 DEF MediaBounds
<1>3. CASE Media!StepDone
  <2>1. /\ render # Media!Idle
        /\ Media!GoOn(render.entries \cup {render.step}, render.created \cup {render.step})
        /\ checkpoint' \in {render.entries \cup {render.step}, checkpoint, {}}
        /\ UNCHANGED <<steps, touches, rendered, left>>
    BY <1>3 DEF Media!StepDone, Media!Idle
  <2>2. render.entries \cup {render.step} \in SUBSET Media!StepIds
    BY <2>1 DEF MediaBounds, MediaInv, CallTypes
  <2>3. /\ render' # Media!Idle => render'.entries \subseteq Media!StepIds
        /\ report'.ok \in BOOLEAN
    BY <2>1, <2>2, GoingOnIsBounded
  <2>4. checkpoint' \subseteq Media!StepIds
    BY <2>1, <2>2 DEF MediaBounds
  <2> QED
    BY <2>1, <2>3, <2>4 DEF MediaBounds
<1>4. CASE Media!StartStep
  <2>1. /\ render # Media!Idle /\ render'.entries = render.entries
        /\ UNCHANGED <<steps, checkpoint, report, touches, rendered, left>>
    BY <1>4 DEF Media!StartStep, Media!Idle
  <2> QED
    BY <2>1 DEF MediaBounds
<1>5. CASE Media!StepFails \/ Media!Dies \/ Media!Cancelled
  <2>1. Media!Answer(FALSE, {}) /\ UNCHANGED <<steps, touches, rendered>>
    BY <1>5 DEF Media!StepFails, Media!Dies, Media!Cancelled
  <2>2. render' = Media!Idle /\ report'.ok \in BOOLEAN
    BY <2>1, AnswerIsBounded
  <2>3. checkpoint' \in {checkpoint, {}}
    BY <1>5 DEF Media!StepFails, Media!Dies, Media!Cancelled
  <2>4. left' \in Media!Files
    <3>1. Media!StepIds \subseteq Media!Files /\ Media!Source \in Media!Files
      BY PlanIsOrdered DEF Media!Source
    <3>2. render.at = "run" => render.step \in Media!StepIds
      BY DEF MediaInv, CallTypes, Media!Idle
    <3>3. left' = left \/ left' = Media!Source \/ (render.at = "run" /\ left' = render.step)
      BY <1>5 DEF Media!StepFails, Media!Dies, Media!Cancelled
    <3> QED
      BY <3>1, <3>2, <3>3 DEF MediaBounds
  <2> QED
    BY <2>1, <2>2, <2>3, <2>4 DEF MediaBounds
<1>6. CASE Media!LooseEnds
  <2>1. left' \in Media!Files
    BY <1>6, PlanIsOrdered DEF Media!LooseEnds, Media!Source
  <2> QED
    BY <1>6, <2>1 DEF MediaBounds, Media!LooseEnds
<1>7. CASE \E i \in Media!StepIds : Media!DeleteFile(i)
  BY <1>7, TouchCounts DEF Media!DeleteFile, MediaBounds
<1>8. CASE \E i \in Media!StepIds, c \in Cuts : Media!ChangeStep(i, c)
  <2>1. PICK i \in Media!StepIds, c \in Cuts : Media!ChangeStep(i, c)
    BY <1>8
  <2>2. steps' \in [Media!StepIds -> Cuts]
    BY <2>1 DEF Media!ChangeStep, MediaBounds
  <2> QED
    BY <2>1, <2>2, TouchCounts DEF Media!ChangeStep, MediaBounds
<1>9. CASE \E p \in Pictures : Media!ChangePicture(p)
  BY <1>9, TouchCounts DEF Media!ChangePicture, MediaBounds
<1>10. CASE Media!UndoEdit
  <2>1. report'.ok \in BOOLEAN
    BY <1>10 DEF Media!UndoEdit, Media!Failed
  <2> QED
    BY <1>10, <2>1, TouchCounts DEF Media!UndoEdit, MediaBounds
<1>11. CASE UNCHANGED mediaVars
  BY <1>11 DEF mediaVars, MediaBounds
<1> QED
  BY <1>1, <1>2, <1>3, <1>4, <1>5, <1>6, <1>7, <1>8, <1>9, <1>10, <1>11 DEF Media!Next

\* So the renders' state is well typed, from the first.
LEMMA MediaIsTyped ==
  (Media!Init => MediaBounds) /\ (MediaInv /\ MediaBounds => Media!TypeOK)
<1>1. ASSUME Media!Init PROVE MediaBounds
  <2>1. PICK first : first = CHOOSE c \in Cuts : TRUE
    OBVIOUS
  <2>2. first \in Cuts
    BY <2>1, BoundsAssumption
  <2>3. steps \in [Media!StepIds -> Cuts]
    BY <1>1, <2>1, <2>2 DEF Media!Init
  <2>4. 0 \in 0..MaxTouches /\ 0 \in 0..MaxCalls /\ Media!Source \in Media!Files
    BY BoundsAssumption, PlanIsOrdered DEF Media!Source
  <2> QED
    BY <1>1, <2>3, <2>4 DEF Media!Init, MediaBounds, Media!Failed
<1>2. ASSUME MediaInv, MediaBounds PROVE Media!TypeOK
  <2>1. /\ DOMAIN shelf = Media!Files
        /\ \A f \in Media!Files : shelf[f].is \in {"missing", "partial", "whole"}
    BY <1>2 DEF MediaInv, ShelfTypes, Finished, Media!Missing, Media!Partial
  <2>2. /\ render.at \in {"idle", "next", "run"} /\ report.created \subseteq Media!StepIds
        /\ render # Media!Idle =>
             render.step \in Media!StepIds /\ render.entries \cup render.created \subseteq Media!StepIds
    BY <1>2 DEF MediaInv, CallTypes, MediaBounds
  <2>3. {changed, cut} \subseteq BOOLEAN
    BY <1>2 DEF MediaInv
  <2> QED
    BY <1>2, <2>1, <2>2, <2>3 DEF MediaBounds, Media!TypeOK
<1> QED
  BY <1>1, <1>2

\* THEOREM: every component behind the core's answers keeps its types, whatever fails, restarts or
\* is restored: the failures counted against a provider stay within the trip and the calls that
\* were with it (core/model_router.py), no trail or archive is longer than what was recorded
\* (core/audit.py), and every counter, order and state is one of its kind - for every number of
\* stages, machines, providers, calls, skills, records, files and models.
THEOREM CoreTypesHold == Spec => []TypeOK
<1> DEFINE Served == ModelsInv /\ FailsInv /\ RepairTypes
           Recorded == TrailInv /\ TrailBounds /\ TradingInv /\ TradingBounds
           Learnt == SkillInv /\ SkillBounds /\ MemoryInv /\ UndoInv /\ WorkInv
           Restored == BackupInv /\ BackupBounds /\ RegistryInv /\ OrderIsKnown /\ MediaInv /\ MediaBounds
<1>1. Init => Served /\ Recorded
  BY ModelsInit, RepairsStart, TrailStarts, TrailBoundsStart, TradingStarts, TradingIsTyped DEF Init
<1>2. Init => Learnt
  <2>1. Init => SkillInv
    BY DEF Init, Skills!Init, SkillInv
  <2> QED
    BY <2>1, SkillsAreTyped, MemoryStarts, UndoStarts, WorkStarts DEF Init
<1>3. Init => Restored
  BY BackupStarts, BackupIsTyped, RegistryStarts, RegistryIsTyped, MediaStarts, MediaIsTyped DEF Init
<1>4. Served /\ [Next]_allVars => Served'
  <2>1. ModelsInv /\ [Next]_allVars => ModelsInv'
    BY OnePartSteps, RouterStep, AttemptsStep DEF ModelsInv
  <2> QED
    BY <2>1, OnePartSteps, FailsStep, RepairsStep DEF ModelsInv
<1>5. Recorded /\ [Next]_allVars => Recorded'
  BY OnePartSteps, TrailStep, TrailBoundsStep, TradingStep, TradingBoundsStep
<1>6. Learnt /\ [Next]_allVars => Learnt'
  BY OnePartSteps, SkillStep, SkillBoundsStep, MemoryStep, UndoStep, WorkStep, CoreAssumption
<1>7. Restored /\ [Next]_allVars => Restored'
  BY OnePartSteps, BackupStep, BackupBoundsStep, RegistryStep, OrderStep, MediaStep, MediaBoundsStep
<1>8. Served /\ Recorded /\ Learnt /\ Restored => TypeOK
  BY ModelsAreTyped, TrailIsTyped, TradingIsTyped, SkillsAreTyped, BackupIsTyped, RegistryIsTyped,
     MediaIsTyped, OthersAreTyped DEF TypeOK
<1> QED
  BY <1>1, <1>2, <1>3, <1>4, <1>5, <1>6, <1>7, <1>8, PTL DEF Spec, allVars
===============================================================================
