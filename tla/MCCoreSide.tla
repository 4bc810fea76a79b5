------------------------------ MODULE MCCoreSide ------------------------------
(***************************************************************************)
(* The components behind the core's answers: where work runs, which model  *)
(* answers and where it lives, what is repaired, recorded, backed up,      *)
(* learned, remembered, rendered and taken back, and the paper trades.     *)
(* They share no state, so a run explores one of them at a time, and the   *)
(* others rest in their initial states.                                    *)
(***************************************************************************)
EXTENDS Naturals, Sequences, FiniteSets, TLC

CONSTANTS Stages, Optional, Private, Machines, Cloud, Limits, MaxResizes,
          Calls, Trip, Cooldown, Cap, MaxLost, Tiers, Components, Presses, MaxAttempts, Quiet,
          MaxEntries, Revealing,
          Prices, MaxBars, MaxRuns, Equity, Risked, MaxPosition, MaxDayLoss, MaxDrawdown,
          SkillNames, MaxVersions, MaxTests,
          Values, Writers, MaxRecords,
          Paths, Nodes, Undoers, MaxActs, MaxAsks, MaxSeconds,
          ArchiveNames, Versions, MaxWork, MaxDamages, MaxUpdates,
          Holders, Callers, MaxJobs,
          Cuts, Pictures, MaxCalls, MaxTouches

\* Two stages side by side, and one that is built on the first.
Needs == ("a" :> {}) @@ ("b" :> {}) @@ ("c" :> {"a"})

ASSUME CoreAssumption ==
  /\ IsFiniteSet(Stages) /\ IsFiniteSet(Machines) /\ Cloud \notin Machines /\ Limits \subseteq Nat \ {0}
  /\ Private \subseteq Stages /\ \A s \in Stages : Needs[s] \subseteq Stages
  /\ {MaxResizes, MaxRecords, MaxActs, MaxSeconds, MaxAsks, MaxWork} \subseteq Nat
  /\ Prices \subseteq Nat \ {0} /\ {MaxBars, Equity, Risked, MaxPosition} \subseteq Nat
  /\ Versions \subseteq Nat

\* The first components of a backup, in the order they are restored; and the models found on
\* each machine that holds any.
Parts == <<"memory", "tasks">>
Kept == ("d" :> {"a"}) @@ ("e" :> {"c"})

\* A still, its resized copy, and the two laid over each other.
Plan == <<{0}, {1}, {0, 2}>>

ASSUME ModelsAssumption ==
  /\ {"FAST", "LOCAL"} \subseteq Tiers /\ IsFiniteSet(Tiers) /\ IsFiniteSet(Calls) /\ Calls # {}
  /\ {Trip, MaxAttempts} \subseteq Nat \ {0} /\ {Cooldown, Cap, Quiet} \subseteq Nat
  /\ IsFiniteSet(Holders) /\ "" \notin Holders /\ \A d \in Holders : IsFiniteSet(Kept[d])

ASSUME BoundsAssumption ==
  /\ {MaxEntries, MaxRuns, MaxVersions, MaxDamages, MaxCalls, MaxTouches} \subseteq Nat
  /\ IsFiniteSet(SkillNames)
  /\ Cuts # {}  \* a step is asked for with some arguments

\* Writers of a memory differ in nothing but who they are, and so do the things remembered.
Symmetry == Permutations(Writers) \cup Permutations(Values)

VARIABLES part,
          at, chain, slot, free, limit, resizes, resized, away, answer,
          providers, fails, held, calls, spent, stored, attempts, presses, streak,
          trail, altered, prev, beneath, puts, table, writing, archive, lost, replaced, acked,
          bar, runs, equity, account, position, pending, closed, halted,
          skills, sandbox,
          records, rows, writes, removing, made, conflicts, suppressed, forgotten,
          disk, kept, second, acts, asks, inverses, requests, ran,
          live, worked, damages, files, taken, current, updates,
          models, order, modelRows, connected, jobs, started, loose,
          steps, shelf, checkpoint, render, report, touches, rendered, left, changed, cut

workVars == <<at, chain, slot, free, limit, resizes, resized, away, answer>>
modelVars == <<providers, fails, held, calls, spent, stored, attempts, presses, streak>>
trailVars ==
  <<trail, altered, prev, beneath, puts, table, writing, archive, lost, replaced, acked>>
tradingVars == <<bar, runs, equity, account, position, pending, closed, halted>>
skillVars == <<skills, sandbox>>
memoryVars == <<records, rows, writes, removing, made, conflicts, suppressed, forgotten>>
undoVars == <<disk, kept, second, acts, asks, inverses, requests, ran>>
backupVars == <<live, worked, damages, files, taken, current, updates>>
registryVars == <<models, order, modelRows, connected, jobs, started, loose>>
mediaVars ==
  <<steps, shelf, checkpoint, render, report, touches, rendered, left, changed, cut>>

Work == INSTANCE DistributedWork
Recovery == INSTANCE SelfRecovery
Audit == INSTANCE AuditTrail WITH chain <- trail
Trading == INSTANCE PaperTrading
Skills == INSTANCE SkillLifecycle
Memory == INSTANCE MemoryManager
Undo == INSTANCE UndoRegistry WITH records <- inverses
Backup == INSTANCE Backups WITH work <- worked, archive <- files, Names <- ArchiveNames
Registry == INSTANCE ModelRegistry WITH rows <- modelRows, Machines <- Holders
Media == INSTANCE MediaRender WITH disk <- shelf, loose <- left

Init ==
  /\ part \in {"work", "models", "trail", "trading", "skills", "memory", "undo", "backup", "registry",
             "media"}
  /\ part # "models" => providers = [t \in Tiers |-> "ollama"]
  /\ part # "backup" => current = 1
  /\ Work!Init /\ Recovery!RecoveryInit /\ Audit!Init /\ Trading!Init /\ Skills!Init /\ Memory!Init
  /\ Undo!Init /\ Backup!Init /\ Registry!Init /\ Media!Init

WorkNext ==
  /\ part = "work" /\ Work!Next
  /\ UNCHANGED <<part, modelVars, trailVars, tradingVars, skillVars, memoryVars, undoVars,
                backupVars, registryVars, mediaVars>>
ModelsNext ==
  /\ part = "models" /\ Recovery!RecoveryNext
  /\ UNCHANGED <<part, workVars, trailVars, tradingVars, skillVars, memoryVars, undoVars,
                backupVars, registryVars, mediaVars>>
TrailNext ==
  /\ part = "trail" /\ Audit!Next
  /\ UNCHANGED <<part, workVars, modelVars, tradingVars, skillVars, memoryVars, undoVars,
                backupVars, registryVars, mediaVars>>
TradingNext ==
  /\ part = "trading" /\ Trading!Next
  /\ UNCHANGED <<part, workVars, modelVars, trailVars, skillVars, memoryVars, undoVars,
                backupVars, registryVars, mediaVars>>
SkillsNext ==
  /\ part = "skills" /\ Skills!Next
  /\ UNCHANGED <<part, workVars, modelVars, trailVars, tradingVars, memoryVars, undoVars,
                backupVars, registryVars, mediaVars>>
MemoryNext ==
  /\ part = "memory" /\ Memory!Next
  /\ UNCHANGED <<part, workVars, modelVars, trailVars, tradingVars, skillVars, undoVars,
                backupVars, registryVars, mediaVars>>
UndoNext ==
  /\ part = "undo" /\ Undo!Next
  /\ UNCHANGED <<part, workVars, modelVars, trailVars, tradingVars, skillVars, memoryVars,
                backupVars, registryVars, mediaVars>>
BackupNext ==
  /\ part = "backup" /\ Backup!Next
  /\ UNCHANGED <<part, workVars, modelVars, trailVars, tradingVars, skillVars, memoryVars,
                undoVars, registryVars, mediaVars>>
RegistryNext ==
  /\ part = "registry" /\ Registry!Next
  /\ UNCHANGED <<part, workVars, modelVars, trailVars, tradingVars, skillVars, memoryVars,
                undoVars, backupVars, mediaVars>>
MediaNext ==
  /\ part = "media" /\ Media!Next
  /\ UNCHANGED <<part, workVars, modelVars, trailVars, tradingVars, skillVars, memoryVars,
                undoVars, backupVars, registryVars>>

Next ==
  \/ WorkNext \/ ModelsNext \/ TrailNext \/ TradingNext \/ SkillsNext \/ MemoryNext
  \/ UndoNext \/ BackupNext \/ RegistryNext \/ MediaNext

Spec ==
  Init /\ [][Next]_<<part, workVars, modelVars, trailVars, tradingVars, skillVars, memoryVars,
                     undoVars, backupVars, registryVars, mediaVars>>

\* Every component's state keeps its types.
TypeOK ==
  /\ part = "work" => Work!TypeOK
  /\ part = "models" => Recovery!RecoveryTypeOK
  /\ part = "trail" => Audit!TypeOK
  /\ part = "trading" => Trading!TypeOK
  /\ part = "skills" => Skills!TypeOK
  /\ part = "memory" => Memory!TypeOK
  /\ part = "undo" => Undo!TypeOK
  /\ part = "backup" => Backup!TypeOK
  /\ part = "registry" => Registry!TypeOK
  /\ part = "media" => Media!TypeOK

\* Machines are not flattened, private content stays home, answers are built on what they
\* need (DistributedWork).
WorkIsPlaced ==
  part = "work" => Work!MachineIsNotFlattened /\ Work!PrivateStaysHome /\ Work!AnswerIsWhole

\* A failing model is held and not banned, the ceiling holds, repairs are bounded and leave
\* the core a model to answer with (ModelRouter, SelfRecovery).  The models that are offered
\* are those their machines report, and what the owner said of them outlives reports,
\* disconnections and restarts (ModelRegistry).
ModelsServe ==
  /\ [](part = "models" =>
         Recovery!HeldNotBanned /\ Recovery!CapBinds /\ Recovery!AttemptsAreBounded)
  /\ [](part = "registry" => Registry!OnlineMeansReported /\ Registry!CorrectionIsKept)
  /\ [][Recovery!ParkingSpares]_modelVars
  /\ Registry!OnlyTheOwnerCorrects

\* The trail and its archives are whole and their alarm is true (AuditTrail), the books of the
\* paper trades add up (PaperTrading), and what a backup brings back is what was there less
\* the credentials, also after an update (Backups), and a render that is resumed is as good as one that was not
\* interrupted (MediaRender).
RecordsAreTrue ==
  /\ part = "trail" =>
       Audit!AlarmIsTrue /\ Audit!AckedIsKept /\ Audit!GapIsSeen /\ Audit!ArchiveIsWhole
  /\ part = "trading" => Trading!BooksBalance
  /\ part = "backup" => Backup!VerifiedIsWhole /\ Backup!UpdateCanBeTakenBack
  /\ part = "media" => Media!ResumeIsFaithful /\ Media!NoHalfFileIsRead

\* A skill that runs was tested and, where it matters, reviewed (SkillLifecycle).
ActiveIsEarned == part = "skills" => Skills!ActiveIsEarned

\* What was remembered is kept, what was forgotten stays forgotten, and the owner's word
\* stands (MemoryManager).
MemoryIsKept == part = "memory" =>
  Memory!ForgottenStaysForgotten /\ Memory!RememberedIsKept /\ Memory!OwnerIsNotOverruled

\* An undo restores what the act changed and loses nothing on the way, and a record is there
\* until it has been run (UndoRegistry).
ActsCanBeTakenBack == []Undo!OnlyUndoneLeaves /\ Undo!UndoRestores /\ Undo!NothingIsLost
===============================================================================
