------------------------ MODULE TurnExecution_proofs ------------------------
(***************************************************************************)
(* What TurnExecution keeps for every plan and every setting of the        *)
(* attempts, proved.  The inductive invariant adds two facts to the        *)
(* properties TLC checks: a task exists, in memory and in storage, from    *)
(* the first save on, and storage never knows of a finished step that      *)
(* memory does not.                                                        *)
(***************************************************************************)
EXTENDS TurnExecution, Selection_proofs

\* From the first save on, memory and storage hold a task.
Started == turn # "idle" => status \in TaskState /\ row.status \in TaskState

\* Storage never knows of a finished step that memory does not.
RowBehind == \A s \in Steps : row.step[s] = "COMPLETED" => step[s] = "COMPLETED"

TypeInv == TypeOK /\ Started

\* The tuple types of TypeOK, named for the steps that build them.
Runs == [phase : {"idle", "attempting", "acted", "verifying"} \cup Endings,
         attempt : Nat, limit : Nat, agent : {"chosen", "alternative"}, upstream : BOOLEAN]
StepStates == [Steps -> {"NEW", "COMPLETED", "FAILED"}]
Rows == [status : TaskState \cup {"ABSENT"}, verified : BOOLEAN, step : StepStates]

-------------------------------------------------------------------------------
\* The states a move names are states of the vocabulary.
LEMMA StatesNamed ==
  /\ {"NEW", "PLANNING", "RUNNING", "VERIFYING", "COMPLETED", "FAILED", "CANCELLED", "PAUSED",
      "INTERRUPTED"} \subseteq TaskState
  /\ \A s \in TaskState : Recovered(s) \in TaskState
BY DEF TaskState, Waiting, Terminal, Recovered

\* The initial state is well typed, and no task has been started.
LEMMA TypeInit == Init => TypeInv
<1> SUFFICES ASSUME Init PROVE TypeInv
  OBVIOUS
<1>1. IdleRun \in Runs
  BY DEF IdleRun, Runs
<1>2. NoRow \in Rows
  BY DEF NoRow, Rows, StepStates
<1>3. run \in [Steps -> Runs] /\ row \in Rows
  BY <1>1, <1>2 DEF Init
<1>4. Started
  BY DEF Init, Started
<1> QED
  BY <1>3, <1>4 DEF Init, TypeInv, TypeOK, Runs, Rows, StepStates

\* Every step of the turn, of a plan step, of the owner, and of a crash keeps the types.
LEMMA TypeStep == TypeInv /\ [Next]_vars => TypeInv'
<1> SUFFICES ASSUME TypeInv, [Next]_vars PROVE TypeInv'
  OBVIOUS
<1> USE StatesNamed DEF TypeInv, Started
<1>1. CASE CreateTask
  BY <1>1 DEF CreateTask, Enter, Save, TypeOK
<1>2. CASE Plan
  BY <1>2 DEF Plan, TransitionThen, Enter, Save, TypeOK
<1>3. CASE Start
  BY <1>3 DEF Start, TransitionThen, Enter, Save, TypeOK
<1>4. CASE NextFrontier
  <2>1. [phase |-> "attempting", attempt |-> 1, limit |-> StepMaxAttempts,
         agent |-> "chosen", upstream |-> TRUE] \in Runs
    BY AttemptAssumption DEF Runs
  <2>2. run \in [Steps -> Runs]
    BY DEF TypeOK, Runs
  <2>3. run' \in [Steps -> Runs] /\ frontier' \in SUBSET Steps
    <3>1. CASE walkIsOver
      BY <1>4, <2>2, <3>1 DEF NextFrontier, TypeOK
    <3>2. CASE ~walkIsOver
      <4>1. frontier' = ready_steps /\ ready_steps \subseteq Steps
        BY <1>4, <3>2 DEF NextFrontier, ready_steps
      <4>2. run' \in [Steps -> Runs]
        BY <1>4, <2>1, <2>2, <3>2 DEF NextFrontier
      <4> QED BY <4>1, <4>2
    <3> QED BY <3>1, <3>2
  <2> QED
    BY <1>4, <2>3 DEF NextFrontier, TypeOK, Runs
<1>5. CASE GatherDone
  BY <1>5 DEF GatherDone, TypeOK
<1>6. CASE Progress
  BY <1>6 DEF Progress, Save, TypeOK
<1>7. CASE Report
  BY <1>7 DEF Report, TransitionThen, Enter, Save, TypeOK
<1>8. CASE Complete
  <2>1. /\ status' \in TaskState /\ lived' \in SUBSET TaskState
        /\ turn' \in {"ended", "raised"} /\ verified' \in BOOLEAN
    BY <1>8 DEF Complete, TransitionThen, Enter, TypeOK
  <2>2. row' \in Rows /\ row'.status \in TaskState
    <3>1. row \in Rows /\ step' \in StepStates
      BY <1>8 DEF Complete, TypeOK, Rows, StepStates
    <3>2. CASE UNCHANGED row
      BY <1>8, <3>1, <3>2 DEF Complete
    <3>3. CASE Save
      BY <3>1, <3>3, <2>1 DEF Save, Rows
    <3> QED BY <1>8, <3>2, <3>3 DEF Complete
  <2> QED
    BY <1>8, <2>1, <2>2 DEF Complete, TypeOK, Rows, StepStates
<1>9. ASSUME NEW s \in Steps, StepAction(s) PROVE TypeInv'
  <2>1. CASE Act(s)
    BY <1>9, <2>1 DEF Act, stepOnly, TypeOK
  <2>2. CASE Return(s)
    <3>1. run' \in [Steps -> Runs]
      <4>1. run \in [Steps -> Runs]
        BY DEF TypeOK, Runs
      <4>2. CASE run' = [run EXCEPT ![s].phase = "verifying"]
        BY <1>9, <4>1, <4>2 DEF Runs
      <4>3. CASE Ends(s, "raised")
        BY <1>9, <4>1, <4>3 DEF Ends, Runs, Endings
      <4> QED BY <2>2, <4>2, <4>3 DEF Return
    <3>2. row' \in Rows /\ row'.status \in TaskState
      BY <2>2 DEF Return, Attempting, InStep, Save, stepOnly, TypeOK, Rows, StepStates
    <3> QED
      BY <2>2, <3>1, <3>2 DEF Return, stepOnly, TypeOK, Runs, Rows, StepStates
  <2>3. CASE GiveUpStep(s)
    BY <1>9, <2>3 DEF GiveUpStep, Ends, stepOnly, TypeOK, Endings
  <2>4. CASE Unavailable(s)
    BY <1>9, <2>4 DEF Unavailable, Ends, Again, stepOnly, TypeOK, Endings
  <2>5. CASE VerifyPass(s)
    BY <1>9, <2>5 DEF VerifyPass, Ends, stepOnly, TypeOK, Endings
  <2>6. CASE VerifyReject(s)
    <3>1. run \in [Steps -> Runs]
      BY DEF TypeOK, Runs
    <3>2. Ends(s, "rejected") => run' \in [Steps -> Runs]
      BY <1>9, <3>1 DEF Ends, Runs, Endings
    <3>3. Again(s) => run' \in [Steps -> Runs]
      BY <1>9, <3>1 DEF Again, Runs
    <3>4. Alternative(s) => run' \in [Steps -> Runs]
      BY <1>9, <3>1 DEF Alternative, Runs
    <3>5. run' \in [Steps -> Runs]
      BY <2>6, <3>2, <3>3, <3>4 DEF VerifyReject
    <3> QED
      BY <2>6, <3>5 DEF VerifyReject, stepOnly, TypeOK, Runs
  <2> QED BY <1>9, <2>1, <2>2, <2>3, <2>4, <2>5, <2>6 DEF StepAction
<1>10. CASE Owner
  <2>1. PICK to \in TaskState : Enter(to) /\ Save /\ UNCHANGED ownerKeeps
    BY <1>10 DEF Owner, Cancel, Pause, Resume
  <2>2. cancelled' \in BOOLEAN
    BY <1>10 DEF Owner, Cancel, Pause, Resume, TypeOK
  <2>3. row' \in Rows /\ row'.status \in TaskState
    BY <2>1 DEF Enter, Save, ownerKeeps, TypeOK, Rows, StepStates
  <2> QED
    BY <2>1, <2>2, <2>3 DEF Enter, ownerKeeps, TypeOK, Rows, StepStates
<1>11. CASE Crash
  BY <1>11 DEF Crash, TypeOK
<1>12. CASE Restore
  <2>1. row \in Rows /\ row.status \in TaskState
    BY <1>12 DEF Restore, TypeOK, Rows, StepStates
  <2>2. /\ status' \in TaskState /\ lived' \in SUBSET TaskState
        /\ verified' \in BOOLEAN /\ step' \in StepStates
    BY <1>12, <2>1 DEF Restore, Enter, TypeOK, Rows
  <2> QED
    BY <1>12, <2>1, <2>2 DEF Restore, TypeOK, StepStates
<1>13. CASE UNCHANGED vars
  BY <1>13 DEF vars, TypeOK
<1> QED
  BY <1>1, <1>2, <1>3, <1>4, <1>5, <1>6, <1>7, <1>8, <1>9, <1>10, <1>11, <1>12, <1>13
  DEF Next, TurnAction

\* The turn's state is always of its type, for every plan and every setting.
THEOREM TypeCorrect == Spec => []TypeOK
<1>1. TypeInv => TypeOK
  BY DEF TypeInv
<1> QED
  BY TypeInit, TypeStep, <1>1, PTL DEF Spec

-------------------------------------------------------------------------------
(* What an action leaves alone.                                              *)

Over == {"dead", "restarted"}

\* Moves of the task: no step begins, advances or ends, and nothing is forgotten.
Quiet ==
  /\ UNCHANGED <<step, run, effects, maxAttempts>>
  /\ row' = row \/ row'.step = step
  /\ turn \in Over => turn' \in Over

\* A step that works: its own coroutine moves, and no other's.
Works(s) ==
  /\ turn = "gathering" /\ s \in frontier
  /\ run[s].phase \in {"attempting", "acted", "verifying"} /\ run'[s].phase # "idle"
  /\ \A r \in Steps \ {s} : run'[r] = run[r]
  /\ UNCHANGED <<step, turn, frontier, maxAttempts>>
  /\ row' = row \/ row'.step = step

\* Every coroutine of a plan step moves nothing but its own locals and effects.
LEMMA StepActionWorks ==
  ASSUME TypeInv, NEW s \in Steps, StepAction(s)
  PROVE  Works(s)
<1>1. run \in [Steps -> Runs]
  BY DEF TypeInv, TypeOK, Runs
<1>2. CASE Act(s)
  BY <1>1, <1>2 DEF Act, InStep, stepOnly, Works, Runs
<1>3. CASE Return(s)
  BY <1>1, <1>3 DEF Return, Attempting, InStep, Ends, stepOnly, Save, Works, Runs
<1>4. CASE GiveUpStep(s)
  BY <1>1, <1>4 DEF GiveUpStep, Attempting, InStep, Ends, stepOnly, Works, Runs
<1>5. CASE Unavailable(s)
  BY <1>1, <1>5 DEF Unavailable, Attempting, InStep, Ends, Again, stepOnly, Works, Runs
<1>6. CASE VerifyPass(s)
  BY <1>1, <1>6 DEF VerifyPass, InStep, Ends, stepOnly, Works, Runs
<1>7. CASE VerifyReject(s)
  BY <1>1, <1>7 DEF VerifyReject, InStep, Ends, Again, Alternative, stepOnly, Works, Runs
<1> QED
  BY <1>2, <1>3, <1>4, <1>5, <1>6, <1>7 DEF StepAction

\* Everything the turn and the owner do, besides the frontier and the restart, is quiet.
LEMMA OthersAreQuiet ==
  ASSUME CreateTask \/ Plan \/ Start \/ Progress \/ Report \/ Complete \/ Owner \/ Crash
           \/ UNCHANGED vars
  PROVE  Quiet
<1>1. CASE CreateTask
  BY <1>1 DEF CreateTask, Save, Quiet, Over
<1>2. CASE Plan
  BY <1>2 DEF Plan, Save, Quiet, Over
<1>3. CASE Start
  BY <1>3 DEF Start, Save, Quiet, Over
<1>4. CASE Progress
  BY <1>4 DEF Progress, Save, Quiet, Over
<1>5. CASE Report
  BY <1>5 DEF Report, Save, Quiet, Over
<1>6. CASE Complete
  <2>1. row' = row \/ Save
    BY <1>6 DEF Complete
  <2>2. row' = row \/ row'.step = step'
    BY <2>1 DEF Save
  <2> QED BY <1>6, <2>2 DEF Complete, Quiet, Over
<1>7. CASE Owner
  BY <1>7 DEF Owner, Cancel, Pause, Resume, ownerKeeps, Save, Quiet, Over
<1>8. CASE Crash
  BY <1>8 DEF Crash, Quiet, Over
<1>9. CASE UNCHANGED vars
  BY <1>9 DEF vars, Quiet, Over
<1> QED
  BY <1>1, <1>2, <1>3, <1>4, <1>5, <1>6, <1>7, <1>8, <1>9

-------------------------------------------------------------------------------
(* Done is verified, and dependencies come first.                            *)

DoneInv == TypeInv /\ DoneWasVerified /\ RowBehind

\* Initially nothing is done.
LEMMA DoneInit == Init => DoneInv
<1> SUFFICES ASSUME Init PROVE DoneWasVerified /\ RowBehind
  BY TypeInit DEF DoneInv
<1> QED
  BY DEF Init, NoRow, DoneWasVerified, RowBehind

\* Every step of the system keeps done what was verified, and storage behind memory.
LEMMA DoneStep == DoneInv /\ [Next]_vars => DoneInv'
<1> SUFFICES ASSUME DoneInv, [Next]_vars PROVE (DoneWasVerified /\ RowBehind)'
  BY TypeStep DEF DoneInv
<1> USE DEF DoneInv, DoneWasVerified, RowBehind
<1>1. ASSUME NEW s \in Steps, StepAction(s) PROVE (DoneWasVerified /\ RowBehind)'
  BY <1>1, StepActionWorks DEF Works
<1>2. ASSUME Quiet PROVE (DoneWasVerified /\ RowBehind)'
  BY <1>2 DEF Quiet
<1>3. CASE NextFrontier
  <2>1. \A s \in Steps : step[s] = "COMPLETED" => run'[s] = run[s]
    BY <1>3 DEF NextFrontier, ready_steps
  <2> QED
    BY <1>3, <2>1 DEF NextFrontier
<1>4. CASE GatherDone
  \* A step marked done now was not among those that failed, so the Supervisor passed
  \* it; a step done before has passed, so it is not marked failed.
  <2>1. \A s \in Steps : step'[s] = "COMPLETED" => run[s].phase = "passed"
    BY <1>4, PlanAssumption DEF GatherDone, notOk, Steps
  <2>2. \A s \in Steps : step[s] = "COMPLETED" => step'[s] = "COMPLETED"
    BY <1>4 DEF GatherDone, notOk
  <2> QED
    BY <1>4, <2>1, <2>2 DEF GatherDone
<1>5. CASE Restore
  BY <1>5 DEF Restore
<1> QED
  BY <1>1, <1>2, <1>3, <1>4, <1>5, OthersAreQuiet DEF Next, TurnAction

\* Nothing counts before it is verified: a step is COMPLETED, in memory or in the row a
\* restart reads, only if its last attempt was passed by the Supervisor.
THEOREM DoneIsVerified == Spec => []DoneWasVerified
<1>1. DoneInv => DoneWasVerified
  BY DEF DoneInv
<1> QED
  BY DoneInit, DoneStep, <1>1, PTL DEF Spec

OrderInv == DoneInv /\ DependenciesFirst

\* Every step of the system keeps the order of the plan.
LEMMA OrderStep == OrderInv /\ [Next]_vars => OrderInv'
<1> SUFFICES ASSUME OrderInv, [Next]_vars PROVE DependenciesFirst'
  BY DoneStep DEF OrderInv
<1> USE DEF OrderInv, DependenciesFirst
<1> USE PlanAssumption
<1>1. ASSUME NEW s \in Steps, StepAction(s) PROVE DependenciesFirst'
  <2>1. \A r \in Steps : run'[r].phase # "idle" => run[r].phase # "idle"
    BY <1>1, StepActionWorks DEF Works, DoneInv
  <2> QED
    BY <1>1, <2>1, StepActionWorks DEF Works, DoneInv
<1>2. ASSUME Quiet PROVE DependenciesFirst'
  BY <1>2 DEF Quiet, Over
<1>3. CASE NextFrontier
  \* Whoever is given work now was ready, and whoever had it keeps what it had.
  <2>1. \A s \in Steps : run'[s].phase # "idle" => run[s].phase # "idle" \/ s \in ready_steps
    BY <1>3 DEF NextFrontier
  <2>2. UNCHANGED step /\ turn = "looping"
    BY <1>3 DEF NextFrontier
  <2> QED
    BY <2>1, <2>2 DEF ready_steps
<1>4. CASE GatherDone
  <2>1. \A s \in Steps : step[s] = "COMPLETED" => step'[s] = "COMPLETED"
    BY <1>4 DEF GatherDone, notOk, DoneInv, DoneWasVerified
  <2>2. UNCHANGED run /\ turn = "gathering"
    BY <1>4 DEF GatherDone
  <2> QED
    BY <2>1, <2>2
<1>5. CASE Restore
  BY <1>5 DEF Restore
<1> QED
  BY <1>1, <1>2, <1>3, <1>4, <1>5, OthersAreQuiet DEF Next, TurnAction

\* An agent works on a step only after every step it depends on is done and verified,
\* however the frontier is interleaved and whatever the owner does meanwhile.
THEOREM DependenciesComeFirst == Spec => []DependenciesFirst
<1>1. Init => OrderInv
  BY DoneInit DEF OrderInv, Init, IdleRun, DependenciesFirst
<1>2. OrderInv => DependenciesFirst
  BY DEF OrderInv
<1> QED
  BY <1>1, OrderStep, <1>2, PTL DEF Spec

-------------------------------------------------------------------------------
(* Attempts are bounded.                                                     *)

\* Only a step that has not been worked on can be ready again.
Fresh ==
  /\ turn \in {"idle", "created", "planned"} => \A s \in Steps : run[s].phase = "idle"
  /\ turn \in {"looping", "progress"} =>
       \A s \in Steps : run[s].phase # "idle" => step[s] # "NEW"
  /\ turn = "gathering" =>
       \A s \in Steps : run[s].phase # "idle" => s \in frontier \/ step[s] # "NEW"

\* The account of one step: an attempt in progress has one effect to come, and the
\* alternative agent is there only when the setting is the tighter of the two bounds.
Account(s) ==
  /\ run[s].phase = "idle" => run[s].attempt = 0 /\ effects[s] = 0
  /\ run[s].phase # "idle" /\ run[s].agent = "chosen" =>
       /\ run[s].limit = StepMaxAttempts
       /\ run[s].attempt <= run[s].limit /\ run[s].attempt <= maxAttempts
       /\ effects[s] <= IF run[s].phase = "attempting" THEN run[s].attempt - 1 ELSE run[s].attempt
  /\ run[s].phase # "idle" /\ run[s].agent = "alternative" =>
       /\ maxAttempts < StepMaxAttempts /\ run[s].limit = 1 /\ run[s].attempt = 1
       /\ effects[s] <= IF run[s].phase = "attempting" THEN maxAttempts ELSE maxAttempts + 1

BoundInv == DoneInv /\ Fresh /\ \A s \in Steps : Account(s)

\* Initially nothing has been attempted.
LEMMA BoundInit == Init => BoundInv
<1> SUFFICES ASSUME Init PROVE Fresh /\ \A s \in Steps : Account(s)
  BY DoneInit DEF BoundInv
<1> QED
  BY DEF Init, IdleRun, Fresh, Account

\* No step becomes ready a second time.
LEMMA FreshStep == BoundInv /\ [Next]_vars => Fresh'
<1> SUFFICES ASSUME BoundInv, [Next]_vars PROVE Fresh'
  OBVIOUS
<1> USE DEF BoundInv, Fresh
<1>1. ASSUME NEW s \in Steps, StepAction(s) PROVE Fresh'
  <2>1. Works(s)
    BY <1>1, StepActionWorks DEF DoneInv
  <2> QED
    BY <2>1 DEF Works
<1>2. CASE CreateTask
  BY <1>2 DEF CreateTask
<1>3. CASE Plan
  BY <1>3 DEF Plan, TransitionThen
<1>4. CASE Start
  BY <1>4 DEF Start, TransitionThen
<1>5. CASE NextFrontier
  BY <1>5 DEF NextFrontier
<1>6. CASE GatherDone
  <2>1. CASE notOk = {}
    BY <1>6, <2>1 DEF GatherDone
  <2>2. CASE notOk # {}
    BY <1>6, <2>2 DEF GatherDone
  <2> QED BY <2>1, <2>2
<1>7. CASE Progress
  BY <1>7 DEF Progress
<1>8. CASE Report
  BY <1>8 DEF Report, TransitionThen
<1>9. CASE Complete
  BY <1>9 DEF Complete, TransitionThen
<1>10. CASE Owner
  BY <1>10 DEF Owner, Cancel, Pause, Resume, ownerKeeps
<1>11. CASE Crash
  BY <1>11 DEF Crash
<1>12. CASE Restore
  BY <1>12 DEF Restore
<1>13. CASE UNCHANGED vars
  BY <1>13 DEF vars
<1> QED
  BY <1>1, <1>2, <1>3, <1>4, <1>5, <1>6, <1>7, <1>8, <1>9, <1>10, <1>11, <1>12, <1>13
  DEF Next, TurnAction

\* A coroutine keeps its own account.
LEMMA StepKeepsAccount ==
  ASSUME BoundInv, NEW s \in Steps, StepAction(s)
  PROVE  Account(s)'
<1>1. /\ run[s] \in Runs /\ run \in [Steps -> Runs] /\ effects \in [Steps -> Nat]
      /\ maxAttempts \in Nat \ {0} /\ StepMaxAttempts \in Nat \ {0} /\ effects[s] \in Nat
  BY AttemptAssumption DEF BoundInv, DoneInv, TypeInv, TypeOK, Runs
<1>2. Account(s) /\ UNCHANGED maxAttempts
  BY StepActionWorks DEF BoundInv, DoneInv, Works
<1>3. CASE Act(s)
  BY <1>1, <1>2, <1>3 DEF Act, InStep, Account, Runs
<1>4. CASE Return(s)
  BY <1>1, <1>2, <1>4 DEF Return, Attempting, InStep, Ends, Account, Runs
<1>5. CASE GiveUpStep(s)
  BY <1>1, <1>2, <1>5 DEF GiveUpStep, Attempting, InStep, Ends, Account, Runs
<1>6. CASE Unavailable(s)
  <2>1. CASE run[s].attempt < attemptLimit(s)
    BY <1>1, <1>2, <1>6, <2>1 DEF Unavailable, Attempting, InStep, Again, attemptLimit, Account, Runs
  <2>2. CASE ~(run[s].attempt < attemptLimit(s))
    BY <1>1, <1>2, <1>6, <2>2 DEF Unavailable, Attempting, InStep, Ends, Account, Runs
  <2> QED BY <2>1, <2>2
<1>7. CASE VerifyPass(s)
  BY <1>1, <1>2, <1>7 DEF VerifyPass, InStep, Ends, Account, Runs
<1>8. CASE VerifyReject(s)
  <2>1. UNCHANGED effects /\ run[s].phase = "verifying"
    BY <1>8 DEF VerifyReject, InStep
  <2>2. CASE Ends(s, "rejected")
    BY <1>1, <1>2, <2>1, <2>2 DEF Ends, Account, Runs
  <2>3. CASE run[s].attempt < attemptLimit(s) /\ Again(s)
    BY <1>1, <1>2, <2>1, <2>3 DEF Again, attemptLimit, Account, Runs
  <2>4. CASE Alternative(s) /\ run[s].attempt < run[s].limit /\ ~(run[s].attempt < attemptLimit(s))
    BY <1>1, <1>2, <2>1, <2>4 DEF Alternative, attemptLimit, Account, Runs
  <2> QED
    BY <1>8, <2>2, <2>3, <2>4 DEF VerifyReject, Verdict
<1> QED
  BY <1>3, <1>4, <1>5, <1>6, <1>7, <1>8 DEF StepAction

\* Every step of the system keeps every account.
LEMMA BoundStep == BoundInv /\ [Next]_vars => BoundInv'
<1> SUFFICES ASSUME BoundInv, [Next]_vars, NEW r \in Steps PROVE Account(r)'
  BY DoneStep, FreshStep DEF BoundInv
<1>1. ASSUME NEW s \in Steps, StepAction(s) PROVE Account(r)'
  <2>1. CASE r = s
    BY <1>1, <2>1, StepKeepsAccount
  <2>2. CASE r # s
    <3>1. UNCHANGED <<run[r], effects[r], maxAttempts>>
      BY <1>1, <2>2, StepActionWorks DEF BoundInv, DoneInv, TypeInv, TypeOK, Works, StepAction,
         Act, Return, GiveUpStep, Unavailable, VerifyPass, VerifyReject
    <3> QED
      BY <3>1 DEF BoundInv, Account
  <2> QED BY <2>1, <2>2
<1>2. ASSUME Quiet PROVE Account(r)'
  BY <1>2 DEF Quiet, BoundInv, Account
<1>3. CASE NextFrontier
  <2>1. UNCHANGED <<effects, maxAttempts>> /\ turn = "looping"
    BY <1>3 DEF NextFrontier
  <2>2. CASE run'[r] = run[r]
    BY <2>1, <2>2 DEF BoundInv, Account
  <2>3. CASE r \in ready_steps /\ run'[r] = [phase |-> "attempting", attempt |-> 1,
                limit |-> StepMaxAttempts, agent |-> "chosen", upstream |-> TRUE]
    <3>1. effects[r] = 0
      BY <2>1, <2>3 DEF BoundInv, Fresh, ready_steps, Account
    <3>2. maxAttempts \in Nat \ {0} /\ StepMaxAttempts \in Nat \ {0}
      BY AttemptAssumption DEF BoundInv, DoneInv, TypeInv, TypeOK
    <3> QED
      BY <2>1, <2>3, <3>1, <3>2 DEF Account
  <2> QED
    BY <1>3, <2>2, <2>3 DEF NextFrontier
<1>4. CASE GatherDone
  BY <1>4 DEF GatherDone, BoundInv, Account
<1>5. CASE Restore
  BY <1>5 DEF Restore, BoundInv, Account
<1> QED
  BY <1>1, <1>2, <1>3, <1>4, <1>5, OthersAreQuiet DEF Next, TurnAction

\* Never an unbounded loop: however often agents fail, are unavailable or are rejected, a
\* step acts on the world at most as often as its attempts allow, and once more through
\* the alternative agent.
THEOREM AttemptsAreBounded == Spec => []AttemptsBounded
<1>1. BoundInv => AttemptsBounded
  <2> SUFFICES ASSUME BoundInv, NEW s \in Steps
               PROVE  /\ run[s].attempt <= maxAttempts
                      /\ effects[s] <= IF maxAttempts < StepMaxAttempts THEN maxAttempts + 1
                                       ELSE StepMaxAttempts
    BY DEF AttemptsBounded
  <2>1. /\ run[s] \in Runs /\ effects[s] \in Nat /\ maxAttempts \in Nat \ {0}
        /\ StepMaxAttempts \in Nat \ {0} /\ Account(s)
    BY AttemptAssumption DEF BoundInv, DoneInv, TypeInv, TypeOK, Runs
  <2> QED
    BY <2>1 DEF Account, Runs
<1> QED
  BY BoundInit, BoundStep, <1>1, PTL DEF Spec

-------------------------------------------------------------------------------
(* Cancelling stops the walk.                                                *)

\* Once the owner has cancelled, a step that has not begun never begins, whatever the
\* steps under way still do.
THEOREM CancelStops == Spec => CancelStopsTheWalk
<1>1. TypeInv /\ [Next]_vars =>
        [cancelled /\ turn' # "restarted" =>
           \A s \in Steps : run[s].phase = "idle" => run'[s].phase = "idle"]_vars
  <2> SUFFICES ASSUME TypeInv, [Next]_vars, cancelled, NEW r \in Steps, run[r].phase = "idle"
               PROVE  run'[r].phase = "idle"
    OBVIOUS
  <2>1. ASSUME NEW s \in Steps, StepAction(s) PROVE run'[r].phase = "idle"
    BY <2>1, StepActionWorks DEF Works
  <2>2. ASSUME Quiet PROVE run'[r].phase = "idle"
    BY <2>2 DEF Quiet
  <2>3. CASE NextFrontier
    BY <2>3 DEF NextFrontier, walkIsOver
  <2>4. CASE GatherDone \/ Restore
    BY <2>4 DEF GatherDone, Restore
  <2> QED
    BY <2>1, <2>2, <2>3, <2>4, OthersAreQuiet DEF Next, TurnAction
<1> QED
  BY TypeInit, TypeStep, <1>1, PTL DEF Spec, CancelStopsTheWalk

-------------------------------------------------------------------------------
(* Completed means all done.                                                 *)

AllDone(st) == \A s \in Steps : st[s] = "COMPLETED"

\* A plan cannot be stuck: if no step is ready and none has failed, all are done,
\* because the first step not done would have all its dependencies done.
LEMMA NothingReadyMeansDone ==
  ASSUME TypeOK, ready_steps = {}, \A s \in Steps : step[s] # "FAILED"
  PROVE  AllDone(step)
<1> DEFINE Left == { s \in Steps : step[s] = "NEW" }
<1>1. CASE Left = {}
  BY <1>1 DEF AllDone, TypeOK
<1>2. CASE Left # {}
  <2>1. PICK m \in Left : \A y \in Left : ~(y < m)
    <3>1. Left \in SUBSET Nat
      BY PlanAssumption DEF Steps
    <3> HIDE DEF Left
    <3> QED BY <1>2, <3>1, Smallest
  <2>2. \A d \in Deps[m] : d \in Steps /\ d < m
    BY PlanAssumption
  <2>3. \A d \in Deps[m] : step[d] = "COMPLETED"
    BY <2>1, <2>2 DEF TypeOK
  <2> QED
    BY <2>1, <2>3 DEF ready_steps
<1> QED BY <1>1, <1>2

\* No step has failed while the walk goes on, or has come to an end that is reported ok.
NoneFailed ==
  /\ turn \in {"idle", "created", "planned", "looping", "gathering", "progress"} =>
       outcome # "failed"
  /\ outcome # "failed" /\ turn \notin Over => \A s \in Steps : step[s] # "FAILED"

\* What is reported done is done, unless the owner has cancelled the task meanwhile.
ReportsDone ==
  /\ turn = "idle" => ~cancelled
  /\ cancelled => status = "CANCELLED"
  /\ turn = "reporting" /\ outcome = "ok" => cancelled \/ AllDone(step)
  /\ turn = "completing" => cancelled \/ AllDone(step)
  /\ status = "COMPLETED" => verified /\ AllDone(step)
  /\ row.status = "COMPLETED" => row.verified /\ AllDone(row.step)

CompletedInv == DoneInv /\ NoneFailed /\ ReportsDone

\* Initially there is nothing to report.
LEMMA CompletedInit == Init => CompletedInv
<1> SUFFICES ASSUME Init PROVE NoneFailed /\ ReportsDone
  BY DoneInit DEF CompletedInv
<1> QED
  BY DEF Init, NoRow, NoneFailed, ReportsDone

\* A failed step ends the walk.
LEMMA NoneFailedStep == CompletedInv /\ [Next]_vars => NoneFailed'
<1> SUFFICES ASSUME CompletedInv, [Next]_vars PROVE NoneFailed'
  OBVIOUS
<1> USE DEF CompletedInv, NoneFailed, Over
<1>1. ASSUME NEW s \in Steps, StepAction(s) PROVE NoneFailed'
  <2>1. Works(s) /\ UNCHANGED outcome
    BY <1>1, StepActionWorks DEF DoneInv, StepAction, Act, Return, GiveUpStep, Unavailable,
       VerifyPass, VerifyReject, stepOnly
  <2> QED
    BY <2>1 DEF Works
<1>2. CASE CreateTask
  BY <1>2 DEF CreateTask, DoneInv, TypeInv, TypeOK
<1>3. CASE Plan
  BY <1>3 DEF Plan, TransitionThen
<1>4. CASE Start
  BY <1>4 DEF Start, TransitionThen
<1>5. CASE NextFrontier
  BY <1>5 DEF NextFrontier
<1>6. CASE GatherDone
  BY <1>6 DEF GatherDone
<1>7. CASE Progress
  BY <1>7 DEF Progress
<1>8. CASE Report
  BY <1>8 DEF Report, TransitionThen
<1>9. CASE Complete
  BY <1>9 DEF Complete, TransitionThen
<1>10. CASE Owner
  BY <1>10 DEF Owner, Cancel, Pause, Resume, ownerKeeps
<1>11. CASE Crash
  BY <1>11 DEF Crash
<1>12. CASE Restore
  BY <1>12 DEF Restore
<1>13. CASE UNCHANGED vars
  BY <1>13 DEF vars
<1> QED
  BY <1>1, <1>2, <1>3, <1>4, <1>5, <1>6, <1>7, <1>8, <1>9, <1>10, <1>11, <1>12, <1>13
  DEF Next, TurnAction

\* A step that was done stays done, until a restart.
LEMMA DoneStaysDone ==
  ASSUME CompletedInv, [Next]_vars, ~Restore, AllDone(step)
  PROVE  AllDone(step')
<1>1. ASSUME NEW s \in Steps, StepAction(s) PROVE AllDone(step')
  BY <1>1, StepActionWorks DEF Works, CompletedInv, DoneInv
<1>2. ASSUME Quiet PROVE AllDone(step')
  BY <1>2 DEF Quiet
<1>3. CASE NextFrontier
  BY <1>3 DEF NextFrontier
<1>4. CASE GatherDone
  BY <1>4 DEF GatherDone, notOk, CompletedInv, DoneInv, DoneWasVerified, AllDone
<1> QED
  BY <1>1, <1>2, <1>3, <1>4, OthersAreQuiet DEF Next, TurnAction

\* The states the turn names, and which of them are terminal.
LEMMA NamedStates ==
  /\ "COMPLETED" \in Terminal /\ "CANCELLED" \in Terminal
  /\ "PLANNING" \in TaskState /\ "RUNNING" \in TaskState /\ "VERIFYING" \in TaskState
  /\ "PAUSED" \in TaskState /\ "FAILED" \in TaskState /\ "COMPLETED" \in TaskState
BY DEF TaskState, Terminal, Waiting

\* A terminal state is left for no other.
LEMMA TerminalIsFinal == \A s \in Terminal, to \in TaskState : Allowed(s, to) => to = s
BY DEF Allowed, TASK_TRANSITIONS, TaskState, Terminal, Waiting

\* A save stores the task as it is after the step.
LEMMA SaveStoresAll ==
  Save => row'.status = status' /\ row'.verified = verified' /\ row'.step = step'
BY DEF Save

\* What the task says is never ahead of what was done.
LEMMA ReportsDoneStep == CompletedInv /\ [Next]_vars => ReportsDone'
<1> SUFFICES ASSUME CompletedInv, [Next]_vars PROVE ReportsDone'
  OBVIOUS
<1>0. ReportsDone /\ (~Restore /\ AllDone(step) => AllDone(step'))
  BY DoneStaysDone DEF CompletedInv
<1>1. ASSUME NEW s \in Steps, StepAction(s) PROVE ReportsDone'
  <2>1. Works(s) /\ UNCHANGED <<status, verified, cancelled, outcome>> /\ (UNCHANGED row \/ Save)
    BY <1>1, StepActionWorks DEF CompletedInv, DoneInv, StepAction, Act, Return, GiveUpStep,
       Unavailable, VerifyPass, VerifyReject, stepOnly
  <2>2. CASE UNCHANGED row
    BY <1>0, <2>1, <2>2 DEF Works, ReportsDone
  <2>3. CASE Save
    BY <1>0, <2>1, <2>3, SaveStoresAll DEF Works, ReportsDone
  <2> QED BY <2>1, <2>2, <2>3
<1>2. CASE CreateTask
  <2>1. status' = "NEW" /\ turn' = "created" /\ UNCHANGED <<cancelled, verified, step>> /\ Save
    BY <1>2 DEF CreateTask, Enter
  <2>2. ~cancelled
    BY <1>0, <1>2 DEF CreateTask, CompletedInv, ReportsDone
  <2> QED BY <2>1, <2>2, SaveStoresAll DEF ReportsDone
<1>3. CASE Plan
  <2>1. /\ UNCHANGED <<cancelled, verified, step, outcome>> /\ Save
        /\ turn' \in {"planned", "raised"}
        /\ UNCHANGED status \/ (status' = "PLANNING" /\ Allowed(status, "PLANNING"))
    BY <1>3 DEF Plan, TransitionThen, Enter
  <2> QED BY <1>0, <2>1, NamedStates, TerminalIsFinal, SaveStoresAll DEF ReportsDone
<1>4. CASE Start
  <2>1. /\ UNCHANGED <<cancelled, verified, step, outcome>> /\ Save
        /\ turn' \in {"looping", "raised"}
        /\ UNCHANGED status \/ (status' = "RUNNING" /\ Allowed(status, "RUNNING"))
    BY <1>4 DEF Start, TransitionThen, Enter
  <2> QED BY <1>0, <2>1, NamedStates, TerminalIsFinal, SaveStoresAll DEF ReportsDone
<1>5. CASE NextFrontier
  BY <1>0, <1>5, NothingReadyMeansDone
  DEF NextFrontier, ReportsDone, CompletedInv, DoneInv, TypeInv, NoneFailed, Over, walkIsOver
<1>6. CASE GatherDone
  <2>1. /\ UNCHANGED <<status, verified, cancelled, row>>
        /\ turn' = "progress" \/ (turn' = "reporting" /\ outcome' = "failed")
    BY <1>6 DEF GatherDone
  <2>2. ~Restore
    BY <1>6 DEF GatherDone, Restore
  <2> QED BY <1>0, <2>1, <2>2 DEF ReportsDone
<1>7. CASE Progress
  <2>1. UNCHANGED <<status, verified, cancelled, step, outcome>> /\ turn' = "looping" /\ Save
    BY <1>7 DEF Progress
  <2> QED BY <1>0, <2>1, SaveStoresAll DEF ReportsDone
<1>8. CASE Report
  <2>1. /\ UNCHANGED <<cancelled, verified, step, outcome>> /\ (UNCHANGED row \/ Save)
        /\ turn = "reporting" /\ turn' \in {"completing", "ended", "raised"}
        /\ turn' = "completing" => outcome = "ok"
        /\ \/ UNCHANGED status
           \/ status' = "VERIFYING" /\ Allowed(status, "VERIFYING")
           \/ status' = "FAILED" /\ Allowed(status, "FAILED")
    BY <1>8 DEF Report, outcomeOk, TransitionThen, Enter
  <2> QED BY <1>0, <2>1, NamedStates, TerminalIsFinal, SaveStoresAll DEF ReportsDone
<1>9. CASE Complete
  <2>1. /\ UNCHANGED <<cancelled, step, outcome>> /\ (UNCHANGED row \/ Save)
        /\ turn = "completing" /\ turn' \in {"ended", "raised"}
        /\ UNCHANGED status \/ (status' = "COMPLETED" /\ Allowed(status, "COMPLETED"))
    BY <1>9 DEF Complete, TransitionThen, Enter
  <2>2. verified'
    BY <1>9 DEF Complete
  <2>3. status' = "COMPLETED" => ~cancelled
    BY <1>0, <2>1, NamedStates, TerminalIsFinal DEF ReportsDone
  <2> QED BY <1>0, <2>1, <2>2, <2>3, SaveStoresAll DEF ReportsDone
<1>10. CASE Owner
  <2>1. /\ UNCHANGED <<verified, step, turn, outcome>> /\ Save
        /\ turn \notin {"idle", "dead"}
        /\ \/ status' = "CANCELLED"
           \/ status' = "PAUSED" /\ Allowed(status, "PAUSED") /\ UNCHANGED cancelled
           \/ status' = "RUNNING" /\ status = "PAUSED" /\ UNCHANGED cancelled
    BY <1>10 DEF Owner, Cancel, Pause, Resume, Enter, ownerKeeps, Allowed
  <2>2. status' = "CANCELLED" => (cancelled => cancelled')
    BY <1>10 DEF Owner, Cancel, Pause, Resume
  <2> QED
    BY <1>0, <2>1, <2>2, NamedStates, TerminalIsFinal, SaveStoresAll DEF ReportsDone
<1>11. CASE Crash
  BY <1>0, <1>11 DEF Crash, ReportsDone
<1>12. CASE Restore
  BY <1>0, <1>12 DEF Restore, Enter, Recovered, ReportsDone
<1>13. CASE UNCHANGED vars
  BY <1>0, <1>13 DEF vars, ReportsDone
<1> QED
  BY <1>1, <1>2, <1>3, <1>4, <1>5, <1>6, <1>7, <1>8, <1>9, <1>10, <1>11, <1>12, <1>13
  DEF Next, TurnAction

\* A task is reported COMPLETED only when every step of its plan is done: the walk never
\* stops early and still looks successful, in whatever order the steps end.
THEOREM CompletedIsAllDone == Spec => []CompletedMeansAllDone
<1>1. CompletedInv /\ [Next]_vars => CompletedInv'
  BY DoneStep, NoneFailedStep, ReportsDoneStep DEF CompletedInv
<1>2. CompletedInv => CompletedMeansAllDone
  BY DEF CompletedInv, ReportsDone, CompletedMeansAllDone, AllDone
<1> QED
  BY CompletedInit, <1>1, <1>2, PTL DEF Spec

-------------------------------------------------------------------------------
(* A turn settles its task.                                                  *)

\* What the task can be while its turn is at each place: what the turn made of it,
\* unless the owner has cancelled it, or paused it while it ran.
Where ==
  /\ turn = "idle" => status = "ABSENT"
  /\ turn = "created" => status \in {"NEW", "CANCELLED"}
  /\ turn = "planned" => status \in {"PLANNING", "CANCELLED"}
  /\ turn \in {"looping", "gathering", "progress", "reporting"} =>
       status \in {"RUNNING", "PAUSED", "CANCELLED"}
  /\ turn = "completing" => status \in {"VERIFYING", "CANCELLED"}

\* Memory and storage hold states the task has been in, and no verification it never had.
Past ==
  /\ turn # "idle" => {status, row.status} \subseteq lived
  /\ row.verified => verified

SettleInv == CompletedInv /\ Where /\ Past /\ TurnSettlesTask

\* The moves the turn and the owner ask for, as the table has them.
LEMMA Moves ==
  /\ Allowed("NEW", "PLANNING") /\ Allowed("PLANNING", "RUNNING")
  /\ Allowed("RUNNING", "VERIFYING") /\ Allowed("VERIFYING", "COMPLETED")
  /\ Allowed("RUNNING", "FAILED") /\ Allowed("PAUSED", "FAILED")
  /\ ~Allowed("PAUSED", "VERIFYING")
  /\ \A s \in TaskState : "PAUSED" \in TASK_TRANSITIONS[s] => s \in {"READY", "RUNNING", "WAITING"}
  /\ {"FAILED", "COMPLETED", "CANCELLED"} = Terminal
BY DEF Allowed, TASK_TRANSITIONS, TaskState, Terminal, Waiting, GiveUp

\* A step of the turn or of the owner that moves the task, or asks for a move in vain.
LEMMA SettleKept ==
  ASSUME SettleInv, [Next]_vars
  PROVE  (Where /\ TurnSettlesTask)' /\ (turn' # "idle" => status' \in lived')
<1>0. Where /\ Past /\ TurnSettlesTask /\ (turn # "idle" => status \in TaskState)
  BY DEF SettleInv, CompletedInv, DoneInv, TypeInv, Started
<1> USE DEF Where, TurnSettlesTask
<1>1. ASSUME NEW s \in Steps, StepAction(s)
      PROVE  (Where /\ TurnSettlesTask)' /\ (turn' # "idle" => status' \in lived')
  <2>1. UNCHANGED <<status, turn, lived>>
    BY <1>1 DEF StepAction, Act, Return, GiveUpStep, Unavailable, VerifyPass, VerifyReject, stepOnly
  <2> QED
    BY <1>0, <2>1 DEF Past
<1>2. CASE CreateTask
  BY <1>2 DEF CreateTask, Enter
<1>3. CASE Plan
  <2>1. /\ turn = "created"
        /\ \/ status' = "PLANNING" /\ lived' = lived \cup {"PLANNING"} /\ turn' = "planned"
           \/ ~Allowed(status, "PLANNING") /\ UNCHANGED <<status, lived>> /\ turn' = "raised"
    BY <1>3 DEF Plan, TransitionThen, Enter
  <2> QED
    BY <1>0, <2>1, Moves DEF Past
<1>4. CASE Start
  <2>1. /\ turn = "planned"
        /\ \/ status' = "RUNNING" /\ lived' = lived \cup {"RUNNING"} /\ turn' = "looping"
           \/ ~Allowed(status, "RUNNING") /\ UNCHANGED <<status, lived>> /\ turn' = "raised"
    BY <1>4 DEF Start, TransitionThen, Enter
  <2> QED
    BY <1>0, <2>1, Moves DEF Past
<1>5. CASE NextFrontier \/ GatherDone \/ Progress
  <2>1. /\ turn \in {"looping", "gathering", "progress"}
        /\ turn' \in {"looping", "gathering", "progress", "reporting"}
        /\ UNCHANGED <<status, lived>>
    BY <1>5 DEF NextFrontier, GatherDone, Progress
  <2> QED
    BY <1>0, <2>1 DEF Past
<1>6. CASE Report
  <2>1. /\ turn = "reporting"
        /\ \/ status' = "VERIFYING" /\ lived' = lived \cup {"VERIFYING"} /\ turn' = "completing"
           \/ status' = "FAILED" /\ lived' = lived \cup {"FAILED"} /\ turn' = "ended"
           \/ /\ ~Allowed(status, "VERIFYING") \/ ~Allowed(status, "FAILED")
              /\ UNCHANGED <<status, lived>> /\ turn' = "raised"
    BY <1>6 DEF Report, TransitionThen, Enter
  <2> QED
    BY <1>0, <2>1, Moves DEF Past
<1>7. CASE Complete
  <2>1. /\ turn = "completing"
        /\ \/ status' = "COMPLETED" /\ lived' = lived \cup {"COMPLETED"} /\ turn' = "ended"
           \/ ~Allowed(status, "COMPLETED") /\ UNCHANGED <<status, lived>> /\ turn' = "raised"
    BY <1>7 DEF Complete, TransitionThen, Enter
  <2> QED
    BY <1>0, <2>1, Moves DEF Past
<1>8. CASE Owner
  <2>1. /\ turn' = turn /\ turn \notin {"idle", "dead"} /\ lived' = lived \cup {status'}
        /\ \/ status' = "CANCELLED" /\ status \notin Terminal
           \/ status' = "PAUSED" /\ status \in {"READY", "RUNNING", "WAITING"}
           \/ status' = "RUNNING" /\ status = "PAUSED"
    BY <1>8, Moves DEF Owner, Cancel, Pause, Resume, Enter, ownerKeeps
  <2> QED
    BY <1>0, <2>1, Moves DEF Past
<1>9. CASE Crash \/ Restore
  BY <1>0, <1>9 DEF Crash, Restore, Enter, Past
<1>10. CASE UNCHANGED vars
  BY <1>0, <1>10 DEF vars, Past
<1> QED
  BY <1>1, <1>2, <1>3, <1>4, <1>5, <1>6, <1>7, <1>8, <1>9, <1>10 DEF Next, TurnAction

\* What is stored is what the task is, or was; what it was is not forgotten.
LEMMA PastKept ==
  ASSUME SettleInv, [Next]_vars
  PROVE  Past'
<1>0. /\ turn' # "idle" => status' \in lived'
      /\ turn # "idle" => row.status \in lived
      /\ row.verified => verified
  BY SettleKept DEF SettleInv, Past
<1>1. CASE ~Restore
  <2>1. lived \subseteq lived' /\ (verified => verified')
    BY <1>1 DEF Next, TurnAction, CreateTask, Plan, Start, NextFrontier, GatherDone, Progress,
       Report, Complete, TransitionThen, Enter, StepAction, Act, Return, GiveUpStep, Unavailable,
       VerifyPass, VerifyReject, stepOnly, Owner, Cancel, Pause, Resume, ownerKeeps, Crash, vars
  <2>2. UNCHANGED row \/ Save
    BY <1>1 DEF Next, TurnAction, CreateTask, Plan, Start, NextFrontier, GatherDone, Progress,
       Report, Complete, StepAction, Act, Return, GiveUpStep, Unavailable,
       VerifyPass, VerifyReject, Owner, Cancel, Pause, Resume, Crash, vars
  <2>3. turn = "idle" => (UNCHANGED <<turn, row>> \/ Save)
    BY <2>2 DEF Next, TurnAction, CreateTask, Plan, Start, NextFrontier, GatherDone, Progress,
       Report, Complete, StepAction, Act, Return, GiveUpStep, Unavailable, Attempting, InStep,
       VerifyPass, VerifyReject, Owner, Crash, Restore, vars
  <2>4. CASE UNCHANGED row
    BY <1>0, <2>1, <2>3, <2>4, SaveStoresAll DEF Past
  <2>5. CASE Save
    BY <1>0, <2>1, <2>5, SaveStoresAll DEF Past
  <2> QED
    BY <2>2, <2>4, <2>5
<1>2. CASE Restore
  BY <1>0, <1>2 DEF Restore, Enter, Past
<1> QED
  BY <1>1, <1>2

\* Initially there is no task to settle.
LEMMA SettleInit == Init => SettleInv
BY CompletedInit DEF Init, NoRow, SettleInv, Where, Past, TurnSettlesTask

\* Every step keeps it.
LEMMA SettleStep == SettleInv /\ [Next]_vars => SettleInv'
<1> SUFFICES ASSUME SettleInv, [Next]_vars PROVE SettleInv'
  OBVIOUS
<1>1. CompletedInv'
  BY DoneStep, NoneFailedStep, ReportsDoneStep DEF SettleInv, CompletedInv
<1> QED
  BY <1>1, SettleKept, PastKept DEF SettleInv

\* However a turn leaves its task, it leaves it settled: a turn that ends has closed it,
\* and a turn whose last move was refused was cancelled, or paused at some time.
THEOREM TaskIsSettled == Spec => []TurnSettlesTask
<1>1. SettleInv => TurnSettlesTask
  BY DEF SettleInv
<1> QED
  BY SettleInit, SettleStep, <1>1, PTL DEF Spec

-------------------------------------------------------------------------------
(* TurnExecution implements TaskLifecycle, for its one task.                 *)

\* The lifecycle speaks of the same states, and of the same table.
LEMMA SameVocabulary ==
  /\ Lifecycle!TaskState = TaskState /\ Lifecycle!Absent = "ABSENT"
  /\ Lifecycle!TASK_TRANSITIONS = TASK_TRANSITIONS
  /\ \A s : Lifecycle!Recovered(s) = Recovered(s)
<1>1. /\ Lifecycle!TaskState = TaskState /\ Lifecycle!Absent = "ABSENT"
      /\ Lifecycle!Waiting = Waiting /\ Lifecycle!GiveUp = GiveUp
      /\ Lifecycle!Terminal = Terminal
  BY DEF Lifecycle!TaskState, TaskState, Lifecycle!Absent, Lifecycle!Waiting, Waiting,
         Lifecycle!GiveUp, GiveUp, Lifecycle!Terminal, Terminal
<1>2. Lifecycle!TASK_TRANSITIONS = TASK_TRANSITIONS
  BY <1>1 DEF Lifecycle!TASK_TRANSITIONS, TASK_TRANSITIONS
<1>3. \A s : Lifecycle!Recovered(s) = Recovered(s)
  BY DEF Lifecycle!Recovered, Recovered
<1> QED
  BY <1>1, <1>2, <1>3

\* What changes neither the state, nor its history, nor the verification is no step of it.
LEMMA Stutters ==
  UNCHANGED <<status, verified, lived>> => UNCHANGED Lifecycle!vars
BY DEF Lifecycle!vars

\* Entering a state of the table is a move of the lifecycle.
LEMMA MoveIsPromised ==
  ASSUME NEW to \in TaskState, Enter(to), UNCHANGED verified,
         status \in TaskState, to \in TASK_TRANSITIONS[status] \ {"INTERRUPTED", "COMPLETED"}
  PROVE  Lifecycle!Next
<1>1. Lifecycle!Enter("turn", to)
  BY DEF Enter, Lifecycle!Enter
<1>2. Lifecycle!Move("turn", to)
  BY <1>1, SameVocabulary DEF Lifecycle!Move
<1> QED
  BY <1>2, SameVocabulary DEF Lifecycle!Next

\* A move the turn asks for is one, or the task stays as it is.
LEMMA TransitionIsPromised ==
  ASSUME NEW to \in TaskState, NEW next, TransitionThen(to, next), UNCHANGED verified,
         status \in TaskState, status \in lived, to \notin {"INTERRUPTED", "COMPLETED"}
  PROVE  Lifecycle!Next \/ UNCHANGED Lifecycle!vars
<1>1. CASE UNCHANGED <<status, lived>>
  BY <1>1, Stutters
<1>2. CASE Enter(to) /\ to = status
  BY <1>2, Stutters DEF Enter
<1>3. CASE Enter(to) /\ to \in TASK_TRANSITIONS[status]
  BY <1>3, MoveIsPromised
<1> QED
  BY <1>1, <1>2, <1>3 DEF TransitionThen, Allowed

\* Every step maps to a step of the lifecycle, or to none.
LEMMA LifecycleStep ==
  SettleInv /\ [Next]_vars => [Lifecycle!Next]_(Lifecycle!vars)
<1> SUFFICES ASSUME SettleInv, [Next]_vars
             PROVE  Lifecycle!Next \/ UNCHANGED Lifecycle!vars
  OBVIOUS
<1>0. /\ turn # "idle" => status \in TaskState /\ status \in lived /\ row.status \in TaskState
      /\ turn # "idle" => row.status \in lived
      /\ row.verified => verified
      /\ row.status = "COMPLETED" => row.verified
      /\ verified \in BOOLEAN /\ row.verified \in BOOLEAN
  BY DEF SettleInv, CompletedInv, DoneInv, TypeInv, TypeOK, Started, Past, ReportsDone
<1>1. CASE CreateTask
  <2>1. /\ [t \in {"turn"} |-> status]["turn"] = "ABSENT" /\ Enter("NEW") /\ UNCHANGED verified
    BY <1>1 DEF CreateTask, SettleInv, Where
  <2>2. Lifecycle!Create("turn")
    BY <2>1, SameVocabulary DEF Lifecycle!Create, Lifecycle!Enter, Enter
  <2> QED
    BY <2>2 DEF Lifecycle!Next
<1>2. CASE Plan \/ Start \/ Report
  <2>1. /\ UNCHANGED verified /\ turn # "idle"
        /\ \/ TransitionThen("PLANNING", "planned") \/ TransitionThen("RUNNING", "looping")
           \/ TransitionThen("VERIFYING", "completing") \/ TransitionThen("FAILED", "ended")
    BY <1>2 DEF Plan, Start, Report
  <2> QED
    BY <1>0, <2>1, NamedStates, TransitionIsPromised
<1>3. CASE Complete
  <2>1. /\ verified' = TRUE /\ status \in {"VERIFYING", "CANCELLED"}
        /\ \/ Enter("COMPLETED") /\ Allowed(status, "COMPLETED")
           \/ UNCHANGED <<status, lived>> /\ ~Allowed(status, "COMPLETED")
    BY <1>3 DEF Complete, TransitionThen, SettleInv, Where
  <2>2. CASE status = "VERIFYING"
    <3>1. Enter("COMPLETED")
      BY <2>1, <2>2, Moves
    <3>2. Lifecycle!Accept("turn")
      BY <2>1, <2>2, <3>1 DEF Lifecycle!Accept, Lifecycle!Enter, Enter
    <3> QED
      BY <3>2 DEF Lifecycle!Next
  <2>3. CASE status = "CANCELLED"
    <3>1. UNCHANGED <<status, lived>>
      BY <2>1, <2>3, NamedStates, TerminalIsFinal
    <3>2. Lifecycle!AttachLate("turn")
      BY <2>1, <2>3, <3>1 DEF Lifecycle!AttachLate
    <3> QED
      BY <3>2 DEF Lifecycle!Next
  <2> QED
    BY <2>1, <2>2, <2>3
<1>4. CASE Owner
  <2>1. /\ turn # "idle" /\ UNCHANGED verified
        /\ \E to \in {"CANCELLED", "PAUSED", "RUNNING"} :
             Enter(to) /\ to \in TASK_TRANSITIONS[status]
    BY <1>4 DEF Owner, Cancel, Pause, Resume, ownerKeeps, TASK_TRANSITIONS, TaskState, Waiting,
       Terminal, GiveUp
  <2> QED
    BY <1>0, <2>1, StatesNamed, MoveIsPromised
<1>5. CASE Restore
  <2> DEFINE loaded == [t \in {"turn"} |-> row.status]
  <2>1. /\ Enter(Recovered(row.status)) /\ verified' = row.verified /\ turn # "idle"
    BY <1>5 DEF Restore
  <2>2. /\ loaded \in [{"turn"} -> TaskState \cup {"ABSENT"}]
        /\ \A t \in {"turn"} : loaded[t] \in [x \in {"turn"} |-> lived][t]
    BY <1>0, <2>1
  <2>3. row.status # "ABSENT"
    BY <1>0, <2>1 DEF TaskState, Waiting, Terminal
  <2>4. [t \in {"turn"} |-> status'] =
          [t \in {"turn"} |-> IF loaded[t] = "ABSENT" THEN "ABSENT" ELSE Recovered(loaded[t])]
    BY <2>1, <2>3 DEF Enter
  <2>5. [t \in {"turn"} |-> lived'] =
          [t \in {"turn"} |-> IF loaded[t] = "ABSENT" THEN {}
                              ELSE [x \in {"turn"} |-> lived][t]
                                     \cup {[x \in {"turn"} |-> status'][t]}]
    BY <2>1, <2>3 DEF Enter
  <2>6. /\ (IF verified' THEN {"turn"} ELSE {}) \in SUBSET (IF verified THEN {"turn"} ELSE {})
        /\ \A t \in {"turn"} : [x \in {"turn"} |-> status'][t] = "COMPLETED" =>
             t \in (IF verified' THEN {"turn"} ELSE {})
    BY <1>0, <2>1 DEF Enter, Recovered
  <2> HIDE DEF loaded
  <2>7. Lifecycle!Restart
    BY <2>2, <2>4, <2>5, <2>6, SameVocabulary DEF Lifecycle!Restart
  <2> QED
    BY <2>7 DEF Lifecycle!Next
<1>6. ASSUME NEW s \in Steps, StepAction(s) PROVE UNCHANGED Lifecycle!vars
  BY <1>6, Stutters DEF StepAction, Act, Return, GiveUpStep, Unavailable, VerifyPass, VerifyReject,
     stepOnly
<1>7. CASE NextFrontier \/ GatherDone \/ Progress \/ Crash \/ UNCHANGED vars
  BY <1>7, Stutters DEF NextFrontier, GatherDone, Progress, Crash, vars
<1> QED
  BY <1>1, <1>2, <1>3, <1>4, <1>5, <1>6, <1>7 DEF Next, TurnAction

\* Whatever its agents, its owner and a crash do, a turn moves its task along the table,
\* has COMPLETED verified, and a restart loads a state the task has been in.
THEOREM TurnImplementsLifecycle == Spec => ImplementsLifecycle
<1>1. Init => Lifecycle!Init
  BY SameVocabulary DEF Init, Lifecycle!Init
<1> QED
  BY <1>1, SettleInit, SettleStep, LifecycleStep, PTL DEF Spec, ImplementsLifecycle, Lifecycle!Spec
===============================================================================
