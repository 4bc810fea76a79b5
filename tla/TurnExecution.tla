---------------------------- MODULE TurnExecution ----------------------------
(***************************************************************************)
(* One turn that carries a plan: ThursdayCore.handle_turn creating a task, *)
(* AgentOrchestrator.run walking the DAG, _run_step retrying under the     *)
(* Supervisor, and _report closing the task; with the owner pausing,       *)
(* resuming and cancelling at any await, and the process dying at any      *)
(* point and loading the row it kept.                                      *)
(*                                                                         *)
(* An action is the code between two awaits.  A save lands with the change *)
(* it persists (TaskControl is the module where saves are late or fail).   *)
(* Steps are numbered by PlanStep.seq, and a plan's dependencies point     *)
(* backwards, as every planner in the code builds them.                    *)
(***************************************************************************)
EXTENDS Integers, FiniteSets, TaskStates

CONSTANTS
  NSteps,           \* steps in the plan
  Deps,             \* [Steps -> SUBSET Steps]: PlanStep.depends_on
  StepMaxAttempts,  \* PlanStep.max_attempts, 2 unless a plan says otherwise
  AttemptSettings   \* the values the setting max_step_attempts may have

Steps == 1..NSteps

ASSUME PlanAssumption ==
  /\ NSteps \in Nat \ {0}
  /\ Deps \in [Steps -> SUBSET Steps]
  /\ \A s \in Steps : \A d \in Deps[s] : d < s
ASSUME AttemptAssumption ==
  /\ StepMaxAttempts \in Nat \ {0}
  /\ AttemptSettings \subseteq Nat \ {0}
  /\ AttemptSettings # {}

VARIABLES
  status,       \* Task.status in memory
  verified,     \* the task carries a result and its verification report
  cancelled,    \* the task is in TaskManager._cancelled
  step,         \* [Steps -> PlanStep.status]
  turn,         \* where the coroutine of handle_turn is suspended
  frontier,     \* the steps the current gather runs
  run,          \* [Steps -> the locals of _run_step]
  outcome,      \* ExecutionOutcome.outcomes: "none" | "ok" | "failed"
  maxAttempts,  \* AgentOrchestrator._max_attempts, from the settings
  row,          \* the stored task
  effects,      \* [Steps -> times an attempt has acted on the world]
  lived         \* history: every state the task has been in

control == <<turn, frontier, run, outcome, maxAttempts>>
vars == <<status, verified, cancelled, step, turn, frontier, run, outcome, maxAttempts,
          row, effects, lived>>

NoRow == [status |-> "ABSENT", verified |-> FALSE, step |-> [s \in Steps |-> "NEW"]]
IdleRun == [phase |-> "idle", attempt |-> 0, limit |-> 0, agent |-> "chosen", upstream |-> TRUE]

\* How a call of _run_step ends; "passed" is StepOutcome.ok.
Endings == {"passed", "rejected", "refused", "unavailable", "raised"}

Init ==
  /\ status = "ABSENT" /\ verified = FALSE /\ cancelled = FALSE
  /\ step = [s \in Steps |-> "NEW"]
  /\ turn = "idle" /\ frontier = {} /\ outcome = "none"
  /\ run = [s \in Steps |-> IdleRun]
  /\ maxAttempts \in AttemptSettings
  /\ row = NoRow
  /\ effects = [s \in Steps |-> 0]
  /\ lived = {}

-------------------------------------------------------------------------------
(* TaskManager as the turn uses it.                                         *)

\* _save: the whole task, plan included, is written as it is now.
Save == row' = [status |-> status', verified |-> verified', step |-> step']

Enter(to) == status' = to /\ lived' = lived \cup {to}

TransitionThen_Swallowed(to, next) ==
  IF Allowed(status, to)
  THEN Enter(to) /\ turn' = next
  ELSE UNCHANGED <<status, lived>> /\ turn' = next

\* transition(): taken when the table allows it, otherwise InvalidTransition
\* leaves everything as it was and, uncaught, ends the turn.
TransitionThen(to, next) ==
  IF Allowed(status, to)
  THEN Enter(to) /\ turn' = next
  ELSE UNCHANGED <<status, lived>> /\ turn' = "raised"

-------------------------------------------------------------------------------
(* handle_turn, AgentOrchestrator.run and _report.                           *)

ready_steps_Unordered == { s \in Steps : step[s] = "NEW" }

\* Plan.ready_steps: the frontier of the DAG.
ready_steps == { s \in Steps : step[s] = "NEW" /\ \A d \in Deps[s] : step[d] = "COMPLETED" }

CreateTask ==
  /\ turn = "idle"
  /\ Enter("NEW") /\ turn' = "created"
  /\ UNCHANGED <<verified, cancelled, step, frontier, run, outcome, maxAttempts, effects>>
  /\ Save

Plan ==
  /\ turn = "created"
  /\ TransitionThen("PLANNING", "planned")
  /\ UNCHANGED <<verified, cancelled, step, frontier, run, outcome, maxAttempts, effects>>
  /\ Save

\* run(): set_plan is saved whatever the state, then the move to RUNNING is asked for.
Start ==
  /\ turn = "planned"
  /\ TransitionThen("RUNNING", "looping")
  /\ UNCHANGED <<verified, cancelled, step, frontier, run, outcome, maxAttempts, effects>>
  /\ Save

walkIsOver_NotCancelled == ready_steps = {}

walkIsOver == ready_steps = {} \/ cancelled

NextFrontier ==
  /\ turn = "looping"
  /\ IF walkIsOver
     THEN turn' = "reporting" /\ UNCHANGED <<frontier, run>>
     ELSE /\ turn' = "gathering"
          /\ frontier' = ready_steps
          /\ run' = [s \in Steps |-> IF s \in ready_steps
                       THEN [phase |-> "attempting", attempt |-> 1, limit |-> StepMaxAttempts,
                             agent |-> "chosen", upstream |-> TRUE]
                       ELSE run[s]]
  /\ UNCHANGED <<status, verified, cancelled, step, outcome, maxAttempts, row, effects,
                 lived>>

notOk_OnlyErrors == { s \in frontier : run[s].phase = "raised" }

\* StepOutcome.ok is false: an error, no result, or a verification that did not pass.
notOk == { s \in frontier : run[s].phase # "passed" }

\* The results are read in plan order: the first that is not ok is marked FAILED
\* and ends the walk, and the results behind it are never looked at.
GatherDone ==
  /\ turn = "gathering"
  /\ \A s \in frontier : run[s].phase \in Endings
  /\ step' = [s \in Steps |->
                IF s \in frontier /\ \A b \in notOk : s < b THEN "COMPLETED"
                ELSE IF s \in notOk /\ \A b \in notOk : s <= b THEN "FAILED"
                ELSE step[s]]
  /\ outcome' = IF notOk = {} THEN "ok" ELSE "failed"
  /\ turn' = IF notOk = {} THEN "progress" ELSE "reporting"
  /\ frontier' = {}
  /\ UNCHANGED <<status, verified, cancelled, run, maxAttempts, row, effects, lived>>

\* update_progress: the only save that carries the new step states.
Progress ==
  /\ turn = "progress"
  /\ turn' = "looping"
  /\ UNCHANGED <<status, verified, cancelled, step, frontier, run, outcome, maxAttempts, effects,
                 lived>>
  /\ Save

outcomeOk_AnyStep == outcome \in {"ok", "failed"}

\* ExecutionOutcome.ok: at least one outcome, and every one of them ok.
outcomeOk == outcome = "ok"

\* _report: every outcome so far ok (and at least one) means VERIFYING, else fail().
Report ==
  /\ turn = "reporting"
  /\ IF outcomeOk THEN TransitionThen("VERIFYING", "completing")
                  ELSE TransitionThen("FAILED", "ended")
  /\ UNCHANGED <<verified, cancelled, step, frontier, run, outcome, maxAttempts, effects>>
  /\ IF turn' = "raised" THEN UNCHANGED row ELSE Save

\* complete(): result and verification are assigned before the move is asked for.
Complete ==
  /\ turn = "completing"
  /\ verified' = TRUE
  /\ TransitionThen("COMPLETED", "ended")
  /\ UNCHANGED <<cancelled, step, frontier, run, outcome, maxAttempts, effects>>
  /\ IF turn' = "raised" THEN UNCHANGED row ELSE Save

-------------------------------------------------------------------------------
(* _run_step, one coroutine per step of the frontier.                        *)

\* range(1, min(step.max_attempts, self._max_attempts) + 1)
attemptLimit(s) == IF run[s].limit < maxAttempts THEN run[s].limit ELSE maxAttempts

InStep(s, phase) == turn = "gathering" /\ s \in frontier /\ run[s].phase = phase

Ends(s, how) == run' = [run EXCEPT ![s].phase = how]

Again_Uncounted(s) == run' = [run EXCEPT ![s].phase = "attempting"]

Again(s) == run' = [run EXCEPT ![s].phase = "attempting", ![s].attempt = @ + 1]

stepOnly == <<status, verified, cancelled, step, turn, frontier, outcome, maxAttempts,
              lived>>

\* The agent's tool runs: the world changes before the agent has returned.
Act(s) ==
  /\ InStep(s, "attempting")
  /\ effects' = [effects EXCEPT ![s] = @ + 1]
  /\ run' = [run EXCEPT ![s].phase = "acted"]
  /\ UNCHANGED stepOnly /\ UNCHANGED row

Attempting(s) == InStep(s, "attempting") \/ InStep(s, "acted")

\* The agent returns and its spend is charged; a breach raises out of _run_step.
Return(s) ==
  /\ Attempting(s)
  /\ \/ run' = [run EXCEPT ![s].phase = "verifying"]
     \/ Ends(s, "raised")
  /\ UNCHANGED stepOnly /\ UNCHANGED effects
  /\ Save

\* PermissionDenied and BudgetExceeded are answers, anything else raises: no retry.
GiveUpStep(s) ==
  /\ Attempting(s)
  /\ \E how \in {"refused", "raised"} : Ends(s, how)
  /\ UNCHANGED stepOnly /\ UNCHANGED <<effects, row>>

\* DeviceUnavailable and the deadline of the attempt: try again while attempts remain.
Unavailable(s) ==
  /\ Attempting(s)
  /\ IF run[s].attempt < attemptLimit(s) THEN Again(s) ELSE Ends(s, "unavailable")
  /\ UNCHANGED stepOnly /\ UNCHANGED <<effects, row>>

VerifyPass(s) ==
  /\ InStep(s, "verifying")
  /\ Ends(s, "passed")
  /\ UNCHANGED stepOnly /\ UNCHANGED <<effects, row>>

\* Supervisor.verify: RETRY only when every blocking check is recoverable and this
\* is not the last attempt the step is allowed; otherwise ESCALATE.
Verdict(s, recoverable) ==
  IF recoverable /\ run[s].attempt < run[s].limit THEN "RETRY" ELSE "ESCALATE"

\* The alternative agent starts over with one attempt, called without `upstream`.
Alternative(s) ==
  run' = [run EXCEPT ![s] = [phase |-> "attempting", attempt |-> 1, limit |-> 1,
                             agent |-> "alternative", upstream |-> FALSE]]

VerifyReject(s) ==
  /\ InStep(s, "verifying")
  /\ \E recoverable \in BOOLEAN :
       IF Verdict(s, recoverable) = "ESCALATE" THEN Ends(s, "rejected")
       ELSE IF run[s].attempt < attemptLimit(s) THEN Again(s)
       ELSE Alternative(s) \/ Ends(s, "rejected")   \* no other agent covers the step
  /\ UNCHANGED stepOnly /\ UNCHANGED <<effects, row>>

-------------------------------------------------------------------------------
(* The owner: routers/tasks.py.                                              *)

ownerKeeps == <<verified, step, turn, frontier, run, outcome, maxAttempts, effects>>

Cancel ==
  /\ status \in TaskState \ Terminal
  /\ cancelled' = TRUE /\ Enter("CANCELLED")
  /\ UNCHANGED ownerKeeps
  /\ Save

Pause ==
  /\ status \in TaskState /\ "PAUSED" \in TASK_TRANSITIONS[status]
  /\ Enter("PAUSED")
  /\ UNCHANGED ownerKeeps /\ UNCHANGED cancelled
  /\ Save

\* A task can only have been paused after it started, so resume() always picks RUNNING.
Resume ==
  /\ status = "PAUSED"
  /\ Enter("RUNNING")
  /\ UNCHANGED ownerKeeps /\ UNCHANGED cancelled
  /\ Save

-------------------------------------------------------------------------------
(* The process dies and starts again: TaskManager.restore.  `frontier` and   *)
(* `run` die with it; they are kept here as the record of where it died.     *)

inFlight == { s \in frontier : run[s].phase \notin Endings }

Crash ==
  /\ turn \notin {"idle", "dead", "restarted"}
  /\ turn' = "dead"
  /\ UNCHANGED <<status, verified, cancelled, step, frontier, run, outcome, maxAttempts,
                 row, effects, lived>>

Restore ==
  /\ turn = "dead"
  /\ turn' = "restarted"
  /\ Enter(Recovered(row.status))
  /\ verified' = row.verified /\ step' = row.step
  /\ cancelled' = FALSE /\ outcome' = "none"
  /\ UNCHANGED <<frontier, run, maxAttempts, row, effects>>

StepAction(s) ==
  \/ Act(s) \/ Return(s) \/ GiveUpStep(s) \/ Unavailable(s) \/ VerifyPass(s) \/ VerifyReject(s)

TurnAction ==
  \/ CreateTask \/ Plan \/ Start \/ NextFrontier \/ GatherDone \/ Progress \/ Report \/ Complete

Owner == turn \notin {"idle", "dead"} /\ (Cancel \/ Pause \/ Resume)

Next ==
  \/ TurnAction
  \/ \E s \in Steps : StepAction(s)
  \/ Owner
  \/ Crash
  \/ Restore

Spec == Init /\ [][Next]_vars

\* The event loop runs every coroutine that is not suspended for ever: an agent is
\* bounded by its deadline (wait_for), and every other await of the turn is a save,
\* a model call with its own timeout, or a publication.
Fairness ==
  /\ WF_vars(TurnAction)
  /\ \A s \in Steps : WF_vars(Return(s) \/ GiveUpStep(s) \/ Unavailable(s)
                              \/ VerifyPass(s) \/ VerifyReject(s))

FairSpec == Spec /\ Fairness

-------------------------------------------------------------------------------
(* What a restart tells the owner: resumption.analyse.                        *)

\* Only a step whose status is RUNNING is "unknown"; anything not done is "not started".
StepVerdict(s) ==
  CASE step[s] = "COMPLETED" -> "done"
    [] step[s] = "RUNNING"   -> "unknown"
    [] OTHER                 -> "not started"

-------------------------------------------------------------------------------
(* Properties.                                                                *)

TypeOK ==
  /\ status \in TaskState \cup {"ABSENT"}
  /\ verified \in BOOLEAN /\ cancelled \in BOOLEAN
  /\ step \in [Steps -> {"NEW", "COMPLETED", "FAILED"}]
  /\ turn \in {"idle", "created", "planned", "looping", "gathering", "progress", "reporting",
               "completing", "ended", "raised", "dead", "restarted"}
  /\ frontier \in SUBSET Steps
  /\ run \in [Steps -> [phase : {"idle", "attempting", "acted", "verifying"} \cup Endings,
                        attempt : Nat, limit : Nat, agent : {"chosen", "alternative"},
                        upstream : BOOLEAN]]
  /\ outcome \in {"none", "ok", "failed"}
  /\ maxAttempts \in AttemptSettings
  /\ row \in [status : TaskState \cup {"ABSENT"}, verified : BOOLEAN,
              step : [Steps -> {"NEW", "COMPLETED", "FAILED"}]]
  /\ effects \in [Steps -> Nat]
  /\ lived \in SUBSET TaskState

\* An agent works on a step only when every step it depends on has been completed
\* by a result the Supervisor passed, in this process or before a crash.
DependenciesFirst ==
  \A s \in Steps : run[s].phase # "idle" =>
    \A d \in Deps[s] : step[d] = "COMPLETED" \/ turn \in {"dead", "restarted"}

\* Nothing counts before it is verified: a step is COMPLETED, in memory or in the row
\* a restart reads, only if its last attempt was passed by the Supervisor.
DoneWasVerified ==
  \A s \in Steps : "COMPLETED" \in {step[s], row.step[s]} => run[s].phase = "passed"

\* A task is reported COMPLETED only when every step of its plan is, not merely every
\* step that was reached: the walk must not stop early and still look successful.
CompletedMeansAllDone ==
  status = "COMPLETED" => verified /\ \A s \in Steps : step[s] = "COMPLETED"

\* Never an unbounded loop (par. 96): a step acts on the world at most once per attempt
\* it is allowed, and once more through the alternative agent, which is reached only
\* when the setting stops the retries before the step's own bound does.
AttemptsBounded ==
  \A s \in Steps :
    /\ run[s].attempt <= maxAttempts
    /\ effects[s] <= IF maxAttempts < StepMaxAttempts THEN maxAttempts + 1 ELSE StepMaxAttempts

\* Cancelling stops the walk at the frontier: a step that has not begun never begins.
CancelStopsTheWalk ==
  [][cancelled /\ turn' # "restarted" =>
       \A s \in Steps : run[s].phase = "idle" => run'[s].phase = "idle"]_vars

\* However a turn leaves its task, it leaves it settled: a turn that ends has closed
\* it, and a turn whose last move was refused was cancelled, or paused at some time.
TurnSettlesTask ==
  /\ turn = "ended" => status \in Terminal
  /\ turn = "raised" => status = "CANCELLED" \/ "PAUSED" \in lived

\* A task that nothing drives is not shown as RUNNING unless the owner has paused it.
UndrivenOnlyAfterPause ==
  status = "RUNNING" /\ turn \in {"ended", "raised", "restarted"} => "PAUSED" \in lived

\* Every turn that begins comes to an end, whatever its agents and the owner do.
TurnEnds == turn = "created" ~> turn \in {"ended", "raised", "dead", "restarted"}

\* The turn implements the lifecycle TaskManager promises.
Lifecycle == INSTANCE TaskLifecycle WITH
  Tasks    <- {"turn"},
  status   <- [t \in {"turn"} |-> status],
  accepted <- IF verified THEN {"turn"} ELSE {},
  lived    <- [t \in {"turn"} |-> lived]
ImplementsLifecycle == Lifecycle!Spec

-------------------------------------------------------------------------------
(* What the documentation says of the turn, and the code does not do.         *)

\* A paused task resumes where it stopped (tasks.py), so while it is paused no step
\* begins.
PausedTaskStartsNothing ==
  [][status = "PAUSED" => \A s \in Steps : run[s].phase = "idle" => run'[s].phase = "idle"]_vars

\* A task that looks alive with nothing driving it does not exist (ADR 0039).
RunningIsDriven == status = "RUNNING" => turn \notin {"ended", "raised", "restarted"}

\* A step that was running when the process died is reported unknown (resumption.py).
InterruptedStepIsUnknown ==
  turn = "restarted" /\ status = "INTERRUPTED" =>
    \A s \in inFlight : StepVerdict(s) = "unknown"

\* Every attempt at a step carries what its dependencies produced (docs/21).
EveryAttemptIsInformed ==
  \A s \in Steps : run[s].phase = "attempting" => run[s].upstream

\* An effect on the world is not silently repeated by a retry (par. 194).
EffectIsNotRepeated == \A s \in Steps : effects[s] <= 1
===============================================================================
