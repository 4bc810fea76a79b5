# Verification of Thursday

TLA+ models of Thursday, a personal assistant that plans tasks, runs tools on the owner's
machines through small node programs, and asks before it does anything that matters.  The
modules are written from the code under `src/`; `PROJECT.json` maps every definition to the
lines it stands for, lists the runs, the theorems, the hazards the properties are aimed at
and two places where code and documentation disagree (section 6 has the others).

The core is asyncio Python in one process.  Between two `await`s a handler runs alone;
at every `await` everybody else runs.  That is the grain of all the modules: **an action is
the code between two awaits**, and what a suspended handler still holds in its locals is
state of the model.

Run things from this directory:

    tlc -workers 2 -config TurnExecution.cfg MCTurnExecution.tla
    tlapm TurnExecution_proofs.tla

Contents: 1 the system, 2 the modules, 3 the runs, 4 the theorems, 5 the hazards, 6 where
code and documentation disagree, 7 what is not modelled, 8 the plan.

## 1. The system

### 1.1 How the parts interact

A turn (`handle_turn`) creates a task and asks the orchestrator to walk its plan; each step
runs an agent; an agent asks the model router for words and calls tools through
`ToolExecutor`; a tool may dispatch a device action through `DeviceHub`, whose other end is a
node application on the owner's machine; what it changed there may be recorded in the undo
registry.  Every part publishes on the event bus, which awaits its subscribers inline:
automation rules, the audit trail, the gateway that pushes to the client.  The owner reaches
the same objects through the API routers, the realtime channel and the voice loop while all
of that is suspended.  Tasks, memories, audit entries and models are written through to
storage on every change; rules, approvals, sessions, lessons and undo records live in memory
only.  A second process, the worker, runs the periodic jobs over a container of its own.

### 1.2 The parts, their state and what is hard about them

| Part | State it keeps | Operations | What is hard | Module |
|---|---|---|---|---|
| `core/tasks.py`, `core/persistence.py` | the dict of tasks, the cancelled ids; one row per task | create, transition, complete, fail, pause, resume, cancel, charge, restore | memory changes before the save; saves overlap, overtake and fail; restart loads the rows | TaskStates, TaskLifecycle, TaskControl |
| `core/engine.py`, `orchestrator.py`, `supervisor.py`, `resumption.py` | the plan's steps, the frontier being gathered, each attempt, the outcomes | handle_turn, run, `_run_step`, verify, `_report`, analyse | steps run together; retries, timeouts; pause and cancel; a crash between an effect and its record | TurnExecution |
| `engine._handle_stop`, `Container.emergency_stop`, `start` | the loop's snapshot, the lockdown | stop, emergency stop, release, restart | a loop over a stale list, with a save per iteration that may fail | TaskControl |
| `engine.py` between turns, `approvals.py`, `offers.py` | open questions, offers, what the session remembers | speak, answer, remember, suppress | "yes" is matched with a question when it has been understood, and by then others ask too | Conversation |
| `core/execution.py`, `security/permissions.py`, `policy.py`, `remote.py`, `approvals.py` | a call's verdict and approval, grants, autonomy, lockdown | execute, decide, wait_for, answer, grant | verdict before a wait of minutes and used after; timer against answer; grants that answer for the wrong call | ToolExecution |
| `devices/hub.py`, `routers/devices.py`, `apps/node` | sessions and devices by id, pending futures, each connection's handler | HELLO, register, dispatch, deliver, unregister, rotate, revoke, enrol | two connections of one device overlap; every unregister awaits in the middle; late results | DeviceHub |
| `security/pairing.py`, `credentials.py`, `device_auth.py` | pending codes, failures, keys in memory and on file | start, confirm, rotate, revoke | lost replies, failed saves, expiry, and three processes that may each die | PairingCodes, DeviceKeys |
| `security/pinning.py`, `handover.py` | the core's key, the chain of statements, a node's pin | publish, install, follow | statements missing, late or for another path | CoreKey |
| `security/identity.py`, `presence.py`, `gate.py` | the last reading, the session and what it is worth | observe, apply, sign in, admit | what was asserted of one person must not serve the next | OwnerPresence |
| `vision/camera.py` | grant, state, open source | grant, capture, revoke, sweep | each awaits the hardware | CameraConsent |
| `voice/service.py`, `state.py`, `barge_in.py` | one state machine, one speech task | listen, handle audio, speak, interrupt | an interruption finds turns suspended that move the machine afterwards | VoiceLoop |
| `realtime/gateway.py`, `useRealtime.ts` | outbox, expression feed, two coroutines per socket | receive, pump, express, reconnect | one bounded queue with two writers, and one of them bypasses it | RealtimeGateway |
| `learning.py`, `lessons.py`, `tips.py` | what the owner knows, lessons under way | start, attempt, skip, tip, dismiss, reset | attempts overlap and await a check | Learning |
| `WorkflowBuilder.tsx`, `automation/workflow.py` | the graph, the verdict on it, the rules | edit, preview, save, open, enable, delete | answers late or lost; a verdict on an older graph | Canvas |
| `automation/engine.py`, `rules.py`, `core/bus.py` | rules by id, the minute each was last served, the gate's notifications | draw, edit, enable, remove, run, sweep, on_event | a publisher waits for every rule its event fires, and those publish in turn | AutomationEngine |
| `apps/worker`, `worker/jobs.py` | two containers over one database | draw, enable, remember, boot, sweep | what the jobs are for is in the other process | PeriodicJobs |
| `core/distributed.py`, `compute_*.py`, `capacity.py` | stages, chains of targets, semaphores | run, route, execute, set limit | a limit set while slots are held; machines that go away | DistributedWork |
| `core/model_router.py`, `cost.py`, `recovery.py`, `repairs.py` | breakers, ledger, repair attempts | complete, trip, prune, repair | calls under way meet a breaker, a cap and a repair that moved | ModelRouter, SelfRecovery |
| `core/model_registry.py` | models by machine, the table, the owner's corrections | report, observe, offline, correct, record | a save per model, so reports overlap | ModelRegistry |
| `security/audit.py` | the chain, the table, the backup's copy | record, verify, restart, restore | the chain is extended before the row is stored | AuditTrail |
| `core/backup.py`, `updates.py` | archives, versions, what components hold | create, verify, restore, update | damaged disks, other builds, an installer that fails | Backups |
| `core/undo.py`, the executor's file handlers | inverses, the quarantine | act, undo, expire | the executor is awaited before the record is removed | UndoRegistry |
| `media/plan.py`, `tools.py`, `ffmpeg.py` | files, checkpoint | render, cancel, undo | a crash or a cancel halfway; changed plans | MediaRender |
| `memory/manager.py`, `policy.py` | index, table, conflicts, pending | write, supersede, forget, resolve, suppress | awaits between index and table | MemoryManager |
| `automation/skills` | skills, versions, sandbox runs | propose, test, approve, activate, roll back | testing awaits, and one status stands for all versions | SkillLifecycle |
| `trading/backtest.py`, `broker.py`, `risk.py` | bars, position, account, limits | a bar: stop out, fill, mark, ask | gaps, and a halt that outlives the run | PaperTrading |

What makes each part correct, in a line:

* a task's state is a true statement about what happened and about who drives it; a stop
  stops, and is answered;
* a step runs after what it depends on, counts only when verified, and stops being tried;
* a tool that must be asked about runs on the owner's answer to that very call, and the
  trail tells what happened;
* the session the hub dispatches to is the current device with the current key; a revocation
  is final, a rotation never costs an identity;
* a session, a grant, a look or a suppression is worth what the owner gave, no more and no
  longer;
* a rule runs when it should, only if armed, and does what was drawn;
* what was recorded, remembered, corrected, backed up or rendered is what is found later,
  over restarts; what was forgotten or taken back is gone;
* work is placed where it may run, and a failing model is held and let in again.

## 2. The modules

**TaskStates** is `TaskState` and `TASK_TRANSITIONS` (`shared/enums.py`), the guard of
`TaskManager.transition`, and what `restore` makes of a stored state.

**TaskLifecycle** is the abstract specification: what the task system promises with nothing
said about plans, callers or writes.  A live task moves along the table; COMPLETED needs an
accepted verification; a restart loads a state the task has really been in, with RUNNING read
as INTERRUPTED.

**TurnExecution** is one turn that carries a plan.  `turn` is where `handle_turn` is
suspended, `run[s]` the locals of `_run_step` for step *s*, `frontier` what the current
`gather` runs, `row` what storage holds.  The actions `CreateTask`, `Plan`, `Start`,
`NextFrontier`, `GatherDone`, `Progress`, `Report`, `Complete` are the stretches of
`handle_turn`, `run` and `_report`; `Act`, `Return`, `GiveUpStep`, `Unavailable`,
`VerifyPass`, `VerifyReject` are one attempt at a step; `Cancel`, `Pause`, `Resume` the
owner; `Crash` and `Restore` the process.  `lived` and `effects` are history variables.
`Lifecycle == INSTANCE TaskLifecycle WITH ...` is the refinement.

**TaskControl** is `TaskManager` with all its callers over slow storage.  `write[c]` is the
`put` under way for caller *c*: `ReadRow` is the select, `WriteLands` the merge and commit of
the columns that differ from what was read, `WriteFails` the exception.  What a turn does
inside RUNNING is one action here (`Turn`); the two stops are their loops, one iteration per
action (`BeginStop`, `CancelNext`, `Cancelled`).  The emergency stop then goes through the
sessions there were (`DisconnectNext`, each with awaits of its own, or `DisconnectFails`)
and sets the lockdown (`SetLockdown`).  Nodes dial in and hang up all the while (`Dial`,
`HangUp`): `device_socket` does not look at the lockdown.  `uncut` is what is left of the
loop's list, and `older` the sessions it found that are still there (history).  It refines
TaskLifecycle too.

**ToolExecution** is `ToolExecutor.execute` for several calls at once.  `at[c]` is where the
call is suspended; `decide` is `PermissionEngine._decide` with its rules in their order;
`Answer`/`Delivered` are `ApprovalService.decide` before and after its announcement,
`TimePasses`, `Timeout`, `Woken` and `ListPending` the timer, the waiter and the listing that
expires; `CutShort` is the agent's deadline cancelling the coroutine.  A grant is kept with
the pattern `_scope_glob` narrowed it to, and covers the requests whose resource falls under
it (`covering`).  A request from another machine is confirmed at MODIFY and above, and when
CONFIRM_WHEN_REMOTE names its action (`remoteConfirm`); which calls are made is chosen from
`Requests` at the start.  `consented` and `began` are history variables, `under` tells which
yes a call ran under.

**Conversation** is several turns of one conversation: the word that answers a question is
matched with the oldest pending approval or the newest offer when it has been understood
(`AnswerApproval`, `AnswerOffer`, `NothingAsked`), and what a turn writes to memory passes a
look at the suppression before an await (`Note`, `Written`).

**DeviceHub** is one device seen through several successive connections.  `session` is the
hub's entry, `conn[s]` the handler of connection *s*, `wire` the transports that carry
frames, `closed` the sessions whose `close` ran; `job` are the owner's operations suspended
in `unregister`; `call`, `future`, `on`, `node` are a dispatch and its two ends.  The node
application is the other end of the wire, modelled from `apps/node/__main__.py`.

**DeviceKeys** is one device's key on both ends: the registry in memory and on file, the
node's key and its staged successor on disk, the node process that read its key once, and the
rotation command, each of which may die between any two writes.  **PairingCodes** is the
enrolment before it.  **CoreKey** is the certificate a node pinned and the path of signed
statements it may follow.

**AutomationEngine** is `AutomationEngine` with `ProactivityGate` on the event bus.  Since
`publish` returns only when every subscriber has, each actor (a sweep, a run the owner asked
for, the rest of the process publishing) has in `stack` the calls it is suspended in:
`sweep`, `run`, and the engine's own `on_event`.  `SweepBegins`/`SweepGoesOn` are `sweep` and
`due`; `FireRule`/`EventDone` are `on_event`; `Notify`, `StaySilent`, `CreateTask`, `UseTool`,
`ToolRaises` are `_perform`; `RunEnds` is `mark_run` and the closing event.  `unwound` is
where an exception comes to rest.  A rule is a chain of objects, `made[r]`, because an edit
replaces the object while suspended calls keep the old one; `Draw`, `Edit`, `Enable`,
`RemoveRule`, `RunNow`, `SetLevel` are the routes.  `swept`, `broken`, `armed`, `finished` and
`edited` are history variables.

**PeriodicJobs** says which process holds what.  The sweep of AutomationEngine and the
`Sweep` of DeviceHub run in the process that holds the rules and the sessions: that is how
the tests drive them.  As shipped (`Sweepers = {"worker"}`) they run in the worker, and
PeriodicJobs is about what becomes of rules and expired memories then.

**Canvas** is the builder and the server behind it, up to the rule AutomationEngine runs.
`graph` is what is on the screen, `report` a verdict that may be of an older graph, `saves`
the requests on their way; `Create` and `Update` are the server's validation and conversion.

**OwnerPresence**, **CameraConsent**, **VoiceLoop**, **RealtimeGateway**, **Learning** are
each one object with its callers: readings of the camera (external) and the clock; captures
that await the source; turns that listen, think and speak over one machine; the two
coroutines of a socket and its client; overlapping attempts at a lesson.

**DistributedWork** is `run` over waves of stages: `chain[s]` are the targets still to be
tried, `slot[s]` the semaphore that was taken, which is not the machine's current one when the
limit was set in between.  **ModelRouter** is `complete` with its breaker, its privacy stop
and the ledger; **SelfRecovery** EXTENDS it with repairs that park providers under it.
**ModelRegistry** is a coroutine per report, disconnection or correction, suspended at the
save of each model.

**AuditTrail**, **Backups**, **UndoRegistry**, **MediaRender**, **MemoryManager**,
**SkillLifecycle** and **PaperTrading** are what is kept: chain and table, with what lay beneath
each entry when it was made (a history variable, against which gaps are judged), and which
entries came back from a backup redacted (`altered`); archives of redacted rows over a failing
disk and other builds, with what was live when each was written (`taken`, history); inverses and
the files they put back; files, a checkpoint and the ffmpeg a cancelled call leaves behind; index
and table of one subject; the status of a skill and that of its versions; account and position,
bar by bar.

**MCTurnExecution**, **MCTaskControl**, **MCToolExecution**, **MCDeviceHub** and
**MCAutomationEngine** give the constants their values.  **MCOwnerSide** and **MCCoreSide**
are sums: ten components each that share no state, of which a run explores one at a time
(`part`), the others resting in their initial states.  Their invariants are conjunctions
guarded by `part`.  A sum has the states of its components added up, not multiplied, and
loses nothing: no action of one component reads or writes another's variables.

**Selection** is the list comprehension `[x for x in items if ...]` as one function,
`Chosen`, which TaskControl (the tasks a stop takes), AutomationEngine (rules that are due,
notifications in the window) and PairingCodes (wrong guesses in the window) use where the code
has one.  **Selection_proofs** says what it returns.  **TurnExecution_proofs**,
**ToolExecution_proofs**, **TaskControl_proofs**, **DeviceHub_proofs**,
**AutomationEngine_proofs**, **OwnerSide_proofs** and **CoreSide_proofs** hold the theorems,
each beside the module it is named after.

### Abstractions

* A verdict of the Supervisor, an answer of an agent, the result of a tool is any value the
  code that reads it can tell apart.
* Plans are sets of steps whose dependencies point backwards, which every planner builds.
* In TurnExecution a save lands with the change (TaskControl is where it does not).
* The action table of `policy.py` (67 rows) is one row per kind of rule; owner overrides
  of the table are another value of the constant `Policy`.
* Signatures, hashes, recognisers and clocks are external: a HELLO carries the number of the
  key it was signed with, an audit entry the entry it is chained to, a deadline is an action
  that may happen.
* A cron expression is the set of minutes it matches; a condition holds, fails or raises;
  every rule the routes can save has priority and floor NORMAL, so there is one hourly limit.
  What a task or a tool does inside is its outcome and the event it publishes.
* What `_redact` makes of rows is the rows without the secret, other rows than those that held
  it; redacting twice is redacting once.  Which audit entries hold a secret where the hash
  covers it unredacted (action, resource) is the constant `Revealing`.
* A file is what it was made of; a memory, a lesson, an expression, a graph's box is a value.
* All writes of MemoryManager are about one subject, the case in which they meet.
* Prices, slippage and fees of PaperTrading are whole numbers, and none.
* Left out of the modelled parts: budgets of subtasks, the task queue's `submit`,
  `mark_ready` and `PriorityQueue.preempt` (nothing but tests calls them), grants with a use
  count (nothing creates them), vectors, what the redactor takes for a secret, the text of
  every report.

## 3. The runs

| Run | Instance | States | What it shows |
|---|---|---|---|
| `turn_execution` | 3 steps, one before two; attempt setting 1 or 2 | 498 112 | `DependenciesFirst`, `DoneWasVerified`, `CompletedMeansAllDone`, `CancelStopsTheWalk`, `TurnSettlesTask`, refinement of TaskLifecycle, and `TurnEnds` under fairness |
| `resumed_undriven` | 2 steps | refuted | a paused task that survives a crash can be resumed into RUNNING with nothing behind it |
| `task_control` | 1 task, 1 node, owner, both stops, failing writes, restarts | 196 035 | `CompletedRowWasVerified`, `RowAgreesUnlessRaced`, and `StopIsAnswered` under fairness |
| `stops` | 2 tasks, 2 nodes that dial in again, storage off | 334 164 | `AnsweredStopIsWhole` |
| `tool_execution` | three calls: of an action that may be granted, of one asked about every time, of one only a cautious owner is asked about; at the desk and from another machine | 1 241 228 | `RunsOnlyOnConsent`, `AskedEveryTime`, `AnswerMatchesTheTrail` |
| `guarded_calls` | three calls under changing autonomy: loosened, ask-always without waiting, barred | 137 800 | `CallEnds` under fairness |
| `device_hub` | 2 connections, 1 call, 1 key rotation | 1 194 273 | `OnlyCurrentKeysDrive`, `AttachedIsHeld`, `WaitersAreHeldOrCutOff` |
| `hub_liveness` | 2 connections, 1 call | 125 346 | `CallEnds`, `ConnectedIsListed` under fairness |
| `automation` | 2 rules, one drawn either as a schedule or for events; sweep, desk and node; 4 requests of the owner, 1 event | 116 155 | `OncePerMinute`, `ServedUnlessBroken`, `OnlyArmedRulesFire`, `AttentionIsBounded`, `FailureIsContained`, and `PublisherReturns` under fairness |
| `owner_side` | ten components | 1 320 521 | see below |
| `core_side` | ten components | 767 410 | see below |
| `schedule_never_runs` | 1 rule, 1 note, as shipped | refuted | a scheduled rule the owner drew and enabled never runs |

`owner_side`:

* `KeysHold`: the key the core knows a node by is on the node's disk, whatever replies and
  processes are lost (`KeyIsHeld`); a revocation that was answered holds against requests and
  pairings under way (`RevocationHolds`, `RevokedStaysRevoked`); no code sees more wrong
  guesses than the budget (`CodeFacesFewGuesses`); what a node trusts is joined to its
  pairing by signed statements (`PinIsSigned`).
* `SessionIsNotInherited`: who sits down after the owner passes nothing but the smallest
  risks, and a stranger locks.
* `OwnerSeesAndStops`: the reply that plays can be ended, an open camera is lit, looks are
  counted, no expression is lost between queue, pump and reconnection.
* `ConversationHolds`: a word settles one question; after a suppression nothing is kept but
  what was being written at that moment.
* `DrawnIsRun`: a saved rule does what its drawing was numbered; opening a rule and saving it
  again changes nothing; every box is told in the preview.
* `LessonsAreEarned`: what the owner is said to know they did; no nagging; a completed lesson
  was tried and checked.

`core_side`:

* `WorkIsPlaced`: no machine runs more than its limit, private stages stay home, an answer is
  whole or says what is missing.
* `ModelsServe`: a failing model is held and not banned; the ceiling binds up to the calls
  in flight; repairs are bounded and never park the last model that could be chosen; models
  offered are those their machine reports; the owner's correction outlives reports and
  restarts.
* `RecordsAreTrue`: the trail's alarm is true, acknowledged entries and gaps are seen; a
  backup that verifies is the redaction of what there was, no more and no less, its chain is
  linked whole and verifies if nothing hashed was redacted, and an update can be taken back
  to it; a render resumed
  from a checkpoint is the one an uninterrupted call would have made; the books balance.
* `ActiveIsEarned`: an active skill's version was tested and, where it matters, reviewed.
* `MemoryIsKept`: forgotten stays forgotten, remembered is kept, the owner's word stands.
* `ActsCanBeTakenBack`: an undo restores what the act changed, nothing is lost on the way,
  a record leaves only when it was run or expired.

Every property of a passing run has a mutant, a plausible slip in the code it is about, that
TLC refutes under the same configuration; the mutated forms stand in the modules just before
the definitions they change (`ready_steps_Unordered`, `settles_UnlessRejected`, ...).

### Bounds, and why they are enough

* Three steps, the second and third depending on the first, are the smallest plan with both an order
  and a concurrent frontier; the longest chain and the widest frontier add no new
  interleaving, since steps of one frontier only meet in `GatherDone`.  The proofs do not
  depend on it.
* `AttemptSettings = {1, 2}` with `StepMaxAttempts = 2` reaches both the retry and the
  alternative agent (which needs the setting below the step's own bound).
* One task with all six writers is enough for races on a row, since rows do not meet; two
  tasks and two nodes are the smallest lists a stop can leave something of.  `stops` has no
  slow or failing writes: with both and two tasks TLC does not get through, and that a failed
  write leaves a stop unanswered, never answered by halves, is what `StopsAreWhole` proves.
* Two calls of one action are the smallest system in which a standing grant of one call can
  answer for another; the third is the call from another machine that the grant must not
  answer for.  The patterns nest, so a grant may be wide enough for another call or not.  The
  rows are those of `policy.py`, in which everything CONFIRM_WHEN_REMOTE names is at MODIFY
  or above already, so that today the list adds nothing to the level; the theorem is about
  any rows, and needs the list for those below.
* Two connections are an old and a new one.  `MaxKey = 1` is one rotation; a key is compared
  with the current one only.
* Two rules that share a minute are the smallest sweep a failure can cut short, and a rule
  that answers the other's tool the smallest cascade.  Four requests draw and arm both, or
  draw, arm, edit and run one; an hour of one minute and a limit of one notification let the
  window slide past a recorded one.
* `owner_side`: three keys are two rotations in a row; two codes and a budget of two guesses
  let guesses at one count for the other, and `Ttl < Window` as in the code; four pins with
  `ChainMax = 2` have paths too long to walk; the clock of presence runs past the longest
  limit; two looks, two voice turns, two attempts are the overlap; an outbox of two fills;
  three turns are a question, another question and a word; four boxes are a trigger with
  three actions or a second trigger.
* `core_side`: stages side by side and one built on the first; one machine besides the cloud,
  whose limit moves once; two calls with a breaker that trips at two; four audit entries, one of
  them with a secret, with an archive and a restart between; three bars with three prices fill,
  gap and stop; three versions of a skill with two tests at once; two writers, two values, two
  memory records; two acts on two paths of two nodes, and two undos; two updates; four jobs on
  the models of two machines; three calls, two changes of plan, picture or disk for a render of
  three steps of which one reads two files.
* Symmetry: connections, tasks and nodes, in runs without liveness; writers and values of
  MemoryManager in `core_side`, whose properties are all safety.
* Deadlock is checked for ToolExecution, whose owner can always act.  `CHECK_DEADLOCK FALSE`
  is said of the others: a turn ends, a task closes, connections and bounds are used up.

### Fairness, and what in the code justifies it

* *TurnExecution*: the turn's coroutine and each step's are resumed by the event loop; an
  agent is under `wait_for`, so `Return`, `GiveUpStep` or `Unavailable` comes.  Nothing is
  assumed of the owner, and an agent need not act.
* *TaskControl*: a write returns or raises (`ReadRow`, `WriteLands`, `WriteFails`), and a
  stop is resumed after it.
* *ToolExecution*: a call's own steps, and the passing of time to its approval's expiry.
  Nothing is assumed of the owner.
* *DeviceHub*: handlers and callers are resumed; a dead link is noticed (keepalive); a
  connected node beats every fifteen seconds; a call has its timeout (`wait_for`).  A node
  need not answer.
* *AutomationEngine*: a suspended call is resumed when what it awaits has come back.  An
  automation's tool call does not wait for approval, so nothing it awaits needs the owner; the
  instance's rules do not set themselves off, which is the hypothesis of `PublisherReturns`.
* *PeriodicJobs*: each loop sleeps and sweeps again (`BackgroundWorker._loop` catches what a
  job raises), so a sweep that has something to do is done.

Fairness is weak everywhere: none of these steps competes for something another step can
take away again and again.

## 4. The theorems

All proofs are checked to the last leaf by TLAPS with no assumption beyond the modules' named
ones: `PlanAssumption` and `AttemptAssumption` (dependencies point backwards, attempts are
counted from one), `ExecutionAssumption` (answers and actions are the ones the code can tell
apart), `ControlAssumption` (owner, stops and tasks are different callers), `HubAssumption`,
`AutomationAssumption` and `OwnerAssumption` (bounds are numbers, the placeholder is not one of
the things it stands in for; the time a pairing code lives is within the window in which guesses
at it are counted; a lesson is learned before it is mastered) and `CoreAssumption` (stages and
machines are finitely many, the cloud is none of the machines, a stage needs stages of the same
plan, a limit is at least one, prices are positive, versions are numbers), `ModelsAssumption` (a
fast and a local tier exist, calls and models are finitely many, a breaker trips and a repair
gives up after at least one failure), `CanvasAssumption` (a canvas has room for the suggested
rule, whose settings are settings) and `BoundsAssumption` (the other bounds of MCCoreSide are
numbers, skills have finitely many names, a step of a render is given some arguments).  TLC
evaluates them on every run.  What is proved holds for any plan, any number of steps, tasks,
calls, actions, connections, keys, rules, actors, codes and requests, any policy, and however far
the bounds of the runs are moved.

For each theorem `Spec => []P` the proof is the same three steps: `Init => Inv`,
`Inv /\ [Next]_vars => Inv'` with one step per action, `Inv => P`.  What differs is what `Inv`
has to know beyond `P`.

**TurnExecution_proofs**

* `TypeCorrect`: `TypeOK`, strengthened by `Started` (who is in the frontier).
* `DoneIsVerified`: `DoneWasVerified`, by `DoneInv`.  A row may be behind memory but is never
  ahead of it (`RowBehind`), so what a restart loads was passed too.
* `DependenciesComeFirst`: `DependenciesFirst`, by `OrderInv`: the frontier was ready when it
  was taken, and a COMPLETED step stays so until the process dies.
* `AttemptsAreBounded`: `AttemptsBounded`, by `BoundInv`, which accounts for the effects of
  each attempt (`Account`); the alternative agent starts a count of its own, hence the
  strengthening over both counts.
* `CancelStops`: `CancelStopsTheWalk` as an action property.
* `CompletedIsAllDone`: `CompletedMeansAllDone`.  The walk ends when no step is ready.  That
  nothing is ready and nothing has failed implies all is done needs the order of the plan: a
  step that is not done has a smallest such step among those not done (`Smallest`, from the
  well-foundedness of < on Nat), and that one would be ready.
* `TaskIsSettled`: `TurnSettlesTask`.  What the turn still holds of its task decides which
  states the task can be in while each await lasts; the owner's stop may come at any of them.
* `TurnImplementsLifecycle`: the refinement of TaskLifecycle.  Each step is a move along
  the table, the acceptance, a restart, or a stutter.  The restart is the hard one: the
  row must be a state the task was really in, which `lived` and the order of saves give.

**TaskControl_proofs**

* `RowAgrees`: `RowAgreesUnlessRaced`, by `Followed`.  Until two writes of one task overlap
  or one fails, there is at most one under way, it carries the state the task is in, and what
  it has read is what is there.
* `CompletedIsVerified`: `CompletedRowWasVerified`, by `Accepted`.  This one holds whatever
  the races do: COMPLETED can only get into a row from a write that carries it, a write that
  carries it was begun by a turn whose verification was accepted, and a merge stores a column
  of some write or of what it read.
* `StopsAreWhole`: `AnsweredStopIsWhole`, by `Swept`.  Each task of the stop's list is still
  to be asked, has been cancelled, or was over already, at every place the loop can be
  suspended; each session the stop found is on what is left of its list or is gone.  The
  property claims nothing of the sessions opened since: those stay (section 6).
* `ControlImplementsLifecycle`: the refinement of TaskLifecycle for any number of tasks and
  callers over slow storage, by `Living` (whatever is on its way to a row was lived) together
  with `Accepted`.

**ToolExecution_proofs**

* `TypeCorrect`; `ConsentHolds` (`RunsOnlyOnConsent`); `AskedEveryTimeHolds`
  (`AskedEveryTime`); `TrailMatches` (`AnswerMatchesTheTrail`); `RefusedStaysRefused`
  (`RefusedNeverRuns`).  The inductive invariant `ConsentInv` says for each place a call can
  be suspended at what its verdict, approval and entry must be (`Place`), what each value of
  the approval means (`Meaning`), and that each grant is the yes to a call that asked once,
  with that call's action and pattern (`GrantsAreTame`).  What the rules give without asking
  is read off their order once (`DecideMeaning`): a grant is looked at behind the remote rule,
  so it cannot answer for what another machine sends.

**DeviceHub_proofs**

* `CurrentKeysDrive` (`OnlyCurrentKeysDrive`), `AttachedIsAlwaysHeld` (`AttachedIsHeld`),
  `CallersAreReached` (`WaitersAreHeldOrCutOff`), `RevocationHolds` (`RevokedStaysOut`), `HubTypes`.
  One invariant, `HubInv`, gives all of them: a node dials one link at a time (`OneLink`), what
  has not been let in has not been let go (`NotYetIn`), the session held is one nothing closed
  (`HeldIsOpen`), and a revoked device is on the list only while its revocation is under way
  (`RevokedIsOut`); what is awaited was sent on a session that was let in and is open
  (`Awaited`), what is in flight is on a link (`InFlight`), and a handler that has left carries
  nothing (`OffTheWire`).  So a caller whose session the hub no longer holds, although nothing
  closed it, is one whose answer cannot come any more: a later HELLO replaced its session.

**AutomationEngine_proofs**

* `EngineIsSound`: `EngineInv`.  Besides the types it says that rules are listed once and
  enabled only by the owner (`Registered`), and what each suspended call may be waiting on
  (`Standing`): the sweep is at the bottom of the worker's stack, and every run above the
  bottom is of a rule that was armed.  The proof treats all of a step's effects on a stack as
  one shape, "keep the first *k* calls and put others on top" (`Piled`), so that what holds of
  the calls kept needs one lemma and not one per action.
* `ArmedRulesFire` (`OnlyArmedRulesFire`) and `FailuresAreContained` (`FailureIsContained`,
  an action property: an exception comes to rest at the first call that catches it).
* `RulesFireOnce` (`OncePerMinute`) and `MarkedAreServed` (`ServedUnlessBroken`), by `SweepInv`:
  in a minute a rule was swept at most once, not after its mark, and not while it is still in
  the sweep's list (`Counted`); a rule that is marked was served, is still in the list, or is in
  a minute whose sweep broke (`Marked`).  An edit in between keeps the mark because it belongs
  to the rule's name and not to the object.
* `AttentionIsRationed` (`AttentionIsBounded`): with what the window keeps, fewer than the
  limit, before each notification that is recorded (`Rationed`, `ChosenFewer`, `ChosenAppend`).

**OwnerSide_proofs** is about parts of the sum MCOwnerSide; each of its invariants is about one
component and does not mention `part`.

* `KeysAreHeld` (`KeysHold`) from `DeviceInv` (where each side of a rotation stands when
  either may die: `CommandHolds`, `IdentityHolds`), `CodeInv` (every wrong guess at an open code
  is still in the window, `GuessesAreOnRecord`, which is why the assumption on the two times is
  needed; what was revoked has no open pairing, `EndedIsGone`) and `PinInv` (paths of signed
  statements compose).
* `OwnerIsNotImpersonated` (`SessionIsNotInherited`, a property of steps) from `PresenceInv`:
  an owner who is believed to be there was seen at the last reading.
* `OwnerIsHeardAndShown` (`OwnerSeesAndStops`) from `VoiceInv` (who speaks is who the machine
  is at, unless a stop crossed), `CameraInv` (frames taken and owed under the present grant are
  within it) and `GatewayInv` (behind every newer expression the queue, the pump or the
  reconnection still holds the newest).
* `LessonsAreTrue` (`LessonsAreEarned`) from `LearningInv`: a level above "used" was reached by
  uses (`Earned`); every tip was an introduction, and what was dismissed was last taught then
  or later (`Remembered`), which is what keeps a tip away after a dismissal.
* `ConversationIsHeld` (`ConversationHolds`) from `ConvoInv`: no more turns are settled than
  were said (`Counted`); and for each turn what it stands by (`Stands`): a word not yet
  understood has settled nothing, who goes on does so by an approval that was granted and told,
  who writes after a suppression raced with it, and what the suppressing turn still has to
  remove is all that should not be there.
* `DrawnAlwaysRuns` (`DrawnIsRun`) from `CanvasInv`: the ids of a kind are told apart and the
  order lists every acting box once (`WellDrawn`), whatever was added, removed, swapped or
  opened.  Only then do the client, which numbers the boxes as the order lists them, and the
  server, which takes each id once out of a dictionary, take the same order (`PoppedUnfolds`).
  That a new number is free is a count: there are fewer boxes than numbers to choose from
  (`NextIdIsFree`).  What opening a rule draws is well drawn and compiles back to that rule.
* `OwnerTypesHold` (`TypeOK` of MCOwnerSide): the invariants above, and two counts that the types
  rest on.  Each turn asks at most once and each offer once, so there are no more questions than
  turns and offers (`ConvoBounds`); what Learning does is counted up to its bound
  (`LearningSpends`).

**CoreSide_proofs** is about parts of the sum MCCoreSide, in the same way.

* `WorkIsAlwaysPlaced` (`WorkIsPlaced`) from `WorkInv`: a private stage has only the owner's
  machines left to try (`Routed`), nothing was started on an input that is not there (`Whole`),
  and, while a machine has had one size, who works there and the free slots of its semaphore add
  up to its limit, and whoever holds or awaits a slot does so at that semaphore (`Sized`).  A
  limit set under work makes a second semaphore; from then on the sum is not kept, which is why
  the property excepts it.
* `SkillsAreEarned` (`ActiveIsEarned`) from `SkillInv`: each status tells how a skill got there.
* `MemoryHolds` (`MemoryIsKept`) from `MemoryInv`: the index shows only rows of the table that
  nobody is removing, what was made is on the table or was forgotten, and retiring happens in
  the index alone.
* `ActsAreTakenBack` (`ActsCanBeTakenBack`, which holds two properties of steps) from `UndoInv`:
  the inverse of each record turns what its act left into what was there before, and an undo that
  is answered was run on its node.  The act and its inverse are proved to be inverse to each
  other once, for any contents of the disk (`ActsAreReversible`, `InversesReverse`).
* `RecordsAreHeld` (`RecordsAreTrue`) from four invariants.  `TrailInv`: until a backup takes the
  chain's place, each entry was put on top of all those still below it, and the last of what it
  was put on is the one it was hashed with (`Chained`); so a chain that verifies misses nothing
  below any of its entries (`NoGap`), which needs an argument over the gap's place and not over
  steps; and nothing of it is altered.  `TradingInv`: realised equity is what the closed trades
  made while a run lasts, and the last mark when it ends.  `BackupInv`: the checksums of a file
  that can still be read are those of what was held when it was written, redacted (`Sound`), and
  versions only rise (`Rises`).  `MediaInv`: until a cancelled call leaves its program behind, no
  file before the step under way is unfinished (`NoneInPart`), and until the request changes, a
  finished file is what an uninterrupted render makes (`AsWanted`).
* `ModelsAreServed` (`ModelsServe`, which holds an action property of the registry and one of
  the parking) from three invariants.  `RouterInv`: what was spent and the calls that will
  still be charged stay under the ceiling plus one for each call, since a call passes the
  ceiling before it is charged; and no breaker is open beyond its cooldown.  `AttemptsInv`: the
  tries since a component was last quiet are among those counted, as long as the count has not
  lapsed.  `RegistryInv`: what a report in flight still has to write or sweep agrees with what
  its machine last reported (`JobsAreSound`, `ReportsAreTrue`), and a row that differs from
  memory is behind a save that is still under way (`SavesAreTrue`).  Parking is a fold over the
  failing providers in an order the code does not fix; it is a recursive function over every
  order, and the proof shows that no order leaves the router without a model.
* `CoreTypesHold` (`TypeOK` of MCCoreSide).  Where a type is a bound, it says more than the safety
  invariants and needs one of its own.  `FailsInv`: a provider's breaker may count more failures
  than the trip, as calls begun before it opened fail after it did; failures and calls that are
  with the provider never exceed the trip and the number of calls, since a provider that can be
  chosen is below the trip.  `TrailBounds`: an ascending chain of entries is no longer than what
  was recorded, also after a backup took its place (`AscendingIsShort`).  `SkillBounds`: while the
  registry has room, no skill is at the bound (`RoomIsLeft`: its versions are among all there are).
  `BackupBounds`: what is held, archived or restored was worked at some time.  `OrderIsKnown`: the
  registry's dictionary lists only what is known, and `RegistryInv` has the converse.
  `MediaBounds`: a checkpoint, and what a call read of it, name steps of the plan.

**Selection_proofs**: `ChosenUnfolds`, `ChosenIs`/`ChosenOf` (its elements are those of the list
that satisfy the test), `ChosenKeepsTail`, `ChosenOnce`, `ChosenFewer`, `ChosenAppend`,
`ChosenAll`, `ChosenApart`, `InTwo` (a selection in two parts).  They
are the induction the other proofs need, done once over the natural numbers with the least
counterexample (`Smallest`), since the provers cannot instantiate an induction theorem.

`AttemptsBounded`, `RefusedNeverRuns`, `RevokedStaysOut` and the `TypeOK` of TurnExecution,
ToolExecution, TaskControl and DeviceHub are proved and have no run.  `TypeOK` of
AutomationEngine, `UndrivenOnlyAfterPause` and `RunsAreCounted` stand in their modules for
whoever changes them: others say more about the same code.

Model-checked only: liveness (`TurnEnds`, `StopIsAnswered`, both `CallEnds`, `ConnectedIsListed`,
`PublisherReturns`), as fairness and `ENABLED` are outside TLAPS.  Every safety invariant and
every action property that a run checks and finds to hold is a theorem.

## 5. Hazards

`PROJECT.json` lists forty at their lines, each with the properties aimed at it.  It holds
what this code is exposed to and a test hardly reaches; some that are narrower than those
listed are in section 6, with the property that shows them.

## 6. Where the code and its documentation disagree

Found by writing down a documented promise and letting TLC look for a behaviour of the code
that breaks it.  Two have a run (section 3).  The others are stated in their modules next to
the words they quote; add one to a configuration of its module to see its trace.

| Property | Module | What happens |
|---|---|---|
| `PausedTaskStartsNothing` | TurnExecution | the walk asks only for cancellation, so a paused task starts its next frontier |
| `InterruptedStepIsUnknown` | TurnExecution | no step is ever stored as RUNNING, so after a crash a step that was acting reads as not started |
| `EveryAttemptIsInformed` | TurnExecution | the alternative agent is called without the outputs of the step's dependencies (`AttemptSettings = {1}`) |
| `EffectIsNotRepeated` | TurnExecution | a timed-out attempt that had acted is tried again |
| `StopReachesEveryTask` | TaskControl | the spoken stop gives up at a task that finished meanwhile |
| `EmergencyStopReachesEveryTask` | TaskControl | `list()` is cut at its limit (`ListLimit` below the number of tasks) |
| `EmergencyStopLocksDown` | TaskControl | one failed save ends the stop before the lockdown (`MayFail = TRUE`) |
| `EmergencyStopLeavesNoNode` | TaskControl | a node whose session was ended dials in again and is let in, before the stop has answered and after (docs/14, 14.5: "disconnect device nodes") |
| `LockdownHolds` | TaskControl | the lockdown is not restored by a restart |
| `CancelledRowStays` | TaskControl | an older write puts RUNNING back over CANCELLED |
| `LockdownStopsTools` | ToolExecution | the verdict is not asked again after the wait for the owner |
| `PendingGatesWork` | ToolExecution | a call cut short leaves its approval pending |
| `OfferedAnswerIsTaken` | ToolExecution | a standing answer that was offered is refused after the approval was marked, and the caller is not woken |
| `GrantsAreNarrow` | ToolExecution | a standing yes to a request that names no resource is narrowed to `*`, which is every request of that action (permissions.py:93: "'always allow' is never global") |
| `EveryRunIsAudited` | ToolExecution | a charge over budget raises between the tool's return and its audit entry |
| `YesAnswersWhatWasAsked` | Conversation | a bare "yes" answers the oldest pending approval, also one raised after the owner spoke |
| `SuppressedIsForgotten` | Conversation | a turn that was writing when memory was suppressed keeps what it wrote |
| `OldSocketEndsAlone` | DeviceHub | the end of an old connection unregisters the device id, and with it the new connection |
| `OnlineIsReachable` | DeviceHub | a heartbeat of a connection the hub has let go marks the device ONLINE |
| `TrustIsOwners` | DeviceHub | enrolling a known device resets its trust |
| `UnacknowledgedIsReplayed` | DeviceHub | a result whose connection is gone is never sent again (`FairSpec`) |
| `RotatedNodeReturns` | DeviceKeys | a node that was running during the rotation dials with the key it read once (`FairSpec`; ADR 0042) |
| `SignedPathIsFollowed` | CoreKey | a pin is marked as tried before the chain is read: one failed read, and the path is not followed until the node restarts |
| `MarkedIsServed` | AutomationEngine | a rule that raises in a sweep takes with it the rules marked with it |
| `NoRuleFiresItself` | AutomationEngine | a rule whose trigger matches an event of its own run (the default trigger, `*`, matches all of them) is run again by it, without bound, and its publisher never returns (`Drawn <- Anything`) |
| `ExpiredIsDropped` | PeriodicJobs | the worker's container has loaded no memory to drop; with `Sweepers = {"api"}` this and `ScheduledRuleRuns` hold |
| `SavesGoHome`, `DrawnOnce` | Canvas | an answer that returns after the owner went on to another drawing makes the next save replace the first one's rule; a save repeated before its answer, or whose answer is lost, draws a second rule |
| `IndicatorIsTrue` | CameraConsent | a grant during use, or a source that does not close, leaves it open with the state somewhere else |
| `OwnerIsHeard`, `IndicatorIsTrue` | VoiceLoop | a call that cut a reply to be heard may be refused by the state machine, and a capture go on after an interruption has reset it |
| `FaceSettles`, `StopOutranksTheTurn` | RealtimeGateway | an expression sent past the queue is drawn before an older one; a stop waits for the turn it should end |
| `LimitHolds` | DistributedWork | a limit set while slots are held makes a new semaphore, and the old one hands its slots out too |
| `QuietHourRestores` | SelfRecovery | a component that has been quiet for longer than the window has its old count of attempts, not none: the first new repair continues it |
| `RestoredTrailVerifies` | AuditTrail | an entry whose resource held a secret comes back redacted under the hash of what it was; and a restore writes no rows, so the next restart loads the old ones (tests/integration/test_backup_v47.py:105: "The audit chain still verifies after a restore") |
| `StopIsHonoured` | PaperTrading | the bar a position is opened in is not looked at: one that goes through the stop leaves it open |
| `RetiredStaysRetired` | MemoryManager | superseding retires the old record in the index only: a restart loads it from the table as current |
| `AnswerIsWhatWasAsked` | MediaRender | the checkpoint compares id, operation, path and size, so a changed argument or picture is answered with the old file (docs/24-media.md:69) |

Seen while reading, and not stated as properties:

* *Periodic jobs*: stale devices are not unregistered, nor approvals swept, by the worker,
  for the same reason (the API expires approvals when they are read).  `MemoryManager.write`
  takes an expired record for a duplicate, so what is said again after it has expired is not
  recalled.
* *Media*: a step may overwrite a file another step reads; undoing a second render deletes
  the first one's file; a cancelled call leaves its ffmpeg running, only a timeout kills it.
* *Skills*: testing one version sets the status of the skill, and so of the others; a
  rollback asks for no review; deprecate and activate skip the sandbox.
* *Memory*: a contradiction is lost when its two writes race; conflicts, links and pending
  candidates are not persisted; `import_state` writes neither table nor vectors.
* *Undo*: two undos of one action both run; undoing a copy or a move may delete what was at
  the destination before; a handler that timed out has acted and left no record.
* *Model registry*: `observe` and `device_offline` iterate over the dictionary across awaits,
  and a model reported meanwhile breaks the walk with a RuntimeError, which ends
  `hub.unregister` before it marks the device OFFLINE.
* *Models*: a meter or a prune that fails inside `complete` trips the breaker and repeats on
  the local model a call that was answered.
* *Learning*: overlapping attempts count twice; an attempt on a skipped step passes unverified.
* *Backups*: a component that raises leaves a half restore; two backups of one second share
  a name; no route applies an update.
* *Canvas*: saving a drawing onto an armed rule runs it at once; a PUT resets `created_by`,
  priority and budget.
* *Identity and presence*: nothing in the container builds a PresenceManager; *camera*:
  nothing starts its sweeper; *conversation*: nothing but tests makes offers; *approvals*: an
  approved task whose turn did not wait stays WAITING_APPROVAL.
* *Cron*: `describe` ignores the month; a weekday range that ends in 7 is refused.  *Vault*:
  a superseded and a new memory write two notes.  *Gestures*: a held gesture fires again
  after each cooldown.

## 7. What is not modelled, and why

`PROJECT.json` lists every component with its sources and status.  Not modelled:

* *planner, intents and language, agents and tools themselves, recommendations, subtitles,
  quality reports, benchmarks, retrieval and embeddings*: pattern matching, scoring and text.
  They have no state that outlives a call and no await between reading and writing.
* *goals and priorities, school, configuration, login, metrics*: record keeping in one step;
  the parts that would interleave (`preempt`, `resume`) have no caller.
* *cron expressions*: a pure function of a minute; AutomationEngine takes the set of minutes.
* *gestures, observers, routines*: driven by tests only.
* *desktop and mobile interface* besides the builder and the realtime client, *installation,
  the Rust shell, migrations, schemas*: presentation, declarations and packaging.

The map names the lines the definitions translate.  Most of the implementation is of the
kinds above, so that share stays small although nearly every protocol of the core has a
module: an action stands for a handler's awaits and guards, not for the text it composes.

## 8. Plan

Done: the turn and its tasks, the stops, tool calls, devices and keys, rules and the worker,
what faces the owner, what is kept.  Left, in this order:

1. A composition of turn, tool call and device, to show that a stop or a revocation reaches
   through all three.
2. Liveness of the components of the two sums where the code has a promise of it: a plan of
   stages answers, a pump drains, a repair ends.
3. The observers with the routines they learn, and the vault mirror, once something calls
   them; cron against a reference definition.

Abstract specifications worth stating besides TaskLifecycle: a gate (a call runs only after
its consent) for ToolExecution, a register of one live session for DeviceHub, and a key
agreement for DeviceKeys.
