----------------------------- MODULE TaskControl -----------------------------
(***************************************************************************)
(* TaskManager with everyone who calls it at once: the turns that drive    *)
(* their tasks, the owner at routers/tasks.py, the spoken stop             *)
(* (ThursdayCore._handle_stop) and the emergency stop (Container), over    *)
(* storage whose writes take time, may overtake one another and may fail.  *)
(*                                                                         *)
(* A change is made in memory first and then saved: between the two the    *)
(* caller is suspended in Repository.put and everyone else runs.  put is a *)
(* session: it reads the row, and commits the columns that differ from     *)
(* what it read.  Every caller has at most one put under way.  What a turn *)
(* does inside RUNNING is left to TurnExecution; here it may save (a       *)
(* charge, a progress report) any number of times before it closes.        *)
(* Nodes dial in and hang up as they please, locked down or not: the        *)
(* emergency stop ends the sessions it finds, one await after another.     *)
(***************************************************************************)
EXTENDS Integers, Sequences, FiniteSets, SequencesExt, Selection, TaskStates

CONSTANTS
  Tasks,      \* the tasks that may be created
  Devices,    \* the paired machines
  ListLimit,  \* TaskManager.list's default limit: 50
  Persistent, \* SqlRepository, or NullRepository, which keeps nothing and returns at once
  MayFail,    \* whether a write may raise
  Owner, Stop, Emergency,  \* the callers beside the turns, one at a time each
  Stops       \* which of the two stops are said

Callers == Tasks \cup {Owner, Stop, Emergency}

ASSUME ControlAssumption ==
  /\ ListLimit \in Nat \ {0}
  /\ Persistent \in BOOLEAN /\ MayFail \in BOOLEAN
  /\ Cardinality({Owner, Stop, Emergency}) = 3
  /\ Tasks \cap {Owner, Stop, Emergency, "none"} = {}
  /\ Stops \subseteq {Stop, Emergency}

VARIABLES
  order,      \* the tasks that exist, oldest first (created_at)
  status,     \* [Tasks -> TaskState or "ABSENT"]
  accepted,   \* tasks carrying a passed verification
  cancelled,  \* TaskManager._cancelled
  turn,       \* [Tasks -> where the coroutine driving the task is]
  write,      \* [Callers -> the row the caller is suspended saving, or Idle]
  row,        \* [Tasks -> the stored row]
  sweep,      \* [{Stop, Emergency} -> the loop of a stop: its snapshot and what is left]
  lockdown,   \* PermissionEngine's lockdown
  connected,  \* DeviceHub._sessions: the devices with a session
  uncut,      \* what is left of the list disconnect_all goes through
  lived,      \* history: [Tasks -> states the task has been in]
  raced,      \* history: tasks with two writes under way at once, or a failed one
  older       \* history: the devices still on a session disconnect_all found

vars == <<order, status, accepted, cancelled, turn, write, row, sweep, lockdown, connected,
          uncut, older, lived, raced>>

Absent == "ABSENT"
Row(t, s, a) == [task |-> t, status |-> s, accepted |-> a]
Unread == [task |-> "none"]
Idle == [row |-> Unread, seen |-> Unread]
NoSweep == [phase |-> "off", snapshot |-> {}, left |-> <<>>]

Init ==
  /\ order = <<>>
  /\ status = [t \in Tasks |-> Absent]
  /\ accepted = {} /\ cancelled = {}
  /\ turn = [t \in Tasks |-> "none"]
  /\ write = [c \in Callers |-> Idle]
  /\ row = [t \in Tasks |-> Row(t, Absent, FALSE)]
  /\ sweep = [c \in {Stop, Emergency} |-> NoSweep]
  /\ lockdown = FALSE /\ connected = {} /\ uncut = {} /\ older = {}
  /\ lived = [t \in Tasks |-> {}] /\ raced = {}

-------------------------------------------------------------------------------
(* Saving.                                                                   *)

target(c) == write[c].row.task
writing(t) == { c \in Callers : target(c) = t }

Save_OnlyTurns(c, t) ==
  IF Persistent /\ c \in Tasks
  THEN /\ write' = [write EXCEPT ![c] = [row  |-> Row(t, status'[t], t \in accepted'),
                                         seen |-> Unread]]
       /\ raced' = IF writing(t) = {} THEN raced ELSE raced \cup {t}
  ELSE UNCHANGED <<write, raced>>

\* _save(task) by caller c: the row as it is now is handed to Repository.put.
Save(c, t) ==
  IF Persistent
  THEN /\ write' = [write EXCEPT ![c] = [row  |-> Row(t, status'[t], t \in accepted'),
                                         seen |-> Unread]]
       /\ raced' = IF writing(t) = {} THEN raced ELSE raced \cup {t}
  ELSE UNCHANGED <<write, raced>>

Enter(t, s) ==
  /\ status' = [status EXCEPT ![t] = s]
  /\ lived' = [lived EXCEPT ![t] = @ \cup {s}]

Keep == UNCHANGED <<status, lived>>

putOnly == <<order, status, accepted, cancelled, lockdown, connected, uncut, older, lived>>

\* session.get: what the session holds of the row from here on.
ReadRow(c) ==
  /\ write[c] # Idle /\ write[c].seen = Unread
  /\ write' = [write EXCEPT ![c].seen = row[target(c)]]
  /\ UNCHANGED putOnly /\ UNCHANGED <<turn, row, sweep, raced>>

\* Two sessions that both found no row both insert it, and the second is refused.
collides(c) == write[c].seen.status = Absent /\ row[target(c)].status # Absent

Committed_StatusOnly(new, seen, old) == [old EXCEPT !.status = new.status]

\* The commit updates the columns the session changed and leaves the others alone.
Committed(new, seen, old) ==
  [new EXCEPT !.status   = IF @ = seen.status THEN old.status ELSE @,
              !.accepted = IF @ = seen.accepted THEN old.accepted ELSE @]

WriteLands(c) ==
  /\ write[c] # Idle /\ write[c].seen # Unread /\ ~collides(c)
  /\ row' = [row EXCEPT ![target(c)] = Committed(write[c].row, write[c].seen, @)]
  /\ write' = [write EXCEPT ![c] = Idle]
  /\ UNCHANGED putOnly /\ UNCHANGED <<turn, sweep, raced>>

\* put() raises into its caller: a turn and a stop end there, the owner is told.
WriteFails(c) ==
  /\ write[c] # Idle /\ write[c].seen # Unread
  /\ MayFail \/ collides(c)
  /\ write' = [write EXCEPT ![c] = Idle]
  /\ raced' = raced \cup {target(c)}
  /\ turn' = IF c \in Tasks THEN [turn EXCEPT ![c] = "raised"] ELSE turn
  /\ sweep' = IF c \in {Stop, Emergency} THEN [sweep EXCEPT ![c].phase = "raised"] ELSE sweep
  /\ UNCHANGED putOnly /\ UNCHANGED row

-------------------------------------------------------------------------------
(* The turn that drives task t.                                              *)

turnKeeps == <<cancelled, row, sweep, lockdown, connected, uncut, older>>

\* transition() by the turn: a refused move is not caught by handle_turn.
TurnMoves(t, to, next) ==
  IF Allowed(status[t], to)
  THEN Enter(t, to) /\ turn' = [turn EXCEPT ![t] = next] /\ Save(t, t)
  ELSE Keep /\ turn' = [turn EXCEPT ![t] = "raised"] /\ UNCHANGED <<write, raced>>

TurnIs(t, at) == turn[t] = at /\ write[t] = Idle

CreateTask(t) ==
  /\ TurnIs(t, "none") /\ status[t] = Absent
  /\ order' = Append(order, t)
  /\ UNCHANGED accepted /\ UNCHANGED turnKeeps
  /\ Enter(t, "NEW") /\ turn' = [turn EXCEPT ![t] = "created"] /\ Save(t, t)

Plan(t) ==
  /\ TurnIs(t, "created")
  /\ UNCHANGED <<order, accepted>> /\ UNCHANGED turnKeeps
  /\ TurnMoves(t, "PLANNING", "planned")

Start(t) ==
  /\ TurnIs(t, "planned")
  /\ UNCHANGED <<order, accepted>> /\ UNCHANGED turnKeeps
  /\ TurnMoves(t, "RUNNING", "running")

\* charge() and update_progress() save the task without moving it.
Work(t) ==
  /\ TurnIs(t, "running")
  /\ Keep /\ UNCHANGED <<order, accepted, turn>> /\ UNCHANGED turnKeeps
  /\ Save(t, t)

Close(t) ==
  /\ TurnIs(t, "running")
  /\ UNCHANGED <<order, accepted>> /\ UNCHANGED turnKeeps
  /\ TurnMoves(t, "VERIFYING", "completing") \/ TurnMoves(t, "FAILED", "ended")

Complete(t) ==
  /\ TurnIs(t, "completing")
  /\ accepted' = accepted \cup {t}
  /\ TurnMoves(t, "COMPLETED", "ended")
  /\ UNCHANGED order /\ UNCHANGED turnKeeps

Turn(t) ==
  CreateTask(t) \/ Plan(t) \/ Start(t) \/ Work(t) \/ Close(t) \/ Complete(t)

-------------------------------------------------------------------------------
(* The owner: pause, resume, cancel.                                         *)

OwnerMoves(t, to) ==
  /\ write[Owner] = Idle
  /\ UNCHANGED <<order, accepted, turn, row, sweep, lockdown, connected, uncut, older>>
  /\ Enter(t, to) /\ Save(Owner, t)

OwnerCancels(t) ==
  /\ status[t] \in TaskState \ Terminal
  /\ cancelled' = cancelled \cup {t}
  /\ OwnerMoves(t, "CANCELLED")

OwnerPauses(t) ==
  /\ status[t] = "RUNNING"
  /\ OwnerMoves(t, "PAUSED")
  /\ UNCHANGED cancelled

OwnerResumes(t) ==
  /\ status[t] = "PAUSED"
  /\ OwnerMoves(t, "RUNNING")
  /\ UNCHANGED cancelled

-------------------------------------------------------------------------------
(* The two stops: a list taken once, then one cancellation after another.    *)

stopKeeps == <<order, accepted, turn, row>>
links == <<connected, uncut, older>>

\* TaskManager.list: newest first, cut to the limit after the status filter.
newest(running) ==
  LET rows == Chosen(order, { t \in Tasks : running => status[t] = "RUNNING" })
  IN Reverse(SubSeq(rows, IF Len(rows) > ListLimit THEN Len(rows) - ListLimit + 1 ELSE 1,
                    Len(rows)))

Begin(c, todo) ==
  sweep' = [sweep EXCEPT ![c] = [phase |-> "cancelling", snapshot |-> ToSet(todo), left |-> todo]]

BeginStop(c) ==
  /\ c \in Stops /\ sweep[c].phase = "off"
  /\ Begin(c, newest(c = Stop))
  /\ Keep /\ UNCHANGED <<cancelled, write, raced, lockdown>> /\ UNCHANGED links
  /\ UNCHANGED stopKeeps

\* Only the emergency stop looks at the task again before it cancels it.
skips_NotRunning(c, t) == c = Emergency /\ status[t] # "RUNNING"

skips(c, t) == c = Emergency /\ status[t] \in Terminal

advanced_Stuck(c) == sweep

advanced(c) == [sweep EXCEPT ![c].left = Tail(@)]

\* cancel() records the wish before the move is asked for; a refused move raises
\* out of the loop, and what is left of the list is not cancelled.
CancelNext(c) ==
  /\ sweep[c].phase = "cancelling" /\ write[c] = Idle /\ sweep[c].left # <<>>
  /\ UNCHANGED lockdown /\ UNCHANGED links /\ UNCHANGED stopKeeps
  /\ LET t == Head(sweep[c].left)
     IN IF skips(c, t)
        THEN /\ sweep' = advanced(c)
             /\ Keep /\ UNCHANGED <<cancelled, write, raced>>
        ELSE /\ cancelled' = cancelled \cup {t}
             /\ IF status[t] = "CANCELLED" \/ "CANCELLED" \in TASK_TRANSITIONS[status[t]]
                THEN /\ sweep' = advanced(c)
                     /\ IF status[t] = "CANCELLED"
                        THEN Keep /\ UNCHANGED <<write, raced>>
                        ELSE Enter(t, "CANCELLED") /\ Save(c, t)
                ELSE sweep' = [sweep EXCEPT ![c].phase = "refused"] /\ Keep
                       /\ UNCHANGED <<write, raced>>

\* The spoken stop answers; the emergency stop lists the sessions there are and goes on.
Cancelled(c) ==
  /\ sweep[c].phase = "cancelling" /\ write[c] = Idle /\ sweep[c].left = <<>>
  /\ sweep' = [sweep EXCEPT ![c].phase = IF c = Stop THEN "done" ELSE "disconnecting"]
  /\ IF c = Stop THEN UNCHANGED <<uncut, older>> ELSE uncut' = connected /\ older' = connected
  /\ Keep /\ UNCHANGED <<cancelled, write, raced, lockdown, connected>> /\ UNCHANGED stopKeeps

\* unregister() pops whatever session the device has by now, and is suspended in its
\* close() and in the record that its models are out of reach before the next one.
Disconnects(d) ==
  /\ sweep[Emergency].phase = "disconnecting" /\ d \in uncut
  /\ connected' = connected \ {d} /\ older' = older \ {d}
  /\ Keep /\ UNCHANGED <<cancelled, write, raced, lockdown>> /\ UNCHANGED stopKeeps

DisconnectNext(d) ==
  /\ Disconnects(d)
  /\ uncut' = uncut \ {d}
  /\ UNCHANGED sweep

\* close() keeps its failures to itself; saving that the models are offline does not.
DisconnectFails(d) ==
  /\ Persistent /\ MayFail
  /\ Disconnects(d)
  /\ uncut' = {}
  /\ sweep' = [sweep EXCEPT ![Emergency].phase = "raised"]

SetLockdown ==
  /\ sweep[Emergency].phase = "disconnecting" /\ uncut = {}
  /\ lockdown' = TRUE
  /\ sweep' = [sweep EXCEPT ![Emergency].phase = "done"]
  /\ Keep /\ UNCHANGED <<cancelled, write, raced>> /\ UNCHANGED links /\ UNCHANGED stopKeeps

\* device_socket: a node that dials in is given a session, in place of one it may have,
\* and the lockdown is not looked at; a socket that ends takes the session with it.
Dial(d) ==
  /\ connected' = connected \cup {d} /\ older' = older \ {d}
  /\ Keep /\ UNCHANGED <<cancelled, write, raced, lockdown, uncut, sweep>>
  /\ UNCHANGED stopKeeps

HangUp(d) ==
  /\ d \in connected
  /\ connected' = connected \ {d} /\ older' = older \ {d}
  /\ Keep /\ UNCHANGED <<cancelled, write, raced, lockdown, uncut, sweep>>
  /\ UNCHANGED stopKeeps

\* A spoken stop that is over may be said again, and a failed emergency stop too.
SayAgain(c) ==
  /\ sweep[c].phase \in {"raised", "refused"} \/ (c = Stop /\ sweep[c].phase = "done")
  /\ sweep' = [sweep EXCEPT ![c] = NoSweep]
  /\ Keep /\ UNCHANGED <<cancelled, write, raced, lockdown>> /\ UNCHANGED links
  /\ UNCHANGED stopKeeps

\* Container.release_lockdown; the stop it lifts is over.
ReleaseLockdown ==
  /\ sweep[Emergency].phase = "done"
  /\ lockdown' = FALSE
  /\ sweep' = [sweep EXCEPT ![Emergency] = NoSweep]
  /\ Keep /\ UNCHANGED <<cancelled, write, raced>> /\ UNCHANGED links /\ UNCHANGED stopKeeps

-------------------------------------------------------------------------------
(* The process dies with its writes, and TaskManager.restore loads the rows. *)

kept == { t \in Tasks : row[t].status # Absent }

Restart ==
  /\ order # <<>>
  /\ order' = Chosen(order, kept)
  /\ status' = [t \in Tasks |-> IF t \in kept THEN Recovered(row[t].status) ELSE Absent]
  /\ accepted' = { t \in Tasks : row[t].accepted }
  /\ cancelled' = {}
  /\ turn' = [t \in Tasks |-> IF turn[t] = "none" THEN "none" ELSE "dead"]
  /\ write' = [c \in Callers |-> Idle]
  /\ sweep' = [c \in {Stop, Emergency} |-> NoSweep]
  /\ lockdown' = FALSE /\ connected' = {} /\ uncut' = {} /\ older' = {}
  /\ lived' = [t \in Tasks |-> IF t \in kept THEN lived[t] \cup {status'[t]} ELSE {}]
  /\ UNCHANGED <<row, raced>>

Next ==
  \/ \E t \in Tasks : Turn(t)
  \/ \E t \in Tasks : OwnerCancels(t) \/ OwnerPauses(t) \/ OwnerResumes(t)
  \/ \E c \in {Stop, Emergency} : BeginStop(c) \/ CancelNext(c) \/ Cancelled(c) \/ SayAgain(c)
  \/ \E d \in Devices : DisconnectNext(d) \/ DisconnectFails(d) \/ Dial(d) \/ HangUp(d)
  \/ SetLockdown
  \/ ReleaseLockdown
  \/ \E c \in Callers : ReadRow(c) \/ WriteLands(c) \/ WriteFails(c)
  \/ Restart

Spec == Init /\ [][Next]_vars

\* A write returns (the driver has a timeout, and reports it by raising), and the
\* event loop resumes a stop whose write has returned.
Fairness ==
  /\ \A c \in Callers : WF_vars(ReadRow(c) \/ WriteLands(c) \/ WriteFails(c))
  /\ \A c \in {Stop, Emergency} : WF_vars(CancelNext(c) \/ Cancelled(c))
  /\ WF_vars(SetLockdown \/ \E d \in Devices : DisconnectNext(d) \/ DisconnectFails(d))

FairSpec == Spec /\ Fairness

-------------------------------------------------------------------------------
(* Properties.                                                                *)

RowType == [task : Tasks, status : TaskState \cup {Absent}, accepted : BOOLEAN]

TypeOK ==
  /\ order \in Seq(Tasks)
  /\ status \in [Tasks -> TaskState \cup {Absent}]
  /\ accepted \in SUBSET Tasks /\ cancelled \in SUBSET Tasks
  /\ turn \in [Tasks -> {"none", "created", "planned", "running", "completing", "ended",
                         "raised", "dead"}]
  /\ write \in [Callers -> [row : RowType \cup {Unread}, seen : RowType \cup {Unread}]]
  /\ row \in [Tasks -> RowType]
  /\ sweep \in [{Stop, Emergency} ->
                  [phase : {"off", "cancelling", "disconnecting", "done", "raised", "refused"},
                   snapshot : SUBSET Tasks, left : Seq(Tasks)]]
  /\ lockdown \in BOOLEAN
  /\ connected \in SUBSET Devices /\ uncut \in SUBSET Devices /\ older \in SUBSET Devices
  /\ lived \in [Tasks -> SUBSET TaskState]
  /\ raced \in SUBSET Tasks

\* Storage never says COMPLETED without the verification that made it so, whatever
\* the order in which writes land and whichever of them fail.
CompletedRowWasVerified ==
  \A t \in Tasks : row[t].status = "COMPLETED" => row[t].accepted

\* The table and the dict agree on a task as long as its writes have neither
\* overlapped nor failed: no move is made that is not also saved.  INTERRUPTED is
\* what the loader calls a row it read as RUNNING, and is not written back.
RowAgreesUnlessRaced ==
  \A t \in Tasks : Persistent /\ writing(t) = {} /\ t \notin raced /\ status[t] # Absent =>
    status[t] = IF status[t] = "INTERRUPTED" THEN Recovered(row[t].status) ELSE row[t].status

\* A stop that answers has asked for the cancellation of every task on its list; an
\* emergency stop that answers has settled them, ended every session it found before it
\* locked down - a node that dialled in again has a newer one - and is locked down.  Its
\* list goes stale while it waits, and still no turn, owner or other stop that was there
\* first gets in its way: what keeps it from locking down is a failing write.
AnsweredStopIsWhole ==
  /\ sweep[Stop].phase = "done" => sweep[Stop].snapshot \subseteq cancelled
  /\ sweep[Emergency].phase = "done" =>
       /\ lockdown /\ older = {}
       /\ \A t \in sweep[Emergency].snapshot : status[t] \in Terminal
  /\ sweep[Emergency].phase # "refused"

\* A stop that begins is answered, or ends with an error the owner sees; or the
\* process restarts.
StopIsAnswered ==
  \A c \in {Stop, Emergency} :
    sweep[c].phase = "cancelling" ~> sweep[c].phase \in {"done", "raised", "refused", "off"}

\* Late, overtaking and failing writes and all, this is the lifecycle promised.
Lifecycle == INSTANCE TaskLifecycle
ImplementsLifecycle == Lifecycle!Spec

-------------------------------------------------------------------------------
(* What the documentation says of the stops and of storage.                   *)

\* "Cancel what is safe to cancel" (engine.py): a stop that is over has left no task
\* running that was running when it was said.
StopReachesEveryTask ==
  sweep[Stop].phase \in {"done", "raised", "refused"} =>
    \A t \in sweep[Stop].snapshot : status[t] # "RUNNING"

\* "Stop all agents, cancel cancellable actions" (docs/14 par. 14.5): when the
\* emergency stop has locked the system down, no task that existed is still live.
EmergencyStopReachesEveryTask ==
  [][SetLockdown => \A t \in Tasks : turn[t] = "running" => t \in cancelled]_vars

\* The emergency stop "must work" (docs/14 par. 14.5): it is never over without lockdown.
EmergencyStopLocksDown == sweep[Emergency].phase \in {"done", "raised"} => lockdown

\* "Disconnect Nodes" (the emergency stop, docs/14 par. 14.5): none is connected once it
\* has answered.
EmergencyStopLeavesNoNode == sweep[Emergency].phase = "done" => connected = {}

\* The system is locked down "until the owner re-authenticates" (docs/14 par. 14.5):
\* nothing but the release lifts a lockdown.
LockdownHolds == [][lockdown /\ ~lockdown' => ReleaseLockdown]_vars

\* "The table is the truth" (persistence.py): a row that says CANCELLED is not written
\* back to a state the task has left.
CancelledRowStays ==
  [][\A t \in Tasks : row[t].status = "CANCELLED" => row'[t].status = "CANCELLED"]_vars
===============================================================================
