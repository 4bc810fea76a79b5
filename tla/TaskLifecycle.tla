---------------------------- MODULE TaskLifecycle ----------------------------
(***************************************************************************)
(* What the task system promises, with nothing said about who asks for a   *)
(* move, how a plan is walked or when a row is written.                    *)
(*                                                                         *)
(*   - a live task only ever moves along TASK_TRANSITIONS, so a terminal   *)
(*     state is final, and INTERRUPTED is entered by the loader alone;     *)
(*   - COMPLETED is reached only with a verification that passed (par. 76);*)
(*   - storage holds some state the task has really been in, and a restart *)
(*     loads that state, RUNNING read back as INTERRUPTED.                 *)
(*                                                                         *)
(* TurnExecution and TaskControl are both shown to implement it.           *)
(***************************************************************************)
EXTENDS TaskStates

CONSTANT Tasks

VARIABLES
  status,    \* [Tasks -> TaskState or "ABSENT"]: the state in memory
  accepted,  \* the tasks that carry a verification that passed
  lived      \* [Tasks -> states the task has been in]: what storage may hold

vars == <<status, accepted, lived>>

Absent == "ABSENT"

TypeOK ==
  /\ status \in [Tasks -> TaskState \cup {Absent}]
  /\ accepted \in SUBSET Tasks
  /\ lived \in [Tasks -> SUBSET TaskState]

Init ==
  /\ status = [t \in Tasks |-> Absent]
  /\ accepted = {}
  /\ lived = [t \in Tasks |-> {}]

Enter(t, s) ==
  /\ status' = [status EXCEPT ![t] = s]
  /\ lived' = [lived EXCEPT ![t] = @ \cup {s}]

Create(t) ==
  /\ status[t] = Absent
  /\ Enter(t, "NEW")
  /\ UNCHANGED accepted

\* The loader alone enters INTERRUPTED, although the table lists it under RUNNING.
Move(t, s) ==
  /\ status[t] \in TaskState
  /\ s \in TASK_TRANSITIONS[status[t]] \ {"INTERRUPTED", "COMPLETED"}
  /\ Enter(t, s)
  /\ UNCHANGED accepted

Accept(t) ==
  /\ status[t] = "VERIFYING"
  /\ Enter(t, "COMPLETED")
  /\ accepted' = accepted \cup {t}

\* complete() attaches the verification before it asks for the move; on a task
\* that was cancelled meanwhile the move is refused and the attachment stays.
AttachLate(t) ==
  /\ status[t] \in {"CANCELLED", "FAILED"}
  /\ accepted' = accepted \cup {t}
  /\ UNCHANGED <<status, lived>>

Restart ==
  /\ \E kept \in [Tasks -> TaskState \cup {Absent}] :
       /\ \A t \in Tasks : kept[t] \in lived[t] \cup {Absent}
       /\ status' = [t \in Tasks |-> IF kept[t] = Absent THEN Absent ELSE Recovered(kept[t])]
       /\ lived' = [t \in Tasks |-> IF kept[t] = Absent THEN {} ELSE lived[t] \cup {status'[t]}]
  /\ \E kept \in SUBSET accepted :
       /\ \A t \in Tasks : status'[t] = "COMPLETED" => t \in kept
       /\ accepted' = kept

Next ==
  \/ \E t \in Tasks : Create(t)
  \/ \E t \in Tasks, s \in TaskState : Move(t, s)
  \/ \E t \in Tasks : Accept(t)
  \/ \E t \in Tasks : AttachLate(t)
  \/ Restart

Spec == Init /\ [][Next]_vars

-------------------------------------------------------------------------------
\* No task is ever reported done without a verification that passed: the promise
\* TaskManager.complete makes ("This is par. 76 in code").
CompletedWasAccepted == \A t \in Tasks : status[t] = "COMPLETED" => t \in accepted
===============================================================================
