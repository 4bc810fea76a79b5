------------------------------ MODULE TaskStates ------------------------------
(***************************************************************************)
(* The task vocabulary of thursday_shared/enums.py: the states a task can  *)
(* be in and the table of legal moves that TaskManager.transition consults *)
(* before every assignment.  Constant level only: every module that holds  *)
(* a task status extends this one.                                         *)
(***************************************************************************)

\* The states, by what drives a task that is in them (the docstring of TaskState).
Waiting == {"WAITING", "WAITING_APPROVAL", "BLOCKED", "PAUSED", "INTERRUPTED"}

Terminal == {"COMPLETED", "FAILED", "CANCELLED"}

TaskState ==
  {"NEW", "PLANNING", "READY", "RUNNING", "VERIFYING"} \cup Waiting \cup Terminal

\* Every live state may be cancelled and may fail; the other moves are listed.
GiveUp == {"CANCELLED", "FAILED"}

TASK_TRANSITIONS ==
  [ s \in TaskState |->
      CASE s = "NEW"              -> {"PLANNING"} \cup GiveUp
        [] s = "PLANNING"         -> {"READY", "RUNNING", "WAITING_APPROVAL", "BLOCKED"}
                                       \cup GiveUp
        [] s = "READY"            -> {"RUNNING", "WAITING_APPROVAL", "BLOCKED", "PAUSED"}
                                       \cup GiveUp
        [] s = "RUNNING"          -> Waiting \cup {"VERIFYING"} \cup GiveUp
        [] s = "WAITING"          -> {"RUNNING", "PAUSED"} \cup GiveUp
        [] s = "WAITING_APPROVAL" -> {"RUNNING", "READY", "BLOCKED"} \cup GiveUp
        [] s \in {"BLOCKED", "PAUSED", "INTERRUPTED"} -> {"READY", "RUNNING"} \cup GiveUp
        [] s = "VERIFYING"        -> {"COMPLETED", "RUNNING"} \cup GiveUp
        [] s \in Terminal         -> {} ]

Allowed_Unchecked(from, to) == TRUE

\* transition(): a move to the same state is a no-op, a listed move is taken,
\* anything else raises InvalidTransition and changes nothing.
Allowed(from, to) == from = to \/ to \in TASK_TRANSITIONS[from]

\* restore(): a RUNNING row comes back INTERRUPTED, every other row as it was kept.
Recovered(s) == IF s = "RUNNING" THEN "INTERRUPTED" ELSE s
===============================================================================
