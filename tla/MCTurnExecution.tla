--------------------------- MODULE MCTurnExecution ---------------------------
(* Instances of TurnExecution for TLC: the two shapes of plan the planners build. *)
EXTENDS TurnExecution, TLC

\* planner.py: gather, then two steps that work from it.
Fork == 1 :> {} @@ 2 :> {1} @@ 3 :> {1}

\* planner.py and skills/planning.py: one step after the other.
Chain == 1 :> {} @@ 2 :> {1}
===============================================================================
