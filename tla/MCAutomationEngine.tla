-------------------------- MODULE MCAutomationEngine --------------------------
(* Instances of AutomationEngine for TLC. *)
EXTENDS AutomationEngine, TLC

shape(on, at, cond, does) == [on |-> on, at |-> at, conditional |-> cond, does |-> does]

MCRules == {"morning", "follow"}

\* A schedule that uses a tool which may want approval, and a rule that is drawn to answer
\* that tool and the world, if a condition holds, or to speak up in the same minutes.
MCDrawn ==
  "morning"   :> {shape({}, {0}, FALSE, <<"tool">>)}
  @@ "follow" :> {shape({"tool.executed", "file.changed"}, {}, TRUE, <<"notify", "task">>),
                  shape({}, {0}, FALSE, <<"notify">>)}

\* The default trigger matches every event.
Anything == "morning" :> {shape(Kinds, {}, FALSE, <<"task">>)} @@ "follow" :> {}
===============================================================================
