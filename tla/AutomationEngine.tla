--------------------------- MODULE AutomationEngine ---------------------------
(***************************************************************************)
(* AutomationEngine: the owner's rules, the sweep that fires the scheduled *)
(* ones, the subscription to every event of the bus that fires the others, *)
(* and ProactivityGate, which rations what they may say.                   *)
(*                                                                         *)
(* bus.publish returns only when every subscriber has, and running a rule  *)
(* publishes: one event can run a rule whose actions publish another that  *)
(* runs the next, all of it beneath the publisher that began it.  So each  *)
(* actor has the stack of its suspended calls:                             *)
(*   sweep  AutomationEngine.sweep with the rules it has still to run      *)
(*   run    AutomationEngine.run of one rule, about to perform step `pc`   *)
(*   event  the engine's own on_event, with the rules it has still to ask; *)
(*          "sent" until the loop lets it take its copy of the registry    *)
(* A rule is a chain of objects, because an edit puts a new object in the  *)
(* registry while runs and copies of the registry keep the old one.  The   *)
(* registry lives in the process: a restart is a fresh Init.               *)
(***************************************************************************)
EXTENDS Integers, Sequences, SequencesExt, FiniteSetsExt, Selection

CONSTANTS
  Rules,        \* ids
  Drawn,        \* [Rules -> the shapes the owner may draw for that rule]
  Publishers,   \* the rest of the process, where it publishes events
  Outside,      \* the kinds of event it publishes
  Limit,        \* RATE_LIMIT_PER_HOUR of a rule's priority
  Levels,       \* the ProactivityLevels the owner may choose: OFF, LOW, NORMAL, HIGH are 0 to 3
  Hour,         \* how many minutes a notification counts against the limit
  MaxMinute, MaxEvents, MaxAsked, MaxDrawn  \* bounds: the clock, the events from outside,
                                            \* the owner's requests, the drawings of one rule

OFF == 0
NORMAL == 2      \* proactivity_min, and the priority, of every rule the routes save

Kinds == Outside \cup {"automation.triggered", "automation.completed", "notification.raised",
                       "task.created", "tool.executed", "tool.failed", "approval.required"}
Minutes == 0..MaxMinute
None == -1

\* What a graph says: the events its trigger matches or the minutes its cron does, whether
\* it has conditions, and its actions followed by its follow-ups.
IsShape(s) ==
  /\ s.on \in SUBSET Kinds /\ s.at \in SUBSET Minutes /\ s.conditional \in BOOLEAN
  /\ s.does \in Seq({"notify", "task", "tool"})

ASSUME AutomationAssumption ==
  /\ \A r \in Rules : \A s \in Drawn[r] : IsShape(s)
  /\ Levels \subseteq OFF..3 /\ NORMAL \in Levels
  /\ Limit \in Nat /\ Hour \in Nat \ {0}
  /\ {MaxMinute, MaxEvents, MaxAsked, MaxDrawn} \subseteq Nat
  /\ Publishers \cap {"worker", "desk"} = {}

Actors == {"worker", "desk"} \cup Publishers

VARIABLES
  made,      \* [Rules -> the Automation objects of that id, in the order they were added]
  listed,    \* _automations: the ids in it, in insertion order
  fired,     \* _fired_minute
  level,     \* gate.level
  raised,    \* gate._recent: the minutes of the notifications it recorded, in their order
  stack,     \* [Actors -> the calls it is suspended in, outermost first]
  clock,
  events, asked,   \* how many of MaxEvents and MaxAsked are used up
  swept,     \* history: [Rules -> [Minutes -> runs the sweep of that minute began]]
  broken,    \* history: the minutes whose sweep an exception ended
  armed,     \* history: the rules the owner has ever enabled
  finished,  \* history: [Rules -> runs that came to their end]
  edited     \* history: the rules edited while an object of theirs was in use

registry == <<made, listed, armed, edited>>
gate == <<level, raised>>
history == <<swept, broken, finished>>
vars == <<made, listed, fired, level, raised, stack, clock, events, asked, swept, broken, armed,
          finished, edited>>

Init ==
  /\ made = [r \in Rules |-> <<>>] /\ listed = <<>>
  /\ fired = [r \in Rules |-> None]
  /\ level = NORMAL /\ raised = <<>>
  /\ stack = [a \in Actors |-> <<>>]
  /\ clock = 0 /\ events = 0 /\ asked = 0
  /\ swept = [r \in Rules |-> [m \in Minutes |-> 0]]
  /\ broken = {} /\ armed = {} /\ edited = {}
  /\ finished = [r \in Rules |-> 0]

-------------------------------------------------------------------------------
(* The registry, and the owner at it: each of these is one handler without   *)
(* an await.                                                                 *)

object(o) == made[o.rule][o.version]
current(r) == [rule |-> r, version |-> Len(made[r])]
snapshot == [i \in 1..Len(listed) |-> current(listed[i])]
holds(f, r) ==
  \/ f.in = "run" /\ f.of.rule = r
  \/ f.in \in {"event", "sweep"} /\ \E i \in 1..Len(f.rest) : f.rest[i].rule = r
inUse(r) == \E a \in Actors : \E i \in 1..Len(stack[a]) : holds(stack[a][i], r)

Asks == asked < MaxAsked /\ asked' = asked + 1

Add(r, new) ==
  /\ made' = [made EXCEPT ![r] = Append(@, new)]
  /\ listed' = IF Contains(listed, r) THEN listed ELSE Append(listed, r)

\* POST: nothing arrives enabled.  A routine Thursday suggested is added by the same call.
Draw(r) ==
  /\ Asks
  /\ made[r] = <<>>
  /\ \E s \in Drawn[r] : Add(r, [is |-> s, enabled |-> FALSE, runs |-> 0])
  /\ UNCHANGED <<fired, gate, stack, clock, events, history, armed, edited>>

replacement_Armed(s, old) == [is |-> s, enabled |-> TRUE, runs |-> old.runs]

\* PUT: an edit neither arms a rule nor disarms one.
replacement(s, old) == [is |-> s, enabled |-> old.enabled, runs |-> old.runs]

Edit(r) ==
  /\ Asks
  /\ Contains(listed, r) /\ Len(made[r]) < MaxDrawn
  /\ \E s \in Drawn[r] : Add(r, replacement(s, object(current(r))))
  /\ edited' = IF inUse(r) THEN edited \cup {r} ELSE edited
  /\ UNCHANGED <<fired, gate, stack, clock, events, history, armed>>

Enable(r, to) ==
  /\ Asks
  /\ Contains(listed, r) /\ object(current(r)).enabled # to
  /\ made' = [made EXCEPT ![r][Len(made[r])].enabled = to]
  /\ armed' = IF to THEN armed \cup {r} ELSE armed
  /\ UNCHANGED <<listed, fired, gate, stack, clock, events, history, edited>>

RemoveRule(r) ==
  /\ Asks
  /\ Contains(listed, r)
  /\ listed' = Chosen(listed, Rules \ {r})
  /\ fired' = [fired EXCEPT ![r] = None]
  /\ UNCHANGED <<made, gate, stack, clock, events, history, armed, edited>>

SetLevel(l) ==
  /\ Asks
  /\ level # l /\ level' = l
  /\ UNCHANGED <<registry, fired, raised, stack, clock, events, history>>

-------------------------------------------------------------------------------
(* Calls.                                                                    *)

Published(k) == [in |-> "sent", kind |-> k]
Asking(k, rest) == [in |-> "event", kind |-> k, rest |-> rest]
Running(o, pc) == [in |-> "run", of |-> o, pc |-> pc]
Sweeping(m, rest) == [in |-> "sweep", minute |-> m, rest |-> rest]

\* run() announces the rule before its first step.
Run(o) == <<Running(o, 1), Published("automation.triggered")>>

top(a) == Last(stack[a])
In(a, where) == stack[a] # <<>> /\ top(a).in = where
Continue(a, frames) == stack' = [stack EXCEPT ![a] = Front(@) \o frames]

\* A run returns in the stretch in which its last event does.
ended(f) == f.in = "run" /\ f.pc = Len(object(f.of).is.does) + 2
Return(a) ==
  LET below == Front(stack[a]) IN
  stack' = [stack EXCEPT ![a] = IF below # <<>> /\ ended(Last(below)) THEN Front(below) ELSE below]
Call(a, frames) == stack' = [stack EXCEPT ![a] = @ \o frames]

unwound_Everything(s) == <<>>

\* Where an exception comes to rest: gather(return_exceptions=True) in bus.publish keeps
\* that of a subscriber, and abandons the rest of its loop; below the last one it goes to
\* the request or to the worker's loop, which logs it.
unwound(s) ==
  LET handlers == {i \in 1..Len(s) : s[i].in = "event"} IN
  IF handlers = {} THEN <<>> ELSE SubSeq(s, 1, Max(handlers) - 1)

Raise(a) ==
  /\ stack' = [stack EXCEPT ![a] = unwound(@)]
  /\ broken' = IF stack'[a] = <<>> /\ stack[a][1].in = "sweep"
               THEN broken \cup {stack[a][1].minute} ELSE broken

-------------------------------------------------------------------------------
(* Scheduled rules.                                                          *)

\* Due and not yet served in this minute.
due(o) ==
  /\ object(o).enabled /\ level >= NORMAL
  /\ fired[o.rule] # clock /\ clock \in object(o).is.at

served_Nothing(ready) == fired
served_Missed(ready) == [r \in Rules |-> IF Contains(listed, r) THEN clock ELSE fired[r]]

served(ready) == [r \in Rules |-> IF \E i \in 1..Len(ready) : ready[i].rule = r
                                  THEN clock ELSE fired[r]]

\* sweep(): due() marks every rule it is about to return.  (A sweep that finds none
\* changes nothing.)
SweepBegins ==
  /\ stack["worker"] = <<>>
  /\ LET ready == Chosen(snapshot, {o \in ToSet(snapshot) : due(o)}) IN
     /\ ready # <<>>
     /\ Call("worker", <<Sweeping(clock, ready)>>)
     /\ fired' = served(ready)
  /\ UNCHANGED <<registry, gate, clock, events, asked, history>>

SweepGoesOn(a) ==
  /\ In(a, "sweep")
  /\ LET f == top(a) IN
     IF f.rest = <<>> THEN Return(a) /\ UNCHANGED swept
     ELSE /\ Continue(a, <<Sweeping(f.minute, Tail(f.rest))>> \o Run(Head(f.rest)))
          /\ swept' = [swept EXCEPT ![Head(f.rest).rule][f.minute] = @ + 1]
  /\ UNCHANGED <<registry, fired, gate, clock, events, asked, broken, finished>>

-------------------------------------------------------------------------------
(* Rules that answer events.                                                 *)

\* Automation.should_fire, but for the conditions.
matches(o, k) == object(o).enabled /\ level >= NORMAL /\ k \in object(o).is.on

\* The rules on_event has still to ask: it copies the registry when it begins.
rest(a) == IF top(a).in = "sent" THEN snapshot ELSE top(a).rest

passedOver(a, n) ==
  \A i \in 1..n : matches(rest(a)[i], top(a).kind) => object(rest(a)[i]).is.conditional

FireRule(a) ==
  /\ In(a, "sent") \/ In(a, "event")
  /\ \E i \in 1..Len(rest(a)) :
       /\ passedOver(a, i - 1) /\ matches(rest(a)[i], top(a).kind)
       /\ Continue(a, <<Asking(top(a).kind, SubSeq(rest(a), i + 1, Len(rest(a))))>> \o Run(rest(a)[i]))
  /\ UNCHANGED <<registry, fired, gate, clock, events, asked, history>>

\* No rule is left that fires, or evaluating a condition raises.
EventDone(a) ==
  /\ In(a, "sent") \/ In(a, "event")
  /\ \/ passedOver(a, Len(rest(a)))
     \/ \E i \in 1..Len(rest(a)) :
          passedOver(a, i) /\ matches(rest(a)[i], top(a).kind)
  /\ Return(a)
  /\ UNCHANGED <<registry, fired, gate, clock, events, asked, history>>

-------------------------------------------------------------------------------
(* run() and _perform().                                                     *)

step(a) == object(top(a).of).is.does[top(a).pc]
At(a, what) == In(a, "run") /\ top(a).pc \in 1..Len(object(top(a).of).is.does) /\ step(a) = what
Publish(a, k) == Continue(a, <<Running(top(a).of, top(a).pc + 1), Published(k)>>)

used(m) == Len(Chosen(raised, {u \in Minutes : m - Hour < u /\ u <= m}))
allows_Unrationed == level >= NORMAL
allows == level >= NORMAL /\ used(clock) < Limit

\* The gate is asked and told in one stretch, and then the owner is.
Notify(a) ==
  /\ At(a, "notify") /\ allows
  /\ raised' = Append(raised, clock)
  /\ Publish(a, "notification.raised")
  /\ UNCHANGED <<registry, fired, level, clock, events, asked, history>>

\* The gate refuses: for the level, the limit, or the owner's status or company.
StaySilent(a) ==
  /\ At(a, "notify")
  /\ Continue(a, <<Running(top(a).of, top(a).pc + 1)>>)
  /\ UNCHANGED <<registry, fired, gate, clock, events, asked, history>>

\* tasks.create saves, and then says so.
CreateTask(a) ==
  /\ At(a, "task")
  /\ \/ Publish(a, "task.created") /\ UNCHANGED broken
     \/ Raise(a)
  /\ UNCHANGED <<registry, fired, gate, clock, events, asked, swept, finished>>

\* executor.execute(wait_for_approval=False): done; refused; failed, which it says before
\* it raises; or left as an approval, which it says before it raises ApprovalRequired.
UseTool(a) ==
  /\ At(a, "tool")
  /\ \/ Publish(a, "tool.executed") /\ UNCHANGED broken
     \/ Raise(a)
     \/ /\ \E k \in {"tool.failed", "approval.required"} :
             Continue(a, <<Running(top(a).of, None), Published(k)>>)
        /\ UNCHANGED broken
  /\ UNCHANGED <<registry, fired, gate, clock, events, asked, swept, finished>>

ToolRaises_OnceAnswered(a) ==
  /\ In(a, "run") /\ top(a).pc = None
  /\ Raise(a) /\ Asks
  /\ UNCHANGED <<registry, fired, gate, clock, events, swept, finished>>

ToolRaises(a) ==
  /\ In(a, "run") /\ top(a).pc = None
  /\ Raise(a)
  /\ UNCHANGED <<registry, fired, gate, clock, events, asked, swept, finished>>

RunEnds(a) ==
  /\ In(a, "run") /\ top(a).pc = Len(object(top(a).of).is.does) + 1
  /\ LET o == top(a).of IN
     /\ made' = [made EXCEPT ![o.rule][o.version].runs = @ + 1]
     /\ finished' = [finished EXCEPT ![o.rule] = @ + 1]
  /\ Publish(a, "automation.completed")
  /\ UNCHANGED <<listed, armed, edited, fired, gate, clock, events, asked, swept, broken>>

-------------------------------------------------------------------------------
(* What begins a stack.                                                      *)

\* /automations/{id}/run, on a disabled rule too.
RunNow(r) ==
  /\ Asks /\ stack["desk"] = <<>> /\ Contains(listed, r)
  /\ Call("desk", Run(current(r)))
  /\ UNCHANGED <<registry, fired, gate, clock, events, history>>

Happens(p) ==
  /\ stack[p] = <<>> /\ events < MaxEvents
  /\ \E k \in Outside : Call(p, <<Published(k)>>)
  /\ events' = events + 1
  /\ UNCHANGED <<registry, fired, gate, clock, asked, history>>

Tick ==
  /\ clock < MaxMinute /\ clock' = clock + 1
  /\ UNCHANGED <<registry, fired, gate, stack, events, asked, history>>

Step(a) ==
  \/ SweepGoesOn(a) \/ FireRule(a) \/ EventDone(a)
  \/ Notify(a) \/ StaySilent(a) \/ CreateTask(a) \/ UseTool(a) \/ ToolRaises(a)
  \/ RunEnds(a)

Next ==
  \/ \E r \in Rules : Draw(r) \/ Edit(r) \/ RemoveRule(r) \/ RunNow(r)
                      \/ \E to \in BOOLEAN : Enable(r, to)
  \/ \E l \in Levels : SetLevel(l)
  \/ SweepBegins \/ Tick
  \/ \E p \in Publishers : Happens(p)
  \/ \E a \in Actors : Step(a)

Spec == Init /\ [][Next]_vars

\* Every call is resumed when what it awaits has come back; nothing it awaits waits for
\* the owner (an automation's tool call does not).
FairSpec == Spec /\ \A a \in Actors : WF_vars(Step(a))

-------------------------------------------------------------------------------
(* Properties.                                                                *)

Objects == [rule : Rules, version : 1..MaxDrawn]
IsFrame(f) ==
  \/ f.in = "sent" /\ f.kind \in Kinds
  \/ f.in = "event" /\ f.kind \in Kinds /\ f.rest \in Seq(Objects)
  \/ f.in = "run" /\ f.of \in Objects /\ f.pc \in None..Len(object(f.of).is.does) + 2
  \/ f.in = "sweep" /\ f.minute \in Minutes /\ f.rest \in Seq(Objects)

TypeOK ==
  /\ \A r \in Rules : \A i \in 1..Len(made[r]) :
       made[r][i] \in [is : Drawn[r], enabled : BOOLEAN, runs : Nat]
  /\ listed \in Seq(Rules) /\ IsInjective(listed)
  /\ \A i \in 1..Len(listed) : made[listed[i]] # <<>>
  /\ fired \in [Rules -> Minutes \cup {None}]
  /\ level \in Levels /\ raised \in Seq(Minutes) /\ clock \in Minutes
  /\ \A a \in Actors : \A i \in 1..Len(stack[a]) : IsFrame(stack[a][i])

\* "A loop that is not minute-aligned fires once per minute rather than twice" (docs/26):
\* however long a sweep takes, whatever it runs into, and whatever the owner edits or
\* switches meanwhile.
OncePerMinute == \A r \in Rules, m \in Minutes : swept[r][m] <= 1

\* A rule that is marked as served in a minute was run for it, unless the sweep of that
\* minute was ended by an exception or is still at it.
ServedUnlessBroken ==
  stack["worker"] = <<>> =>
    \A r \in Rules : fired[r] # None => swept[r][fired[r]] = 1 \/ fired[r] \in broken

\* Saving is not arming (docs/26): what runs without being asked to, from a sweep or from
\* another rule's event, is a rule the owner has at some time enabled, through every edit,
\* removal and stale copy of the registry.
OnlyArmedRulesFire ==
  \A a \in Actors : \A i \in 1..Len(stack[a]) :
    stack[a][i].in = "run" /\ (i > 1 \/ a # "desk") => stack[a][i].of.rule \in armed

\* In no hour do the rules together raise more notifications than the limit, although
\* every actor has its own cascade of them under way.
AttentionIsBounded == \A m \in Minutes : used(m) <= Limit

\* The count the owner sees is the number of runs that ended, except for a rule that was
\* edited while it ran, or was about to: such a run counts on the object it began with.
RunsAreCounted ==
  \A r \in Rules :
    made[r] # <<>> /\ r \notin edited => object(current(r)).runs = finished[r]

\* "One failing subscriber never takes down the publisher" (bus.py): a run or a sweep is
\* cut short only by what it does itself, never by a rule that answers an event of its.
FailureIsContained ==
  [][\A a \in Actors : \A i \in Len(stack'[a]) + 1..Len(stack[a]) :
       stack[a][i].in \in {"run", "sweep"} /\ ~ended(stack[a][i]) =>
         \A j \in i + 1..Len(stack[a]) : stack[a][j].in # "event"]_vars

\* Publishing comes back: if no rule can set itself off, every event, run and sweep ends,
\* however the owner redraws and switches the rules while it goes on.
PublisherReturns == \A a \in Actors : stack[a] # <<>> ~> stack[a] = <<>>

-------------------------------------------------------------------------------
(* What the documentation says, and the code does not do.                     *)

\* "The engine remembers which minute each rule was served" (jobs.py): a rule that is
\* marked for a minute was run in it.
MarkedIsServed ==
  stack["worker"] = <<>> => \A r \in Rules : fired[r] # None => swept[r][fired[r]] = 1

\* "A misfiring rule costs a bounded amount of money and a bounded amount of the owner's
\* attention" (rules.py): no rule is run by an event of its own run.
NoRuleFiresItself ==
  \A a \in Actors : \A i, j \in 1..Len(stack[a]) :
    i < j /\ stack[a][i].in = "run" /\ stack[a][j].in = "run" =>
      stack[a][i].of.rule # stack[a][j].of.rule
===============================================================================
