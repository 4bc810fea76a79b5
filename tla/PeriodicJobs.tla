---------------------------- MODULE PeriodicJobs ----------------------------
(***************************************************************************)
(* The periodic jobs and the processes they run in: the API, which builds  *)
(* a container and starts it, and the worker, which builds a container of  *)
(* its own and runs BackgroundWorker over that one (apps/worker,           *)
(* services/worker/jobs.py).  A container holds its rules and memories in  *)
(* its process; only memories are also on the table that both can reach.   *)
(*                                                                         *)
(* AutomationEngine has what a sweep does to the rules it finds; here a    *)
(* rule of `* * * * *` simply runs, once a minute.                         *)
(***************************************************************************)
EXTENDS Naturals, FiniteSets

CONSTANTS
  Rules,      \* scheduled rules
  Notes,      \* working memories, which expire
  Sweepers,   \* the processes that run the loops: {"worker"} as shipped
  MaxMinute, MaxAsked    \* bounds: the clock, and what the owner and the processes do

Processes == {"api", "worker"}
Never == MaxMinute + 1

VARIABLES
  rules,     \* [Processes -> [Rules -> "none", "off" or "on"]]: _automations
  fired,     \* [Processes -> [Rules -> the minute it was last served in, or Never]]
  records,   \* [Processes -> SUBSET Notes]: the index of the memories
  rows,      \* the table
  expired,   \* the notes whose time is over
  minute, asked,
  ran        \* history: the rules that have run

vars == <<rules, fired, records, rows, expired, minute, asked, ran>>

Init ==
  /\ rules = [p \in Processes |-> [r \in Rules |-> "none"]]
  /\ fired = [p \in Processes |-> [r \in Rules |-> Never]]
  /\ records = [p \in Processes |-> {}] /\ rows = {} /\ expired = {}
  /\ minute = 0 /\ asked = 0 /\ ran = {}
-----------------------------------------------------------------------------
Asks == asked < MaxAsked /\ asked' = asked + 1
Put(r, what) == rules' = [rules EXCEPT !["api"][r] = what]

\* The routes know the API's container only.  What was saved is not armed.
Draw(r) ==
  /\ Asks /\ rules["api"][r] = "none" /\ Put(r, "off")
  /\ UNCHANGED <<fired, records, rows, expired, minute, ran>>
Enable(r, to) ==
  /\ Asks /\ rules["api"][r] \notin {"none", to} /\ Put(r, to)
  /\ UNCHANGED <<fired, records, rows, expired, minute, ran>>
RemoveRule(r) ==
  /\ Asks /\ rules["api"][r] # "none" /\ Put(r, "none")
  /\ fired' = [fired EXCEPT !["api"][r] = Never]
  /\ UNCHANGED <<records, rows, expired, minute, ran>>

Remember(m) ==
  /\ Asks /\ m \notin rows \cup expired
  /\ rows' = rows \cup {m} /\ records' = [records EXCEPT !["api"] = @ \cup {m}]
  /\ UNCHANGED <<rules, fired, expired, minute, ran>>
Expires(m) ==
  /\ m \in rows \ expired /\ expired' = expired \cup {m}
  /\ UNCHANGED <<rules, fired, records, rows, minute, asked, ran>>

\* A process begins anew: build_container in both, and start(), which loads the table, in
\* the API's lifespan only.  Nothing loads rules.
Boot(p) ==
  /\ Asks
  /\ rules' = [rules EXCEPT ![p] = [r \in Rules |-> "none"]]
  /\ fired' = [fired EXCEPT ![p] = [r \in Rules |-> Never]]
  /\ records' = [records EXCEPT ![p] = IF p = "api" THEN rows ELSE {}]
  /\ UNCHANGED <<rows, expired, minute, ran>>

\* sweep_schedules and decay_memory over the container the worker was given.
SweepSchedules(p) ==
  LET due == {r \in Rules : rules[p][r] = "on" /\ fired[p][r] # minute} IN
  /\ due # {}
  /\ fired' = [fired EXCEPT ![p] = [r \in Rules |-> IF r \in due THEN minute ELSE @[r]]]
  /\ ran' = ran \cup due
  /\ UNCHANGED <<rules, records, rows, expired, minute, asked>>
DecayMemory(p) ==
  LET over == records[p] \cap expired IN
  /\ over # {}
  /\ records' = [records EXCEPT ![p] = @ \ over] /\ rows' = rows \ over
  /\ UNCHANGED <<rules, fired, expired, minute, asked, ran>>

Tick ==
  /\ minute < MaxMinute /\ minute' = minute + 1
  /\ UNCHANGED <<rules, fired, records, rows, expired, asked, ran>>

Next ==
  \/ \E r \in Rules : Draw(r) \/ RemoveRule(r) \/ \E to \in {"off", "on"} : Enable(r, to)
  \/ \E m \in Notes : Remember(m) \/ Expires(m)
  \/ \E p \in Processes : Boot(p)
  \/ \E p \in Sweepers : SweepSchedules(p) \/ DecayMemory(p)
  \/ Tick

\* The loops never end: each of them sleeps and sweeps again.
Spec ==
  /\ Init /\ [][Next]_vars
  /\ \A p \in Sweepers : WF_vars(SweepSchedules(p)) /\ WF_vars(DecayMemory(p))
-----------------------------------------------------------------------------
\* "Fire automations whose cron minute has come" (jobs.py): a scheduled rule that stays
\* enabled is run.
ScheduledRuleRuns ==
  \A r \in Rules : rules["api"][r] = "on" ~> r \in ran \/ rules["api"][r] # "on"

\* "Drop expired working memory" (jobs.py): an expired note leaves the table.
ExpiredIsDropped == \A m \in Notes : m \in expired ~> m \notin rows
=============================================================================
