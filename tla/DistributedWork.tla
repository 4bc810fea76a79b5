-------------------------- MODULE DistributedWork --------------------------
(***************************************************************************)
(* A task in stages over the owner's machines (core/distributed.py): waves *)
(* of stages whose inputs exist, each routed to a chain of targets         *)
(* (compute_router.py), walked by the executor (compute_execution.py) with *)
(* a slot held on the machine that does the work (capacity.py), while      *)
(* machines come and go and the owner changes their limits.                *)
(***************************************************************************)
EXTENDS Naturals, Sequences, FiniteSets

CONSTANTS Stages, Needs,     \* the plan: Needs[s] are the stages s takes its inputs from
          Optional, Private, \* stages that may be missing; stages kept from the cloud
          Machines, Cloud,
          Limits,            \* limits the owner may set
          MaxResizes         \* bound: limits set for one machine

Targets == Machines \cup {Cloud}
DEFAULT_LIMIT == 1

VARIABLES at,       \* where each stage stands
          chain,    \* its targets still to be tried, the one under way first
          slot,     \* the semaphore its slot is of: a machine's slots of one limit
          free,     \* free slots of each machine's semaphores
          limit,    \* DeviceCapacity._limits
          resizes,  \* how often each limit was set; names the machine's current semaphore
          resized,  \* machines whose limit was set while somebody held or awaited a slot
          away,     \* machines that are offline, or whose model is disabled
          answer    \* what run() has returned

workVars == <<at, chain, slot, free, limit, resizes, resized, away, answer>>
ledger == <<free, limit, resizes, resized>>

Places == {"planned", "routing", "stepping", "waiting", "working", "produced", "failed"}
Generations == 0..MaxResizes

TypeOK ==
  /\ at \in [Stages -> Places]
  /\ chain \in [Stages -> Seq(Targets)]
  /\ slot \in [Stages -> Generations]
  /\ free \in [Machines -> [Generations -> Nat]]
  /\ limit \in [Machines -> Nat \ {0}]
  /\ resizes \in [Machines -> Generations] /\ resized \subseteq Machines /\ away \subseteq Machines
  /\ answer \in {"none", "complete", "raised"}

Init ==
  /\ at = [s \in Stages |-> "planned"] /\ chain = [s \in Stages |-> <<>>]
  /\ slot = [s \in Stages |-> 0]
  /\ free = [m \in Machines |-> [g \in Generations |-> DEFAULT_LIMIT]]
  /\ limit = [m \in Machines |-> DEFAULT_LIMIT]
  /\ resizes = [m \in Machines |-> 0] /\ resized = {} /\ away = {} /\ answer = "none"
-----------------------------------------------------------------------------
Goes(s, place) == at' = [at EXCEPT ![s] = place]
ended(s) == at[s] \in {"produced", "failed"}
in_flight(m) == Cardinality({s \in Stages : at[s] = "working" /\ Head(chain[s]) = m})
busy(m) == \E s \in Stages : at[s] \in {"waiting", "working"} /\ Head(chain[s]) = m

\* A wave is every stage that has not run and whose inputs have been produced; the next one
\* is formed when gather has every outcome of the last.
wave == {s \in Stages : at[s] = "planned" /\ \A n \in Needs[s] : at[n] = "produced"}
underWay == {s \in Stages : at[s] \notin {"planned", "produced", "failed"}}
NextWave ==
  /\ answer = "none" /\ underWay = {} /\ wave # {}
  /\ at' = [s \in Stages |-> IF s \in wave THEN "routing" ELSE at[s]]
  /\ UNCHANGED <<chain, slot, ledger, away, answer>>

\* _excluded() is absolute, and the fallbacks have passed it like the first choice; who else
\* is excluded (memory, load, battery, mode) and in which order the rest is ranked depends
\* on the request and the telemetry.
eligible_Fallbacks(s) == {<<>>} \cup {<<t>> : t \in IF s \in Private THEN Machines ELSE Targets}
               \cup {<<t, u>> : t \in Machines, u \in Targets}
eligible(s) ==
  LET allowed == IF s \in Private THEN Machines ELSE Targets IN
  {c \in UNION {[1..n -> allowed] : n \in 0..Cardinality(allowed)} :
     \A i, j \in DOMAIN c : i # j => c[i] # c[j]}

Route(s, c) ==
  /\ at[s] = "routing" /\ c \in eligible(s)
  /\ chain' = [chain EXCEPT ![s] = c]
  /\ Goes(s, IF c = <<>> THEN "failed" ELSE "stepping")
  /\ UNCHANGED <<slot, ledger, away, answer>>

\* The next target, or ComputeExhausted; run_one turns either failure into an outcome.
Falls(s) ==
  /\ chain' = [chain EXCEPT ![s] = Tail(@)]
  /\ Goes(s, IF Len(chain[s]) = 1 THEN "failed" ELSE "stepping")

Skip(s) ==
  /\ at[s] = "stepping" /\ Head(chain[s]) \in away
  /\ Falls(s)
  /\ UNCHANGED <<slot, ledger, away, answer>>

\* hold(): the machine's current semaphore, whatever is on it; the cloud has none.
Step(s) ==
  /\ at[s] = "stepping" /\ Head(chain[s]) \notin away
  /\ Goes(s, IF Head(chain[s]) = Cloud THEN "working" ELSE "waiting")
  /\ slot' = IF Head(chain[s]) = Cloud THEN slot ELSE [slot EXCEPT ![s] = resizes[Head(chain[s])]]
  /\ UNCHANGED <<chain, ledger, away, answer>>

Acquire(s) ==
  /\ at[s] = "waiting" /\ free[Head(chain[s])][slot[s]] > 0
  /\ free' = [free EXCEPT ![Head(chain[s])][slot[s]] = @ - 1]
  /\ Goes(s, "working")
  /\ UNCHANGED <<chain, slot, limit, resizes, resized, away, answer>>

Release(s) ==
  free' = IF Head(chain[s]) = Cloud THEN free
          ELSE [free EXCEPT ![Head(chain[s])][slot[s]] = @ + 1]

Work(s, ok) ==
  /\ at[s] = "working" /\ Release(s)
  /\ IF ok THEN Goes(s, "produced") /\ UNCHANGED chain ELSE Falls(s)
  /\ UNCHANGED <<slot, limit, resizes, resized, away, answer>>

\* No wave can be formed: stages that never became runnable count as failed for want of an
\* input, and one required stage that has not produced raises.
Finish ==
  /\ answer = "none" /\ underWay = {} /\ wave = {}
  /\ answer' = IF \A s \in Stages \ Optional : at[s] = "produced" THEN "complete" ELSE "raised"
  /\ UNCHANGED <<at, chain, slot, ledger, away>>

\* set_limit(): the semaphore is dropped and the next hold() makes one of the new size;
\* those who hold or wait for the old one stay with it.
SetLimit(m, l) ==
  /\ resizes[m] < MaxResizes
  /\ resizes' = [resizes EXCEPT ![m] = @ + 1]
  /\ limit' = [limit EXCEPT ![m] = l]
  /\ free' = [free EXCEPT ![m][resizes[m] + 1] = l]
  /\ resized' = IF busy(m) THEN resized \cup {m} ELSE resized
  /\ UNCHANGED <<at, chain, slot, away, answer>>

MachineChanges(m) ==
  /\ away' = IF m \in away THEN away \ {m} ELSE away \cup {m}
  /\ UNCHANGED <<at, chain, slot, ledger, answer>>

Progress ==
  \/ NextWave \/ Finish
  \/ \E s \in Stages : \/ \E c \in eligible(s) : Route(s, c)
                       \/ Skip(s) \/ Step(s) \/ Acquire(s)
                       \/ \E ok \in BOOLEAN : Work(s, ok)
Next ==
  \/ Progress
  \/ \E m \in Machines, l \in Limits : SetLimit(m, l)
  \/ \E m \in Machines : MachineChanges(m)

Spec == Init /\ [][Next]_workVars
-----------------------------------------------------------------------------
\* "A machine runs at most limit of Thursday's jobs at once", however waves, fallbacks and
\* failures interleave, unless its limit was set while somebody held or awaited a slot: the old
\* and the new semaphore then both hand slots out.
MachineIsNotFlattened == \A m \in Machines \ resized : in_flight(m) <= limit[m]

\* "A machine runs at most limit of Thursday's jobs at once"
LimitHolds == \A m \in Machines : in_flight(m) <= limit[m]

\* Content kept from the cloud is not sent there, as a fallback of a fallback neither.
PrivateStaysHome ==
  \A s \in Private : at[s] = "working" => Head(chain[s]) # Cloud

\* An answer is given only when every required stage has its result, and each result was
\* built on all of its inputs.
AnswerIsWhole ==
  /\ answer = "complete" => \A s \in Stages \ Optional : at[s] = "produced"
  /\ \A s \in Stages : at[s] = "produced" => \A n \in Needs[s] : at[n] = "produced"
===============================================================================
