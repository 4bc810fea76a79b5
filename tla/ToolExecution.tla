---------------------------- MODULE ToolExecution ----------------------------
(***************************************************************************)
(* ToolExecutor.execute, the one place a tool is invoked, with the         *)
(* PermissionEngine that judges the call, the ApprovalService that asks    *)
(* the owner, and the people and timers that act while the call waits: the *)
(* owner answering, the approval expiring, the attempt's deadline          *)
(* cancelling the call, a lockdown, a change of autonomy, a grant revoked. *)
(*                                                                         *)
(* An action is the code between two awaits.  One member of Calls is one   *)
(* call of execute(); a retry of a step is another member.  Everything     *)
(* here lives in the process: a restart is a fresh Init.                   *)
(***************************************************************************)
EXTENDS Integers, FiniteSets

CONSTANTS
  Calls,
  Actions,
  Policy,    \* [Actions -> PolicyTable's row for it: see PolicyRow]
  Requests,  \* what may be asked for: a set of [Calls -> RequestRow]
  Autonomy   \* the autonomy levels the owner may choose

READ == 0
OPEN == 1
MODIFY == 2
EXTERNAL == 3
Levels == 0..5
AutonomyLevels == {"SUGGEST_ONLY", "SAFE_ACTIONS", "MODERATE", "HIGH"}

\* `needs` is the level the tool declares; `risky` and `reversible` are the worse of
\* what the tool and the policy say; `blocked` and `named` are membership of HARD_BLOCKED
\* and of CONFIRM_WHEN_REMOTE, by the action's name or a prefix of it.
PolicyRow == [default : {"AUTO", "ASK_ONCE", "ASK_ALWAYS", "BLOCK"}, level : Levels, needs : Levels,
              risky : BOOLEAN, reversible : BOOLEAN, blocked : BOOLEAN, named : BOOLEAN]

\* `glob` is the pattern _scope_glob makes of the resource, which is what a standing yes is
\* narrowed to, and `matches` are the patterns the resource falls under: the directory above
\* it and those above that, or its own name; "*", which a request that names nothing makes,
\* takes them all.  `barred` says that a privacy zone, the secrecy of the payload or the
\* agent's own envelope forbids the call; `waits` is wait_for_approval, true for an agent's
\* call.  All calls are for one machine.
RequestRow == [action : Actions, glob : STRING, matches : SUBSET STRING, remote : BOOLEAN,
               barred : BOOLEAN, waits : BOOLEAN]

ASSUME ExecutionAssumption ==
  /\ Policy \in [Actions -> PolicyRow]
  /\ Requests \subseteq [Calls -> RequestRow]
  /\ Autonomy \subseteq AutonomyLevels /\ Autonomy # {}

VARIABLES
  request,    \* [Calls -> the ActionRequest execute() is called with]
  at,         \* [Calls -> where the call is suspended, or how it ended]
  verdict,    \* [Calls -> PermissionVerdict.decision]
  under,      \* [Calls -> PermissionVerdict.grant_id: the call whose yes gave it, or {}]
  approval,   \* [Calls -> the state of the approval it raised]
  due,        \* the approvals whose expires_at has passed
  deciding,   \* the approvals whose decision is being announced
  woken,      \* the calls whose waiter has been given a result
  grants,     \* PermissionEngine._grants: [action, glob, by], `by` standing for its id
  lockdown, autonomy,
  entry,      \* [Calls -> the entry the call left in the audit chain]
  began,      \* history: the calls whose tool.run was started
  consented   \* history: the calls whose own approval the owner granted in time

owners == <<request, lockdown, autonomy>>
vars == <<request, at, verdict, under, approval, due, deciding, woken, grants, lockdown, autonomy,
          entry, began, consented>>

Init ==
  /\ request \in Requests
  /\ at = [c \in Calls |-> "idle"]
  /\ verdict = [c \in Calls |-> "none"] /\ under = [c \in Calls |-> {}]
  /\ approval = [c \in Calls |-> "none"]
  /\ due = {} /\ deciding = {} /\ woken = {} /\ grants = {}
  /\ lockdown = FALSE /\ autonomy \in Autonomy
  /\ entry = [c \in Calls |-> "none"]
  /\ began = {} /\ consented = {}

-------------------------------------------------------------------------------
(* PolicyTable and PermissionEngine.                                         *)

policy(c) == Policy[request[c].action]
level(c) == IF policy(c).needs > policy(c).level THEN policy(c).needs ELSE policy(c).level

\* PolicyTable._apply_autonomy: autonomy can only tighten an AUTO.
tightened(p) ==
  /\ p.default = "AUTO"
  /\ \/ autonomy = "SUGGEST_ONLY" /\ p.level > READ
     \/ autonomy = "SAFE_ACTIONS" /\ p.level > OPEN
     \/ autonomy = "MODERATE" /\ p.level >= EXTERNAL
default(p) == IF tightened(p) THEN "ASK_ONCE" ELSE p.default

\* V8: driven from another machine, anything that modifies is confirmed, and so is what
\* CONFIRM_WHEN_REMOTE names whatever its level.
remoteConfirm(c) == request[c].remote /\ (level(c) >= MODIFY \/ policy(c).named)

\* The grant a standing yes to c makes, and the grants that match a request.
grant(c) == [action |-> request[c].action, glob |-> request[c].glob, by |-> c]
covering(c) == { g \in grants : g.action = request[c].action /\ g.glob \in request[c].matches }

\* Rules 1 to 4: no approval and no grant leads past these.
blocks(c) ==
  \/ lockdown /\ level(c) > READ
  \/ policy(c).blocked \/ default(policy(c)) = "BLOCK"
  \/ request[c].barred

\* Rules 6 to 8.  (No caller counts objects, so the blast-radius rule never matches.)
byPolicy(c) ==
  LET d == default(policy(c)) IN
  IF d # "AUTO"                                    THEN d
  ELSE IF level(c) >= EXTERNAL                     THEN "ASK_ONCE"
  ELSE IF policy(c).risky \/ ~policy(c).reversible THEN "ASK_ALWAYS"
  ELSE "AUTO"

decide_GrantFirst(c) ==
  IF blocks(c)                  THEN "BLOCK"
  ELSE IF covering(c) # {}      THEN "AUTO"
  ELSE IF remoteConfirm(c)      THEN "ASK_ALWAYS"
  ELSE byPolicy(c)

\* PermissionEngine._decide: the rules in order, the first that matches wins.
decide(c) ==
  IF blocks(c)                  THEN "BLOCK"
  ELSE IF remoteConfirm(c)      THEN "ASK_ALWAYS"
  ELSE IF covering(c) # {}      THEN "AUTO"
  ELSE byPolicy(c)

asks(c) == verdict[c] \in {"ASK_ONCE", "ASK_ALWAYS"}

\* PermissionEngine.add_grant refuses anything but an action asked for once.
grantable(c) == ~policy(c).blocked /\ default(policy(c)) = "ASK_ONCE"

\* ApprovalRequest.scopes_offered, from the verdict the approval was raised with.
offersStanding(c) == verdict[c] = "ASK_ONCE"

-------------------------------------------------------------------------------
(* execute(): one call, from await to await.                                 *)

Ended == {"done", "denied", "raised", "parked", "cut"}
GoTo(c, where) == at' = [at EXCEPT ![c] = where]
Log(c, what) == entry' = [entry EXCEPT ![c] = what]

BeginRun(c) == GoTo(c, "running") /\ began' = began \cup {c} /\ UNCHANGED entry

Refuse_Unlogged(c) == GoTo(c, "refusing") /\ UNCHANGED <<entry, began>>

Refuse(c) == GoTo(c, "refusing") /\ Log(c, "blocked") /\ UNCHANGED began

Execute(c) ==
  /\ at[c] = "idle"
  /\ verdict' = [verdict EXCEPT ![c] = decide(c)]
  /\ IF decide(c) = "AUTO" /\ covering(c) # {}
     THEN \E g \in covering(c) : under' = [under EXCEPT ![c] = {g.by}]
     ELSE UNCHANGED under
  /\ \/ decide(c) = "AUTO" /\ BeginRun(c) /\ UNCHANGED approval
     \/ decide(c) = "BLOCK" /\ Refuse(c) /\ UNCHANGED approval
     \/ /\ decide(c) \in {"ASK_ONCE", "ASK_ALWAYS"}
        /\ approval' = [approval EXCEPT ![c] = "pending"]
        /\ GoTo(c, "announcing") /\ UNCHANGED <<entry, began>>
  /\ UNCHANGED <<due, deciding, woken, grants, consented>> /\ UNCHANGED owners

callKeeps == <<verdict, under, due, deciding, woken, grants, consented>>

settles_UnlessRejected(c) == approval[c] # "rejected"

\* What execute() makes of the approval wait_for returns.
settles(c) == approval[c] = "approved"

Resolve(c) == IF settles(c) THEN BeginRun(c) ELSE Refuse(c)

\* The announcement is out.  A caller that does not wait raises ApprovalRequired; one
\* that does finds the answer already there, or begins to wait for it.
Announced(c) ==
  /\ at[c] = "announcing"
  /\ IF ~request[c].waits THEN GoTo(c, "parked") /\ UNCHANGED <<entry, began>>
     ELSE IF approval[c] = "pending" THEN GoTo(c, "waiting") /\ UNCHANGED <<entry, began>>
     ELSE Resolve(c)
  /\ UNCHANGED approval /\ UNCHANGED callKeeps /\ UNCHANGED owners

Woken(c) ==
  /\ at[c] = "waiting" /\ c \in woken
  /\ Resolve(c)
  /\ UNCHANGED approval /\ UNCHANGED callKeeps /\ UNCHANGED owners

expires_Unanswered(c) == c \in due /\ approval[c] = "pending"

expires(c) == c \in due

\* The wait is as long as the approval lives.  It expires whatever was decided but not
\* yet delivered, and even a delivery the call has not been resumed with.
Timeout(c) ==
  /\ at[c] = "waiting" /\ expires(c)
  /\ approval' = [approval EXCEPT ![c] = "expired"]
  /\ GoTo(c, "expiring")
  /\ UNCHANGED <<entry, began>> /\ UNCHANGED callKeeps /\ UNCHANGED owners

Expired(c) ==
  /\ at[c] = "expiring"
  /\ Resolve(c)
  /\ UNCHANGED approval /\ UNCHANGED callKeeps /\ UNCHANGED owners

\* The entry is in the chain before it is stored; a store that fails raises.
Refused(c) ==
  /\ at[c] = "refusing"
  /\ \E end \in {"denied", "raised"} : GoTo(c, end)
  /\ UNCHANGED <<entry, began, approval>> /\ UNCHANGED callKeeps /\ UNCHANGED owners

ToolReturns(c) ==
  /\ at[c] = "running"
  /\ GoTo(c, "charging")
  /\ UNCHANGED <<entry, began, approval>> /\ UNCHANGED callKeeps /\ UNCHANGED owners

ToolRaises(c) ==
  /\ at[c] = "running"
  /\ GoTo(c, "failing") /\ Log(c, "failed")
  /\ UNCHANGED <<began, approval>> /\ UNCHANGED callKeeps /\ UNCHANGED owners

Failed(c) ==
  /\ at[c] = "failing"
  /\ GoTo(c, "raised")
  /\ UNCHANGED <<entry, began, approval>> /\ UNCHANGED callKeeps /\ UNCHANGED owners

\* charge() comes before the entry, and raises on a breach or a failed save.
Charged(c) ==
  /\ at[c] = "charging"
  /\ \/ GoTo(c, "recording") /\ Log(c, "ran")
     \/ GoTo(c, "raised") /\ UNCHANGED entry
  /\ UNCHANGED <<began, approval>> /\ UNCHANGED callKeeps /\ UNCHANGED owners

\* An entry that could not be stored is not the caller's failure: the tool has run.
Recorded(c) ==
  /\ at[c] = "recording"
  /\ GoTo(c, "done")
  /\ UNCHANGED <<entry, began, approval>> /\ UNCHANGED callKeeps /\ UNCHANGED owners

\* The deadline of the attempt (_run_step's wait_for) cancels the call where it is.
CutShort(c) ==
  /\ at[c] \notin Ended \cup {"idle"} /\ request[c].waits
  /\ GoTo(c, "cut")
  /\ UNCHANGED <<entry, began, approval>> /\ UNCHANGED callKeeps /\ UNCHANGED owners

-------------------------------------------------------------------------------
(* The owner and time.                                                       *)

TimePasses(c) ==
  /\ approval[c] # "none" /\ c \notin due
  /\ due' = due \cup {c}
  /\ UNCHANGED <<at, verdict, under, approval, deciding, woken, grants, entry, began, consented>>
  /\ UNCHANGED owners

\* A decision that has been made is not made again.
answerable(c) == approval[c] = "pending"

\* ApprovalService.decide.  A late answer expires the approval (and so does the
\* worker's sweep, which answers no to whatever is due); a standing scope that was
\* not offered is narrowed to once; a grant that is refused raises, and nobody is told.
Answer(c, approve, standing) ==
  /\ answerable(c)
  /\ IF c \in due
     THEN /\ approval' = [approval EXCEPT ![c] = "expired"]
          /\ UNCHANGED <<deciding, grants, consented>>
     ELSE /\ approval' = [approval EXCEPT ![c] = IF approve THEN "approved" ELSE "rejected"]
          /\ consented' = IF approve THEN consented \cup {c} ELSE consented
          /\ IF approve /\ standing /\ offersStanding(c)
             THEN IF grantable(c)
                  THEN grants' = grants \cup {grant(c)} /\ deciding' = deciding \cup {c}
                  ELSE UNCHANGED <<grants, deciding>>
             ELSE deciding' = deciding \cup {c} /\ UNCHANGED grants
  /\ UNCHANGED <<at, verdict, under, due, woken, entry, began>> /\ UNCHANGED owners

\* The announcement is out, and the call that waits, if one still does, is woken.
Delivered(c) ==
  /\ c \in deciding
  /\ deciding' = deciding \ {c}
  /\ woken' = IF at[c] = "waiting" THEN woken \cup {c} ELSE woken
  /\ UNCHANGED <<at, verdict, under, approval, due, grants, entry, began, consented>> /\ UNCHANGED owners

\* ApprovalService.pending: looking at the list expires what is due.
ListPending ==
  /\ \E c \in due : approval[c] = "pending"
  /\ approval' = [c \in Calls |-> IF approval[c] = "pending" /\ c \in due THEN "expired"
                                  ELSE approval[c]]
  /\ UNCHANGED <<at, verdict, under, due, deciding, woken, grants, entry, began, consented>>
  /\ UNCHANGED owners

\* revoke_grant, or the grant's own expiry.
LoseGrant ==
  /\ \E g \in grants : grants' = grants \ {g}
  /\ UNCHANGED <<at, verdict, under, approval, due, deciding, woken, entry, began, consented>>
  /\ UNCHANGED owners

SetLockdown ==
  /\ lockdown' = ~lockdown
  /\ UNCHANGED <<request, at, verdict, under, approval, due, deciding, woken, grants, autonomy,
                 entry, began, consented>>

SetAutonomy ==
  /\ autonomy' \in Autonomy \ {autonomy}
  /\ UNCHANGED <<request, at, verdict, under, approval, due, deciding, woken, grants, lockdown,
                 entry, began, consented>>

CallStep(c) ==
  \/ Announced(c) \/ Woken(c) \/ Timeout(c) \/ Expired(c) \/ Refused(c) \/ ToolReturns(c)
  \/ ToolRaises(c) \/ Failed(c) \/ Charged(c) \/ Recorded(c)

Next ==
  \/ \E c \in Calls : Execute(c) \/ CallStep(c) \/ CutShort(c)
  \/ \E c \in Calls : TimePasses(c) \/ Delivered(c)
  \/ \E c \in Calls, approve, standing \in BOOLEAN : Answer(c, approve, standing)
  \/ ListPending
  \/ LoseGrant
  \/ SetLockdown
  \/ SetAutonomy

Spec == Init /\ [][Next]_vars

\* The event loop runs what can run, time passes, and a tool returns or raises (its
\* device call has a timeout).  Nothing is assumed of the owner or of the deadline.
FairSpec == Spec /\ \A c \in Calls : WF_vars(CallStep(c)) /\ WF_vars(TimePasses(c))

-------------------------------------------------------------------------------
(* Properties.                                                                *)

TypeOK ==
  /\ request \in Requests
  /\ at \in [Calls -> {"idle", "announcing", "waiting", "expiring", "refusing", "running",
                       "failing", "charging", "recording"} \cup Ended]
  /\ verdict \in [Calls -> {"none", "AUTO", "ASK_ONCE", "ASK_ALWAYS", "BLOCK"}]
  /\ under \in [Calls -> SUBSET Calls]
  /\ approval \in [Calls -> {"none", "pending", "approved", "rejected", "expired"}]
  /\ due \in SUBSET Calls /\ deciding \in SUBSET Calls /\ woken \in SUBSET Calls
  /\ grants \in SUBSET [action : Actions, glob : STRING, by : Calls]
  /\ lockdown \in BOOLEAN /\ autonomy \in Autonomy
  /\ entry \in [Calls -> {"none", "blocked", "failed", "ran"}]
  /\ began \in SUBSET Calls /\ consented \in SUBSET Calls

\* Silence is never consent (par. 38): a tool that had to be asked about runs only if
\* the owner said yes to this very call before its approval expired.
RunsOnlyOnConsent == \A c \in began : asks(c) => c \in consented

\* A yes goes as far as it was given, at every autonomy level and whatever grants have
\* piled up.  A tool that ran without a yes of its own was either nothing to ask about
\* (within the machine, no risk, and it can be undone), or ran under the standing yes to
\* another call with the same action, wide enough for this one, of a kind that may be kept.
\* Neither covers what is sent from another machine and changes this one; and no yes at
\* all covers what is blocked or barred.
AskedEveryTime ==
  /\ \A c \in began \ consented :
       /\ \/ /\ under[c] = {}
             /\ policy(c).default = "AUTO" /\ level(c) < EXTERNAL
             /\ policy(c).reversible /\ ~policy(c).risky
          \/ \E d \in consented :
               /\ under[c] = {d} /\ verdict[d] = "ASK_ONCE"
               /\ request[d].action = request[c].action /\ request[d].glob \in request[c].matches
               /\ policy(c).default \notin {"ASK_ALWAYS", "BLOCK"}
       /\ request[c].remote => level(c) < MODIFY /\ ~policy(c).named
  /\ \A c \in began : ~(policy(c).blocked \/ policy(c).default = "BLOCK" \/ request[c].barred)

\* Refused is refused: once an approval was rejected or has expired, no later answer,
\* delivery or wake-up starts its tool.
RefusedNeverRuns ==
  [][\A c \in Calls : approval[c] \in {"rejected", "expired"} /\ c \notin began =>
       c \notin began' /\ approval'[c] # "approved"]_vars

\* A caller told "denied" can rely on it: nothing ran, and the trail says blocked; a
\* caller given a result has it in the trail.
AnswerMatchesTheTrail ==
  \A c \in Calls :
    /\ at[c] = "denied" => c \notin began /\ entry[c] = "blocked"
    /\ at[c] = "done" => c \in began /\ entry[c] = "ran"

\* No call waits for ever, whether or not the owner ever answers.
CallEnds == \A c \in Calls : at[c] \notin Ended \cup {"idle"} ~> at[c] \in Ended

-------------------------------------------------------------------------------
(* What the documentation says, and the code does not do.                     *)

\* The emergency stop leaves the system read-only (docs/14 par. 14.5): nothing above
\* READ starts while it is locked down.
LockdownStopsTools == [][lockdown => \A c \in began' \ began : level(c) <= READ]_vars

\* "Everything is audited" (README rule 6): a call whose tool ran has left an entry.
EveryRunIsAudited == \A c \in began : at[c] \in Ended => entry[c] # "none"

\* "Always allow" is never global (permissions.py, add_grant): a standing yes is narrowed to
\* something.
GrantsAreNarrow == \A g \in grants : g.glob # "*"

\* "An approval gates work already under way" (engine.py): what the owner is asked
\* about is waiting for the answer.
PendingGatesWork ==
  \A c \in Calls : approval[c] = "pending" /\ c \notin due => at[c] \notin Ended

\* scopes_offered is "which answers the UI may present" (models.py): an answer given
\* with an offered scope reaches the call that waits for it.
OfferedAnswerIsTaken ==
  \A c \in Calls : approval[c] = "approved" /\ at[c] = "waiting" => c \in deciding \cup woken
===============================================================================
