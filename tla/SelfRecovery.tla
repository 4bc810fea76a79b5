---------------------------- MODULE SelfRecovery ----------------------------
(***************************************************************************)
(* The Repair button: attempts bounded per component, the one repair that  *)
(* is wired (park every failing model provider), and the observation that  *)
(* decides what the owner is told (core/recovery.py, repairs.py,           *)
(* checkup.py).  It works on the router's breaker while calls go through.  *)
(***************************************************************************)
EXTENDS ModelRouter, SequencesExt

CONSTANTS Components, Presses, MaxAttempts, Quiet

VARIABLES
  attempts,   \* component -> [count, idle]: idle is the time since the last try
  presses,    \* repairs in flight
  streak      \* history: tries of a component since it was last quiet for longer than Quiet

recoveryVars == <<attempts, presses, streak>>

None == [count |-> 0, idle |-> Quiet + 1]

RecoveryTypeOK ==
  /\ TypeOK
  /\ attempts \in [Components -> [count : 0..(MaxAttempts + 1), idle : 0..(Quiet + 1)]]
  /\ presses \in [Presses -> {"none", "health", "verify"}]
  /\ streak \in [Components -> Nat]

RecoveryInit ==
  /\ Init /\ attempts = [k \in Components |-> None]
  /\ presses = [p \in Presses |-> "none"] /\ streak = [k \in Components |-> 0]
-----------------------------------------------------------------------------
\* The attempt is counted before the repair is awaited.  A record older than the window is
\* ignored by the check, and its count goes on from where it was: setdefault finds it.
\* (Counts above MaxAttempts + 1 are not told apart.)
exhausted(n) == attempts[n].count >= MaxAttempts /\ attempts[n].idle <= Quiet
Press(p, n) ==
  /\ presses[p] = "none" /\ ~exhausted(n)
  /\ attempts' = [attempts EXCEPT ![n] = [count |-> Min({@.count + 1, MaxAttempts + 1}), idle |-> 0]]
  /\ streak' = [streak EXCEPT ![n] = IF attempts[n].idle > Quiet THEN 1 ELSE @ + 1]
  /\ presses' = [presses EXCEPT ![p] = "health"]
  /\ UNCHANGED routerVars

\* park refuses the last provider that could still be chosen; asking about the others
\* half-opens them.
wired == {providers[t] : t \in Tiers}
survivors(b, n) == {m \in wired \ {n} : ~parked(b, m)}
park_Any(b, n) == [fails |-> [b.fails EXCEPT ![n] = Trip], held |-> [b.held EXCEPT ![n] = 0]]
park(b, n) ==
  LET h == half_open(b, wired \ {n}) IN
  IF survivors(b, n) = {} THEN h
  ELSE [fails |-> [h.fails EXCEPT ![n] = Trip], held |-> [h.held EXCEPT ![n] = 0]]

\* One after another, in the order in which they answered.
parkedAll(b, order) ==
  LET upTo[i \in 0..Len(order)] == IF i = 0 THEN b ELSE park(upTo[i - 1], order[i])
  IN upTo[Len(order)]

\* router.health() has answered, and everything that reported itself failing is parked in
\* one go.  Nothing failing, or nothing parked, is RepairImpossible.
Parks(p, failing) ==
  LET did == \E n \in failing : survivors(breaker, n) # {} IN
  /\ presses[p] = "health" /\ failing \subseteq wired \cap MayFail
  /\ \E order \in SetToSeqs(failing) : Breaker(parkedAll(breaker, order))
  /\ presses' = [presses EXCEPT ![p] = IF did THEN "verify" ELSE "none"]
  /\ UNCHANGED <<providers, calls, spent, stored, attempts, streak>>

\* The answer is the router's own choice held against a second round of health; making the
\* choice half-opens what it looks at.  What the owner is told is not kept here.
Verified(p, healthy) ==
  /\ presses[p] = "verify" /\ wired \ MayFail \subseteq healthy /\ healthy \subseteq wired
  /\ IF healthy = {} THEN UNCHANGED <<fails, held>>
                     ELSE Breaker(half_open(breaker, asked("FAST")))
  /\ presses' = [presses EXCEPT ![p] = "none"]
  /\ UNCHANGED <<providers, calls, spent, stored, attempts, streak>>

Wait == /\ Tick
        /\ attempts' = [k \in Components |-> [attempts[k] EXCEPT !.idle = Min({@ + 1, Quiet + 1})]]
        /\ UNCHANGED <<presses, streak>>

\* Nothing here is stored: a restart is a fresh budget.
ProcessRestarts ==
  /\ Restart /\ attempts' = [k \in Components |-> None]
  /\ presses' = [p \in Presses |-> "none"] /\ streak' = [k \in Components |-> 0]

RecoveryNext ==
  \/ \E p \in Presses :
       \/ \E k \in Components : Press(p, k)
       \/ \E failing \in SUBSET Names : Parks(p, failing)
       \/ \E healthy \in SUBSET Names : Verified(p, healthy)
  \/ Wait \/ ProcessRestarts
  \/ \E tier \in Tiers, secret \in BOOLEAN :
       \E c \in Calls : Ask(c, tier, secret) /\ UNCHANGED recoveryVars
  \/ \E c \in Calls :
       (\/ \E kept \in BOOLEAN : Answers(c, kept)
        \/ Fails(c) \/ PruneFails(c)) /\ UNCHANGED recoveryVars
  \/ NewDay /\ UNCHANGED recoveryVars

RecoverySpec == RecoveryInit /\ [][RecoveryNext]_<<routerVars, recoveryVars>>
-----------------------------------------------------------------------------
\* "A recovery that repeats forever is not a recovery": a component is tried at most
\* MaxAttempts times before it has been left alone for longer than the window, however many
\* Repair buttons are pressed while a repair is still at work.
AttemptsAreBounded == \A k \in Components : streak[k] <= MaxAttempts

\* A repair never takes the last model away: what could be chosen before the parking can
\* still be chosen after it, from some tier.
ParkingSpares ==
  \A p \in Presses : presses[p] = "health" =>
    \A failing \in SUBSET Names : Parks(p, failing) =>
      ((\E t \in Tiers : choosable(breaker, t)) => (\E t \in Tiers : choosable(breaker', t)))
RepairLeavesAModel == [][ParkingSpares]_<<routerVars, recoveryVars>>

\* "After this long with no failure, a component's attempt count resets" (recovery.py): a
\* component that gave no trouble for longer than the window has its whole budget again.
QuietHourRestores ==
  [][\A n \in Components : attempts[n].idle > Quiet /\ attempts'[n].idle = 0
       => attempts'[n].count = 1]_<<routerVars, recoveryVars>>
=============================================================================
