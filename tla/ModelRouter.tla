---------------------------- MODULE ModelRouter ----------------------------
(***************************************************************************)
(* Which model provider answers a call: the breaker that parks a failing   *)
(* provider for a while, the privacy stop, and the spending ceiling        *)
(* (core/model_router.py, core/cost.py).                                   *)
(*                                                                         *)
(* A call is suspended while its provider works on it, so the breaker, the *)
(* ledger and the parked set move under it.  Tick is the clock, in units   *)
(* of which Cooldown (BREAKER_COOLDOWN) is a number.  Prompts, tokens and  *)
(* the redactor are left out; a paid answer costs one unit.                *)
(***************************************************************************)
EXTENDS Naturals, FiniteSets, FiniteSetsExt

CONSTANTS Calls, Trip, Cooldown, Cap, MaxLost, Tiers   \* MaxLost bounds the charges storage has lost

Local == "rule-based"
\* The two ways the container wires the router: paid providers over the rule-based one, or
\* one local model for every tier.
Wirings == {[t \in Tiers |-> IF t = "LOCAL" THEN Local ELSE t], [t \in Tiers |-> "ollama"]}
Names == (Tiers \ {"LOCAL"}) \cup {"ollama", Local}
IsLocal(n) == n \in {"ollama", Local}
MayFail == Names \ {Local}
NotHeld == Cooldown + 1

VARIABLES
  providers,   \* tier -> provider, fixed when the container is built
  fails,       \* _breaker
  held,        \* _tripped_at: how long ago, up to Cooldown; NotHeld when there is no entry
  calls,       \* the completions in flight
  spent,       \* the charges of today the meter knows of
  stored       \* those of them that reached the table

routerVars == <<providers, fails, held, calls, spent, stored>>

NoCall == [at |-> "none", name |-> Local, secret |-> FALSE]

TypeOK ==
  /\ providers \in Wirings
  /\ fails \in [Names -> 0..(Trip + Cardinality(Calls))]
  /\ held \in [Names -> 0..NotHeld]
  /\ calls \in [Calls -> [at : {"none", "asked", "fallback"}, name : Names, secret : BOOLEAN]]
  /\ spent \in Nat /\ stored \in 0..spent

Shut == [fails |-> [n \in Names |-> 0], held |-> [n \in Names |-> NotHeld]]

Init ==
  /\ providers \in Wirings /\ fails = Shut.fails /\ held = Shut.held
  /\ calls = [c \in Calls |-> NoCall]
  /\ spent = 0 /\ stored = 0
-----------------------------------------------------------------------------
\* A provider is held out of selection from the third failure until its cooldown is served.
parked(b, n) == b.fails[n] >= Trip /\ b.held[n] < Cooldown
breaker == [fails |-> fails, held |-> held]

\* Asking whether a provider is parked is what half-opens it: one more failure holds it again.
half_open(b, asked) ==
  LET served == {n \in asked : b.fails[n] >= Trip /\ ~parked(b, n)} IN
  [fails |-> [n \in Names |-> IF n \in served THEN Trip - 1 ELSE b.fails[n]],
   held |-> [n \in Names |-> IF n \in served THEN NotHeld ELSE b.held[n]]]

Breaker(b) == fails' = b.fails /\ held' = b.held

\* _resolve: the provider of the tier, or LOCAL's when that one is parked; choose raises when
\* both are, and nothing has changed then.
resolvable(b, tier) == ~parked(b, providers[tier])
asked(tier) == IF resolvable(breaker, tier) THEN {providers[tier]}
               ELSE {providers[tier], providers["LOCAL"]}
resolved(tier) == IF resolvable(breaker, tier) THEN tier ELSE "LOCAL"
choosable(b, tier) == resolvable(b, tier) \/ resolvable(b, "LOCAL")

\* Privacy can only pull the choice toward LOCAL.
wanted(tier, secret) == IF secret THEN "LOCAL" ELSE tier

\* _within_cap: a paid call degrades to LOCAL once the ceiling is reached, parked or not.
withinCap(tier) == IF tier # "LOCAL" /\ spent >= Cap THEN "LOCAL" ELSE tier

\* choose + complete up to the await.  The privacy stop looks at what choose resolved.
Ask(c, tier, secret) ==
  LET t == withinCap(resolved(wanted(tier, secret))) IN
  /\ calls[c].at = "none" /\ choosable(breaker, wanted(tier, secret))
  /\ secret => IsLocal(providers[resolved(wanted(tier, secret))])
  /\ calls' = [calls EXCEPT ![c] = [at |-> "asked", name |-> providers[t], secret |-> secret]]
  /\ Breaker(half_open(breaker, asked(wanted(tier, secret))))
  /\ UNCHANGED <<providers, spent, stored>>

\* record: the ledger in memory first, the table after it, and a failed write is counted.
Charged(n, kept) ==
  LET usd == IF IsLocal(n) THEN 0 ELSE 1 IN
  /\ kept \/ (usd = 1 /\ spent - stored < MaxLost)
  /\ spent' = spent + usd
  /\ stored' = IF kept THEN stored + usd ELSE stored

Done(c) == calls' = [calls EXCEPT ![c] = NoCall]

Answers(c, kept) ==
  LET n == calls[c].name IN
  /\ calls[c].at # "none" /\ Done(c) /\ Charged(n, kept)
  /\ IF calls[c].at = "asked" THEN Breaker([fails |-> [fails EXCEPT ![n] = 0],
                                            held |-> [held EXCEPT ![n] = NotHeld]])
                              ELSE UNCHANGED <<fails, held>>
  /\ UNCHANGED providers

\* _trip, and the one retry on LOCAL; nothing counts a failure of that retry.
trip(b, n) == [fails |-> [b.fails EXCEPT ![n] = @ + 1],
               held |-> [b.held EXCEPT ![n] = IF b.fails[n] + 1 >= Trip /\ @ = NotHeld
                                              THEN 0 ELSE @]]
Falls(c) ==
  calls' = [calls EXCEPT ![c] = IF providers["LOCAL"] = @.name THEN NoCall
              ELSE [@ EXCEPT !.at = "fallback", !.name = providers["LOCAL"]]]
Fails(c) ==
  LET n == calls[c].name IN
  /\ calls[c].at = "asked" /\ n \in MayFail
  /\ Breaker(trip(breaker, n)) /\ Falls(c)
  /\ UNCHANGED <<providers, spent, stored>>

\* The answer was charged, and deleting charges past retention raised: the same handler
\* takes it for a failure of the provider and asks LOCAL as well.
PruneFails(c) ==
  LET n == calls[c].name IN
  /\ calls[c].at = "asked" /\ Charged(n, TRUE)
  /\ Breaker(trip([fails |-> [fails EXCEPT ![n] = 0], held |-> [held EXCEPT ![n] = NotHeld]], n))
  /\ Falls(c) /\ UNCHANGED providers

Tick ==
  /\ held' = [n \in Names |-> IF held[n] < Cooldown THEN held[n] + 1 ELSE held[n]]
  /\ UNCHANGED <<providers, fails, calls, spent, stored>>

NewDay ==
  /\ spent' = 0 /\ stored' = 0
  /\ UNCHANGED <<providers, fails, held, calls>>

\* A restart reads the ledger back from the table, which is what makes the cap survive it.
Restart_Forgotten ==
  /\ Breaker(Shut) /\ calls' = [c \in Calls |-> NoCall] /\ spent' = 0
  /\ UNCHANGED <<providers, stored>>
Restart ==
  /\ Breaker(Shut) /\ calls' = [c \in Calls |-> NoCall] /\ spent' = stored
  /\ UNCHANGED <<providers, stored>>

RouterNext ==
  \/ \E tier \in Tiers, secret \in BOOLEAN :
       \E c \in Calls : Ask(c, tier, secret)
  \/ \E c \in Calls : \/ \E kept \in BOOLEAN : Answers(c, kept)
                      \/ Fails(c) \/ PruneFails(c)
  \/ Tick \/ NewDay \/ Restart
-----------------------------------------------------------------------------
\* "Holding, not banning": whatever order failures, late answers and repairs come in, a
\* provider out of selection always has a cooldown running that will let it back in.
HeldNotBanned == \A n \in Names : fails[n] >= Trip => held[n] <= Cooldown

\* What today cost, apart from the charges storage lost, exceeds the cap by no more than the
\* calls that were in flight when it was reached; a restart does not let it start again.
CapBinds == stored < Cap + Cardinality(Calls)
=============================================================================
