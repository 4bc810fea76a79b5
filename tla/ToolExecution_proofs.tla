------------------------ MODULE ToolExecution_proofs ------------------------
(***************************************************************************)
(* The consent properties of ToolExecution, for any number of calls, any   *)
(* policy table and any autonomy levels.  The invariant follows a call     *)
(* from the verdict it was given to the tool it starts: what a verdict     *)
(* says of the policy, what an approval says of the owner, and where a     *)
(* call can still be turned into a run.  Grants need a clause of their     *)
(* own: each is the standing yes given to one call, for what it asked for, *)
(* and nothing that must be asked about every time is ever granted.        *)
(***************************************************************************)
EXTENDS ToolExecution, TLAPS

Asking == {"announcing", "waiting", "expiring"}
Verdicts == {"none", "AUTO", "ASK_ONCE", "ASK_ALWAYS", "BLOCK"}
Grants == [action : Actions, glob : STRING, by : Calls]

\* What a call asks for is a row of the requests that may be made, of a policy's row.
LEMMA RequestType ==
  ASSUME TypeOK, NEW c \in Calls
  PROVE  request[c] \in RequestRow /\ policy(c) \in PolicyRow
<1>1. request \in [Calls -> RequestRow]
  BY ExecutionAssumption DEF TypeOK
<1> QED
  BY <1>1, ExecutionAssumption DEF policy, RequestRow

\* What the rules decide is a verdict of the vocabulary, and never "none".
LEMMA DecideType ==
  ASSUME TypeOK, NEW c \in Calls
  PROVE  decide(c) \in Verdicts \ {"none"}
<1>1. policy(c) \in PolicyRow
  BY RequestType
<1>2. default(policy(c)) \in {"AUTO", "ASK_ONCE", "ASK_ALWAYS", "BLOCK"}
  BY <1>1 DEF default, tightened, PolicyRow
<1>3. byPolicy(c) \in {"AUTO", "ASK_ONCE", "ASK_ALWAYS", "BLOCK"}
  BY <1>2 DEF byPolicy
<1> QED
  BY <1>3 DEF decide, Verdicts

\* The grant a call would use is of the type grants have.
LEMMA GrantType == ASSUME TypeOK, NEW c \in Calls PROVE grant(c) \in Grants
BY RequestType DEF grant, Grants, RequestRow

-------------------------------------------------------------------------------
(* Types.                                                                    *)

\* Initially every call is idle.
LEMMA TypeInit == Init => TypeOK
BY DEF Init, TypeOK, Ended

\* What execute() does after its first await: it moves the call and writes its entry.
LEMMA CallType ==
  ASSUME TypeOK, NEW c \in Calls, CallStep(c) \/ CutShort(c)
  PROVE  TypeOK'
<1> USE DEF callKeeps, owners, GoTo, Log, BeginRun, Refuse, Resolve, Ended
<1>1. CASE Announced(c)
  BY <1>1 DEF Announced, TypeOK
<1>2. CASE Woken(c)
  BY <1>2 DEF Woken, TypeOK
<1>3. CASE Timeout(c)
  BY <1>3 DEF Timeout, TypeOK
<1>4. CASE Expired(c)
  BY <1>4 DEF Expired, TypeOK
<1>5. CASE Refused(c)
  BY <1>5 DEF Refused, TypeOK
<1>6. CASE ToolReturns(c)
  BY <1>6 DEF ToolReturns, TypeOK
<1>7. CASE ToolRaises(c)
  BY <1>7 DEF ToolRaises, TypeOK
<1>8. CASE Failed(c)
  BY <1>8 DEF Failed, TypeOK
<1>9. CASE Charged(c)
  BY <1>9 DEF Charged, TypeOK
<1>10. CASE Recorded(c)
  BY <1>10 DEF Recorded, TypeOK
<1>11. CASE CutShort(c)
  BY <1>11 DEF CutShort, TypeOK
<1> QED
  BY <1>1, <1>2, <1>3, <1>4, <1>5, <1>6, <1>7, <1>8, <1>9, <1>10, <1>11 DEF CallStep

\* Every step keeps the types.
LEMMA TypeStep == TypeOK /\ [Next]_vars => TypeOK'
<1> SUFFICES ASSUME TypeOK, [Next]_vars PROVE TypeOK'
  OBVIOUS
<1>1. ASSUME NEW c \in Calls, Execute(c) PROVE TypeOK'
  <2>1. decide(c) \in Verdicts
    BY DecideType
  <2>2. under' \in [Calls -> SUBSET Calls]
    <3>1. \A g \in grants : g.by \in Calls
      BY DEF TypeOK
    <3> QED
      BY <1>1, <3>1 DEF Execute, TypeOK, covering
  <2>3. /\ at' \in [Calls -> {"idle", "announcing", "waiting", "expiring", "refusing", "running",
                             "failing", "charging", "recording"} \cup Ended]
        /\ entry' \in [Calls -> {"none", "blocked", "failed", "ran"}] /\ began' \in SUBSET Calls
    BY <1>1 DEF Execute, BeginRun, Refuse, GoTo, Log, TypeOK
  <2>4. /\ verdict' \in [Calls -> Verdicts]
        /\ approval' \in [Calls -> {"none", "pending", "approved", "rejected", "expired"}]
    BY <1>1, <2>1 DEF Execute, TypeOK, Verdicts
  <2> QED
    BY <1>1, <2>2, <2>3, <2>4 DEF Execute, owners, TypeOK, Verdicts
<1>2. ASSUME NEW c \in Calls, CallStep(c) \/ CutShort(c) PROVE TypeOK'
  BY <1>2, CallType
<1>3. ASSUME NEW c \in Calls, TimePasses(c) PROVE TypeOK'
  BY <1>3 DEF TimePasses, owners, TypeOK
<1>4. ASSUME NEW c \in Calls, Delivered(c) PROVE TypeOK'
  BY <1>4 DEF Delivered, owners, TypeOK
<1>5. ASSUME NEW c \in Calls, NEW approve \in BOOLEAN, NEW standing \in BOOLEAN,
             Answer(c, approve, standing)
      PROVE  TypeOK'
  BY <1>5, GrantType DEF Answer, owners, TypeOK, Grants
<1>6. CASE ListPending
  BY <1>6 DEF ListPending, owners, TypeOK
<1>7. CASE LoseGrant
  BY <1>7 DEF LoseGrant, owners, TypeOK
<1>8. CASE SetLockdown
  BY <1>8 DEF SetLockdown, TypeOK
<1>9. CASE SetAutonomy
  BY <1>9 DEF SetAutonomy, TypeOK
<1>10. CASE UNCHANGED vars
  BY <1>10 DEF vars, owners, TypeOK
<1> QED
  BY <1>1, <1>2, <1>3, <1>4, <1>5, <1>6, <1>7, <1>8, <1>9, <1>10 DEF Next

\* The state of every call is always of its type.
THEOREM TypeCorrect == Spec => []TypeOK
BY TypeInit, TypeStep, PTL DEF Spec

-------------------------------------------------------------------------------
(* The invariant.                                                            *)

\* What must never run; what there is nothing to ask about; and what neither a grant nor the
\* policy lets through when it comes from another machine.
Never(c) == policy(c).blocked \/ policy(c).default = "BLOCK" \/ request[c].barred
Free(c) ==
  /\ policy(c).default = "AUTO" /\ level(c) < EXTERNAL
  /\ policy(c).reversible /\ ~policy(c).risky
FromAfar(c) == request[c].remote => level(c) < MODIFY /\ ~policy(c).named

\* The standing yes that covers c was given to d, of a kind that may be remembered.
Covers(d, c) ==
  /\ d \in consented /\ verdict[d] = "ASK_ONCE"
  /\ request[d].action = request[c].action /\ request[d].glob \in request[c].matches
  /\ policy(c).default \notin {"ASK_ALWAYS", "BLOCK"}
Unasked(c) ==
  \/ under[c] = {} /\ Free(c)
  \/ \E d \in Calls : under[c] = {d} /\ Covers(d, c)

\* Where a call is, and what that says of its tool, its approval and its entry.
Place(c) ==
  /\ at[c] = "idle" => approval[c] = "none" /\ c \notin began /\ c \notin consented /\ under[c] = {}
  /\ at[c] \in Asking => c \notin began /\ asks(c)
  /\ at[c] \in {"refusing", "denied"} => c \notin began /\ entry[c] = "blocked"
  /\ at[c] \in {"running", "charging", "recording", "done"} => c \in began
  /\ at[c] \in {"recording", "done"} => entry[c] = "ran"

\* What the verdict says of the policy, and the approval of the owner.
Meaning(c) ==
  /\ verdict[c] = "AUTO" => Unasked(c) /\ FromAfar(c) /\ ~Never(c)
  /\ asks(c) => ~Never(c)
  /\ approval[c] = "approved" => c \in consented
  /\ c \in began => verdict[c] = "AUTO" \/ (asks(c) /\ c \in consented)

\* A grant is the standing yes given to a call, for its action and its glob, and nothing
\* that must be asked about every time, or must never run, is granted.
Tame(g) ==
  /\ g.by \in consented /\ verdict[g.by] = "ASK_ONCE"
  /\ g.action = request[g.by].action /\ g.glob = request[g.by].glob
  /\ Policy[g.action].default \in {"AUTO", "ASK_ONCE"}
GrantsAreTame == \A g \in grants : Tame(g)

ConsentInv ==
  /\ TypeOK
  /\ \A c \in Calls : Place(c) /\ Meaning(c)
  /\ GrantsAreTame

\* Initially no call has begun and nothing is granted.
LEMMA ConsentInit == Init => ConsentInv
<1> SUFFICES ASSUME Init PROVE (\A c \in Calls : Place(c) /\ Meaning(c)) /\ GrantsAreTame
  BY TypeInit DEF ConsentInv
<1> QED
  BY DEF Init, Place, Meaning, GrantsAreTame, asks, Asking

\* The rules: AUTO is given only to what is free or granted, never to what comes from afar
\* and must be confirmed, and neither AUTO nor a question to what must never run.
LEMMA DecideMeaning ==
  ASSUME ConsentInv, NEW c \in Calls
  PROVE  /\ decide(c) = "AUTO" => FromAfar(c) /\ ~Never(c) /\ (covering(c) = {} => Free(c))
         /\ decide(c) \in {"ASK_ONCE", "ASK_ALWAYS"} => ~Never(c)
<1>1. policy(c) \in PolicyRow /\ request[c] \in RequestRow
  BY RequestType DEF ConsentInv
<1>2. policy(c).default \in {"ASK_ONCE", "ASK_ALWAYS", "BLOCK"} =>
        default(policy(c)) = policy(c).default
  BY <1>1 DEF default, tightened
<1>3. level(c) \in Int
  BY <1>1 DEF level, PolicyRow, Levels
<1>4. byPolicy(c) = "AUTO" => Free(c)
  <2>1. policy(c).default \in {"AUTO", "ASK_ONCE", "ASK_ALWAYS", "BLOCK"}
    BY <1>1 DEF PolicyRow
  <2>2. byPolicy(c) = "AUTO" => default(policy(c)) = "AUTO"
    BY DEF byPolicy
  <2>3. byPolicy(c) = "AUTO" => level(c) < EXTERNAL /\ policy(c).reversible /\ ~policy(c).risky
    BY <1>3, <2>2 DEF byPolicy, EXTERNAL
  <2> QED
    BY <1>2, <2>1, <2>2, <2>3 DEF Free
<1>5. ~blocks(c) => ~Never(c)
  BY <1>2 DEF blocks, Never
<1>6. ~remoteConfirm(c) => FromAfar(c)
  BY <1>3 DEF remoteConfirm, FromAfar, MODIFY
<1> QED
  BY <1>4, <1>5, <1>6 DEF decide

\* What may be granted is not something to be asked about every time.
LEMMA GrantableIsTame ==
  ASSUME TypeOK, NEW c \in Calls, grantable(c)
  PROVE  Policy[grant(c).action].default \in {"AUTO", "ASK_ONCE"}
<1>1. policy(c) \in PolicyRow
  BY RequestType
<1> QED
  BY <1>1 DEF grantable, default, tightened, grant, policy

\* What is asked for does not change while it is decided.
LEMMA RequestFixed == [Next]_vars => UNCHANGED request
BY DEF Next, vars, Execute, CallStep, CutShort, Announced, Woken, Timeout, Expired, Refused,
   ToolReturns, ToolRaises, Failed, Charged, Recorded, TimePasses, Delivered, Answer, ListPending,
   LoseGrant, SetLockdown, SetAutonomy, owners

\* A yes that covers a call keeps covering it, as long as what was asked for and the verdict
\* on it stay.
LEMMA CoversStays ==
  ASSUME NEW c \in Calls, NEW d \in Calls, Covers(d, c), UNCHANGED request,
         verdict'[d] = verdict[d], d \in consented'
  PROVE  Covers(d, c)'
BY DEF Covers, policy

\* What a call that runs unasked rests on stays, as long as the yes it rests on does.
LEMMA UnaskedStays ==
  ASSUME NEW c \in Calls, Unasked(c), UNCHANGED request, under'[c] = under[c],
         \A d \in Calls : d \in consented => verdict'[d] = verdict[d] /\ d \in consented'
  PROVE  Unasked(c)'
<1>1. CASE under[c] = {} /\ Free(c)
  BY <1>1 DEF Unasked, Free, policy, level
<1>2. CASE \E d \in Calls : under[c] = {d} /\ Covers(d, c)
  <2>1. PICK d \in Calls : under[c] = {d} /\ Covers(d, c)
    BY <1>2
  <2>2. Covers(d, c)'
    BY <2>1, CoversStays DEF Covers
  <2> QED
    BY <2>1, <2>2 DEF Unasked
<1> QED
  BY <1>1, <1>2 DEF Unasked

\* A call that decides, waits or runs keeps its own place and meaning.
LEMMA ExecuteKeeps ==
  ASSUME ConsentInv, NEW c \in Calls, Execute(c)
  PROVE  (Place(c) /\ Meaning(c))'
<1>1. Place(c) /\ Meaning(c) /\ TypeOK
  BY DEF ConsentInv
<1>2. /\ verdict' = [verdict EXCEPT ![c] = decide(c)] /\ at[c] = "idle"
      /\ UNCHANGED <<grants, consented>> /\ UNCHANGED request
  BY DEF Execute, owners
<1>3. verdict'[c] = decide(c) /\ UNCHANGED <<Never(c), FromAfar(c), Free(c), policy(c)>>
  BY <1>1, <1>2 DEF TypeOK, FromAfar, Free, Never, policy, level
<1>4. decide(c) = "AUTO" => Unasked(c)'
  <2>1. CASE covering(c) = {}
    <3>1. decide(c) = "AUTO" => Free(c)'
      BY <1>3, <2>1, DecideMeaning
    <3>2. under'[c] = under[c]
      BY <2>1 DEF Execute
    <3>3. under[c] = {}
      BY <1>1, <1>2 DEF Place
    <3> QED
      BY <3>1, <3>2, <3>3 DEF Unasked
  <2>2. CASE covering(c) # {} /\ decide(c) = "AUTO"
    <3>1. PICK g \in covering(c) : under' = [under EXCEPT ![c] = {g.by}]
      BY <2>2 DEF Execute
    <3>2. Tame(g) /\ g.action = request[c].action /\ g.glob \in request[c].matches
      BY <3>1 DEF covering, ConsentInv, GrantsAreTame
    <3>3. g.by \in Calls /\ g.by # c
      BY <1>1, <1>2, <3>2 DEF Tame, Place, TypeOK
    <3>4. Covers(g.by, c)
      BY <3>2 DEF Tame, Covers, policy
    <3>5. Covers(g.by, c)'
      BY <1>1, <1>2, <3>2, <3>3, <3>4, CoversStays DEF TypeOK, Tame
    <3>6. under'[c] = {g.by}
      BY <1>1, <3>1 DEF TypeOK
    <3> QED
      BY <3>3, <3>5, <3>6 DEF Unasked
  <2> QED BY <2>1, <2>2
<1>5. decide(c) # "AUTO" => under'[c] = {}
  BY <1>1, <1>2 DEF Execute, Place
<1>6. CASE decide(c) = "AUTO" /\ BeginRun(c) /\ UNCHANGED approval
  BY <1>1, <1>2, <1>3, <1>4, <1>6, DecideMeaning
  DEF BeginRun, GoTo, Place, Meaning, asks, Asking, TypeOK
<1>7. CASE decide(c) = "BLOCK" /\ Refuse(c) /\ UNCHANGED approval
  BY <1>1, <1>2, <1>3, <1>5, <1>7 DEF Refuse, GoTo, Log, Place, Meaning, asks, Asking, TypeOK
<1>8. CASE /\ decide(c) \in {"ASK_ONCE", "ASK_ALWAYS"}
           /\ approval' = [approval EXCEPT ![c] = "pending"]
           /\ GoTo(c, "announcing") /\ UNCHANGED <<entry, began>>
  BY <1>1, <1>2, <1>3, <1>5, <1>8, DecideMeaning
  DEF GoTo, Place, Meaning, asks, Asking, TypeOK
<1> QED
  BY <1>6, <1>7, <1>8 DEF Execute

\* A call keeps its own place and meaning as it is resumed.
LEMMA CallKeeps ==
  ASSUME ConsentInv, NEW c \in Calls, CallStep(c) \/ CutShort(c)
  PROVE  (Place(c) /\ Meaning(c))'
<1>1. Place(c) /\ Meaning(c) /\ TypeOK
  BY DEF ConsentInv
<1>2. UNCHANGED <<verdict, under, consented, grants>> /\ UNCHANGED request
  BY DEF CallStep, CutShort, Announced, Woken, Timeout, Expired, Refused, ToolReturns, ToolRaises,
     Failed, Charged, Recorded, callKeeps, owners
<1>a. UNCHANGED <<Never(c), FromAfar(c)>> /\ (Unasked(c) => Unasked(c)')
  <2>1. UNCHANGED <<Never(c), FromAfar(c)>>
    BY <1>2 DEF Never, FromAfar, policy, level
  <2>2. Unasked(c) => Unasked(c)'
    BY <1>2, UnaskedStays
  <2> QED BY <2>1, <2>2
<1> USE <1>a DEF Place, Meaning, asks, Asking, GoTo, Log
<1>3. ASSUME Resolve(c), UNCHANGED approval, at[c] \in Asking PROVE (Place(c) /\ Meaning(c))'
  <2>1. CASE settles(c)
    BY <1>1, <1>2, <1>3, <2>1 DEF Resolve, settles, BeginRun, TypeOK
  <2>2. CASE ~settles(c)
    BY <1>1, <1>2, <1>3, <2>2 DEF Resolve, Refuse, TypeOK
  <2> QED BY <2>1, <2>2
<1>4. CASE Announced(c)
  <2>1. CASE Resolve(c)
    BY <1>3, <1>4, <2>1 DEF Announced
  <2>2. CASE GoTo(c, "parked") /\ UNCHANGED <<entry, began>>
    BY <1>1, <1>2, <1>4, <2>2 DEF Announced, TypeOK
  <2>3. CASE GoTo(c, "waiting") /\ UNCHANGED <<entry, began>>
    BY <1>1, <1>2, <1>4, <2>3 DEF Announced, TypeOK
  <2> QED BY <1>4, <2>1, <2>2, <2>3 DEF Announced
<1>5. CASE Woken(c)
  BY <1>3, <1>5 DEF Woken
<1>6. CASE Timeout(c)
  BY <1>1, <1>2, <1>6 DEF Timeout, TypeOK
<1>7. CASE Expired(c)
  BY <1>3, <1>7 DEF Expired
<1>8. CASE Refused(c)
  BY <1>1, <1>2, <1>8 DEF Refused, TypeOK
<1>9. CASE ToolReturns(c)
  BY <1>1, <1>2, <1>9 DEF ToolReturns, TypeOK
<1>10. CASE ToolRaises(c)
  BY <1>1, <1>2, <1>10 DEF ToolRaises, TypeOK
<1>11. CASE Failed(c)
  BY <1>1, <1>2, <1>11 DEF Failed, TypeOK
<1>12. CASE Charged(c)
  BY <1>1, <1>2, <1>12 DEF Charged, TypeOK
<1>13. CASE Recorded(c)
  BY <1>1, <1>2, <1>13 DEF Recorded, TypeOK
<1>14. CASE CutShort(c)
  BY <1>1, <1>2, <1>14 DEF CutShort, TypeOK, Ended
<1> QED
  BY <1>4, <1>5, <1>6, <1>7, <1>8, <1>9, <1>10, <1>11, <1>12, <1>13, <1>14 DEF CallStep

\* A call that nothing touches keeps its place and meaning, as long as the yeses do.
LEMMA UntouchedKeeps ==
  ASSUME NEW c \in Calls, Place(c), Meaning(c), UNCHANGED request,
         UNCHANGED <<at[c], verdict[c], under[c], approval[c], entry[c]>>,
         (c \in began) <=> (c \in began'), (c \in consented) <=> (c \in consented'),
         \A d \in Calls : d \in consented => verdict'[d] = verdict[d] /\ d \in consented'
  PROVE  (Place(c) /\ Meaning(c))'
<1>1. UNCHANGED <<Never(c), FromAfar(c)>>
  BY DEF Never, FromAfar, policy, level
<1>2. Unasked(c) => Unasked(c)'
  BY UnaskedStays
<1> QED
  BY <1>1, <1>2 DEF Place, Meaning, asks

\* A step of one call touches no other.
LEMMA OthersUntouched ==
  ASSUME TypeOK, NEW c \in Calls, NEW r \in Calls \ {c}, Execute(c) \/ CallStep(c) \/ CutShort(c)
  PROVE  /\ UNCHANGED <<at[r], verdict[r], under[r], approval[r], entry[r]>>
         /\ (r \in began) <=> (r \in began')
         /\ (r \in consented) <=> (r \in consented')
BY DEF TypeOK, Execute, CallStep, CutShort, Announced, Woken, Timeout, Expired, Refused, ToolReturns,
   ToolRaises, Failed, Charged, Recorded, callKeeps, GoTo, Log, BeginRun, Refuse, Resolve

\* A grant stays what it was as long as the yes that gave it does.
LEMMA TameStays ==
  ASSUME NEW g, Tame(g), UNCHANGED request, verdict'[g.by] = verdict[g.by], g.by \in consented'
  PROVE  Tame(g)'
BY DEF Tame

\* Every step of the system keeps the invariant.
LEMMA ConsentStep == ConsentInv /\ [Next]_vars => ConsentInv'
<1> SUFFICES ASSUME ConsentInv, [Next]_vars
             PROVE  (\A r \in Calls : Place(r) /\ Meaning(r))' /\ GrantsAreTame'
  BY TypeStep DEF ConsentInv
<1>0. /\ TypeOK /\ (\A r \in Calls : Place(r) /\ Meaning(r)) /\ GrantsAreTame
      /\ consented \subseteq Calls
  BY DEF ConsentInv, TypeOK
<1>r. UNCHANGED request
  BY RequestFixed
<1>1. ASSUME NEW c \in Calls, Execute(c) \/ CallStep(c) \/ CutShort(c)
      PROVE  (\A r \in Calls : Place(r) /\ Meaning(r))' /\ GrantsAreTame'
  <2>1. (Place(c) /\ Meaning(c))'
    BY <1>1, ExecuteKeeps, CallKeeps
  <2>2. UNCHANGED <<grants, consented>>
    BY <1>1 DEF Execute, CallStep, CutShort, Announced, Woken, Timeout, Expired, Refused,
       ToolReturns, ToolRaises, Failed, Charged, Recorded, callKeeps
  <2>3. \A d \in Calls : d \in consented => verdict'[d] = verdict[d] /\ d \in consented'
    <3>1. CASE Execute(c)
      <4>1. c \notin consented
        BY <1>0, <3>1 DEF Execute, Place
      <4> QED
        BY <1>0, <2>2, <3>1, <4>1 DEF Execute, TypeOK
    <3>2. CASE CallStep(c) \/ CutShort(c)
      BY <2>2, <3>2 DEF CallStep, CutShort, Announced, Woken, Timeout, Expired, Refused,
         ToolReturns, ToolRaises, Failed, Charged, Recorded, callKeeps
    <3> QED BY <1>1, <3>1, <3>2
  <2>4. ASSUME NEW r \in Calls \ {c} PROVE (Place(r) /\ Meaning(r))'
    BY <1>0, <1>1, <1>r, <2>3, OthersUntouched, UntouchedKeeps
  <2>5. \A g \in grants : Tame(g)'
    BY <1>0, <1>r, <2>3, TameStays DEF GrantsAreTame, Tame
  <2> QED
    BY <2>1, <2>2, <2>4, <2>5 DEF GrantsAreTame
<1>2. ASSUME NEW c \in Calls, NEW approve \in BOOLEAN, NEW standing \in BOOLEAN,
             Answer(c, approve, standing)
      PROVE  (\A r \in Calls : Place(r) /\ Meaning(r))' /\ GrantsAreTame'
  <2>1. /\ approval[c] = "pending" /\ UNCHANGED <<at, verdict, under, entry, began>>
        /\ \E how \in {"approved", "rejected", "expired"} :
             /\ approval' = [approval EXCEPT ![c] = how]
             /\ consented' = IF how = "approved" THEN consented \cup {c} ELSE consented
    BY <1>2 DEF Answer, answerable
  <2>2. \A d \in Calls : d \in consented => verdict'[d] = verdict[d] /\ d \in consented'
    BY <2>1
  <2>3. (Place(c) /\ Meaning(c))'
    <3>1. UNCHANGED <<Never(c), FromAfar(c)>>
      BY <1>r DEF Never, FromAfar, policy, level
    <3>2. Unasked(c) => Unasked(c)'
      BY <1>r, <2>1, <2>2, UnaskedStays
    <3> QED
      BY <1>0, <2>1, <3>1, <3>2 DEF TypeOK, Place, Meaning, asks
  <2>4. ASSUME NEW r \in Calls \ {c} PROVE (Place(r) /\ Meaning(r))'
    BY <1>0, <1>r, <2>1, <2>2, UntouchedKeeps DEF TypeOK
  <2>5. \A g \in grants : Tame(g)'
    BY <1>0, <1>r, <2>2, TameStays DEF GrantsAreTame, Tame
  <2>6. \/ UNCHANGED grants
        \/ /\ grantable(c) /\ offersStanding(c) /\ c \in consented'
           /\ grants' = grants \cup {grant(c)}
    BY <1>2 DEF Answer
  <2>7. CASE /\ grantable(c) /\ offersStanding(c) /\ c \in consented'
             /\ grants' = grants \cup {grant(c)}
    <3>1. Tame(grant(c))'
      BY <1>0, <1>r, <2>1, <2>7, GrantableIsTame DEF Tame, grant, offersStanding
    <3>2. grant(c)' = grant(c)
      BY <1>r DEF grant
    <3> QED
      BY <2>3, <2>4, <2>5, <2>7, <3>1, <3>2 DEF GrantsAreTame
  <2> QED
    BY <2>3, <2>4, <2>5, <2>6, <2>7 DEF GrantsAreTame
<1>3. CASE ListPending
  <2>1. \A r \in Calls :
          approval'[r] = approval[r] \/ (approval[r] = "pending" /\ approval'[r] = "expired")
    BY <1>0, <1>3 DEF ListPending, TypeOK
  <2>2. UNCHANGED <<at, verdict, under, entry, began, consented, grants>>
    BY <1>3 DEF ListPending
  <2>3. ASSUME NEW r \in Calls PROVE (Place(r) /\ Meaning(r))'
    <3>1. UNCHANGED <<Never(r), FromAfar(r)>>
      BY <1>r DEF Never, FromAfar, policy, level
    <3>2. Unasked(r) => Unasked(r)'
      BY <1>r, <2>2, UnaskedStays
    <3> QED
      BY <1>0, <2>1, <2>2, <3>1, <3>2 DEF Place, Meaning, asks
  <2>4. \A g \in grants : Tame(g)'
    BY <1>0, <1>r, <2>2, TameStays DEF GrantsAreTame, Tame
  <2> QED
    BY <2>2, <2>3, <2>4 DEF GrantsAreTame
<1>4. ASSUME UNCHANGED <<at, verdict, under, approval, entry, began, consented>>,
             grants' \subseteq grants
      PROVE  (\A r \in Calls : Place(r) /\ Meaning(r))' /\ GrantsAreTame'
  <2>1. \A g \in grants : Tame(g)'
    BY <1>0, <1>r, <1>4, TameStays DEF GrantsAreTame, Tame
  <2>2. \A r \in Calls : (Place(r) /\ Meaning(r))'
    BY <1>0, <1>r, <1>4, UntouchedKeeps
  <2> QED
    BY <1>4, <2>1, <2>2 DEF GrantsAreTame
<1>5. ASSUME NEW c \in Calls, TimePasses(c) \/ Delivered(c)
      PROVE  /\ UNCHANGED <<at, verdict, under, approval, entry, began, consented>>
             /\ grants' \subseteq grants
  BY <1>5 DEF TimePasses, Delivered
<1>6. CASE LoseGrant \/ SetLockdown \/ SetAutonomy \/ UNCHANGED vars
  BY <1>4, <1>6 DEF LoseGrant, SetLockdown, SetAutonomy, vars
<1> QED
  BY <1>1, <1>2, <1>3, <1>4, <1>5, <1>6 DEF Next

-------------------------------------------------------------------------------
(* What follows from it.                                                     *)

\* Silence is never consent: whatever is decided, expires, is delivered late or raced by
\* a deadline, a tool that had to be asked about runs only after the owner's own yes.
THEOREM ConsentHolds == Spec => []RunsOnlyOnConsent
<1>1. ConsentInv => RunsOnlyOnConsent
  BY DEF ConsentInv, TypeOK, Meaning, RunsOnlyOnConsent, asks
<1> QED
  BY ConsentInit, ConsentStep, <1>1, PTL DEF Spec

\* A yes goes as far as it was given: what ran without one of its own was nothing to ask
\* about, or was covered by the standing yes to another call for the same thing, and was not
\* sent from elsewhere to change this machine; at any autonomy, however grants pile up.
THEOREM AskedEveryTimeHolds == Spec => []AskedEveryTime
<1>1. ConsentInv => AskedEveryTime
  <2> SUFFICES ASSUME ConsentInv PROVE AskedEveryTime
    OBVIOUS
  <2>1. \A c \in began : c \in Calls /\ Meaning(c)
    BY DEF ConsentInv, TypeOK
  <2>2. \A c \in began : ~Never(c)
    BY <2>1 DEF Meaning
  <2>3. \A c \in began \ consented : Unasked(c) /\ FromAfar(c)
    BY <2>1 DEF Meaning
  <2> QED
    BY <2>1, <2>2, <2>3 DEF AskedEveryTime, Never, Unasked, FromAfar, Free, Covers
<1> QED
  BY ConsentInit, ConsentStep, <1>1, PTL DEF Spec

\* What a caller is told is what the trail says.
THEOREM TrailMatches == Spec => []AnswerMatchesTheTrail
<1>1. ConsentInv => AnswerMatchesTheTrail
  BY DEF ConsentInv, Place, AnswerMatchesTheTrail
<1> QED
  BY ConsentInit, ConsentStep, <1>1, PTL DEF Spec

\* A call whose approval was refused stays refused, and unstarted, for one step.
StaysRefused(c) ==
  approval[c] \in {"rejected", "expired"} /\ c \notin began =>
    c \notin began' /\ approval'[c] # "approved"

\* No step of the system turns a refused call into a run, nor its approval into a yes.
LEMMA RefusedStep ==
  ASSUME ConsentInv, [Next]_vars, NEW r \in Calls
  PROVE  StaysRefused(r)
<1>0. TypeOK /\ Place(r)
  BY DEF ConsentInv
<1>1. ASSUME NEW c \in Calls, Execute(c) PROVE StaysRefused(r)
  <2>1. CASE r = c
    BY <1>0, <1>1, <2>1 DEF Execute, Place, StaysRefused
  <2>2. CASE r # c
    BY <1>0, <1>1, <2>2, OthersUntouched DEF StaysRefused
  <2> QED BY <2>1, <2>2
<1>2. ASSUME NEW c \in Calls, CallStep(c) \/ CutShort(c) PROVE StaysRefused(r)
  <2>1. CASE r # c
    BY <1>0, <1>2, <2>1, OthersUntouched DEF StaysRefused
  <2>2. UNCHANGED approval \/ approval' = [approval EXCEPT ![c] = "expired"]
    BY <1>2 DEF CallStep, CutShort, Announced, Woken, Timeout, Expired, Refused, ToolReturns,
       ToolRaises, Failed, Charged, Recorded
  <2>3. UNCHANGED began \/ approval[c] = "approved"
    BY <1>2 DEF CallStep, CutShort, Announced, Woken, Timeout, Expired, Refused, ToolReturns,
       ToolRaises, Failed, Charged, Recorded, Resolve, Refuse, settles
  <2>4. CASE r = c
    BY <1>0, <2>2, <2>3, <2>4 DEF StaysRefused, TypeOK
  <2> QED BY <2>1, <2>4
<1>3. ASSUME NEW c \in Calls, NEW approve \in BOOLEAN, NEW standing \in BOOLEAN,
             Answer(c, approve, standing)
      PROVE  StaysRefused(r)
  <2>1. /\ approval[c] = "pending" /\ UNCHANGED began
        /\ \E how \in {"approved", "rejected", "expired"} :
             approval' = [approval EXCEPT ![c] = how]
    BY <1>3 DEF Answer, answerable
  <2> QED
    BY <1>0, <2>1 DEF StaysRefused, TypeOK
<1>4. CASE ListPending
  BY <1>0, <1>4 DEF ListPending, StaysRefused, TypeOK
<1>5. ASSUME UNCHANGED <<approval, began>> PROVE StaysRefused(r)
  BY <1>5 DEF StaysRefused
<1>6. ASSUME NEW c \in Calls, TimePasses(c) \/ Delivered(c) PROVE UNCHANGED <<approval, began>>
  BY <1>6 DEF TimePasses, Delivered
<1>7. CASE LoseGrant \/ SetLockdown \/ SetAutonomy \/ UNCHANGED vars
  BY <1>5, <1>7 DEF LoseGrant, SetLockdown, SetAutonomy, vars
<1> QED
  BY <1>1, <1>2, <1>3, <1>4, <1>5, <1>6, <1>7 DEF Next

\* Refused is refused: no answer, delivery or wake-up that comes after a rejection or an
\* expiry starts the tool, however many calls and owners' answers there are.
THEOREM RefusedStaysRefused == Spec => RefusedNeverRuns
<1>1. ConsentInv /\ [Next]_vars =>
        [\A c \in Calls : approval[c] \in {"rejected", "expired"} /\ c \notin began =>
           c \notin began' /\ approval'[c] # "approved"]_vars
  BY RefusedStep DEF StaysRefused
<1> QED
  BY ConsentInit, ConsentStep, <1>1, PTL DEF Spec, RefusedNeverRuns
===============================================================================
