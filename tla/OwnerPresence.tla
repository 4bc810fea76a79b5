---------------------------- MODULE OwnerPresence ----------------------------
(***************************************************************************)
(* Staying authenticated and stopping (security: identity.py, presence.py, *)
(* gate.py): what the camera has observed, what a session is worth as time *)
(* passes with and without observations, and what the identity gate lets   *)
(* through to the permission engine.  Time is counted in the unit of the   *)
(* presence TTL.                                                           *)
(***************************************************************************)
EXTENDS Naturals, FiniteSets

CONSTANTS MaxNow,                   \* bound: the clock
          Ttl, Away,                \* PRESENCE_TTL, AWAY_BEFORE_LOCK
          FreshFor, IdleFor, MaxSession

VARIABLES now,
          last,     \* PresenceMonitor._last
          seen,     \* _last_seen of the owner
          session,  \* the owner's AuthenticationSession
          gone      \* since when the guard has looked and the owner was out of sight

presenceVars == <<now, last, seen, session, gone>>

\* AuthLevel: 0 NONE, 1 SINGLE, 2 DEVICE_BACKED, 3 TWO_BIOMETRIC, 4 STRONG.
AuthLevel == 0..4
NoCap == 4
Risks == {"LOW", "HIGH", "CRITICAL"}
REQUIRED_FOR_RISK == [r \in Risks |-> CASE r = "LOW" -> 1 [] r = "HIGH" -> 2 [] r = "CRITICAL" -> 3]
MODE_FLOOR == [BALANCED |-> 1, STRICT |-> 3, MAXIMUM |-> 4]

Never == MaxNow + 1
Nobody == [at |-> Never, owner |-> FALSE, unknown |-> FALSE]
NoSession == [open |-> FALSE, level |-> 0, started |-> 0, verified |-> 0, active |-> 0, cap |-> NoCap]

TypeOK ==
  /\ now \in 0..MaxNow
  /\ last \in [at : 0..Never, owner : BOOLEAN, unknown : BOOLEAN] /\ seen \in 0..Never
  /\ session \in [open : BOOLEAN, level : AuthLevel, started : 0..MaxNow, verified : 0..MaxNow,
                  active : 0..MaxNow, cap : AuthLevel]
  /\ gone \in 0..Never

Init == now = 0 /\ last = Nobody /\ seen = Never /\ session = NoSession /\ gone = Never
-----------------------------------------------------------------------------
down(level, steps) == IF level > steps THEN level - steps ELSE 0
least(x, y) == IF x < y THEN x ELSE y

\* expired() and effective_level(): an ended session is worth nothing; one that is merely
\* stale or idle is worth a level less for each.
live(s) == s.open /\ now - s.started < MaxSession
effective_level(s) ==
  IF ~live(s) THEN 0
  ELSE down(least(s.level, s.cap), (IF now - s.verified >= FreshFor THEN 1 ELSE 0)
                                 + (IF now - s.active >= IdleFor THEN 1 ELSE 0))

\* PresenceMonitor.state(): staleness before content.
presence ==
  IF last = Nobody \/ now - last.at > Ttl THEN "ABSENT"
  ELSE IF last.owner THEN "PRESENT" ELSE IF last.unknown THEN "UNKNOWN_PERSON" ELSE "ABSENT"
sighted == seen # Never /\ now - seen <= Ttl
away == seen = Never \/ now - seen >= Away

\* A look at the room.
Observe(owner, unknown) ==
  /\ last' = [at |-> now, owner |-> owner, unknown |-> unknown]
  /\ seen' = IF owner THEN now ELSE seen
  /\ UNCHANGED <<now, session, gone>>

\* SessionGuard.apply(): a stranger ends the session, absence caps it and then ends it,
\* presence lifts the cap and counts as activity.
Apply_Lenient ==
  /\ session.open
  /\ session' = IF presence = "PRESENT" THEN [session EXCEPT !.cap = NoCap, !.active = now]
                ELSE IF presence = "ABSENT" /\ away THEN [session EXCEPT !.open = FALSE]
                ELSE [session EXCEPT !.cap = 1]
  /\ gone' = IF presence = "PRESENT" /\ sighted THEN Never ELSE now
  /\ UNCHANGED <<now, last, seen>>
Apply ==
  /\ session.open
  /\ session' = IF presence = "PRESENT" THEN [session EXCEPT !.cap = NoCap, !.active = now]
                ELSE IF presence = "UNKNOWN_PERSON" \/ away THEN [session EXCEPT !.open = FALSE]
                ELSE [session EXCEPT !.cap = 1]
  /\ gone' = IF presence = "PRESENT" /\ sighted THEN Never ELSE now
  /\ UNCHANGED <<now, last, seen>>

\* A fusion has established the owner: a new session, or restore() of one that has not ended.
SignIn(level) ==
  /\ ~live(session)
  /\ session' = [open |-> TRUE, level |-> level, started |-> now, verified |-> now,
                 active |-> now, cap |-> NoCap]
  /\ gone' = Never /\ UNCHANGED <<now, last, seen>>
Restore(level) ==
  /\ live(session)
  /\ session' = [session EXCEPT !.level = level, !.verified = now, !.active = now, !.cap = NoCap]
  /\ gone' = Never /\ UNCHANGED <<now, last, seen>>

Touch ==
  /\ session.open /\ session' = [session EXCEPT !.active = now]
  /\ UNCHANGED <<now, last, seen, gone>>

Tick == now < MaxNow /\ now' = now + 1 /\ UNCHANGED <<last, seen, session, gone>>

Next ==
  \/ \E owner, unknown \in BOOLEAN : Observe(owner, unknown)
  \/ Apply \/ Touch \/ Tick
  \/ \E level \in AuthLevel \ {0} : SignIn(level) \/ Restore(level)

Spec == Init /\ [][Next]_presenceVars

\* IdentityGate.check(): the mode raises the floor of the risk, and never lowers it.
required_level(risk, mode) ==
  IF REQUIRED_FOR_RISK[risk] > MODE_FLOOR[mode] THEN REQUIRED_FOR_RISK[risk] ELSE MODE_FLOOR[mode]
admits(risk, mode) == effective_level(session) >= required_level(risk, mode)
-----------------------------------------------------------------------------
\* Whoever sits down after the owner inherits nothing of worth: once the guard has looked and
\* the owner had not been seen for a TTL, nothing but the smallest risks passes the gate,
\* through whatever touches, ticks and stale frames follow, until a check establishes the
\* owner again or the camera sees them.
SessionIsNotInherited ==
  gone # Never => \A mode \in DOMAIN MODE_FLOOR : ~admits("HIGH", mode) /\ ~admits("CRITICAL", mode)

\* A stranger at the machine ends the session, however well the owner was known a moment ago:
\* of a session the guard has ended nothing is admitted at all.
Locks ==
  presence = "UNKNOWN_PERSON" /\ last' = last /\ gone' # gone /\ gone' # Never
    => \A r \in Risks, m \in DOMAIN MODE_FLOOR : ~admits(r, m)'
StrangerLocks == [][Locks]_presenceVars
===============================================================================
