--------------------------- MODULE OwnerSide_proofs ---------------------------
(***************************************************************************)
(* What the components that face the owner keep, for every set of keys,    *)
(* codes, pins, calls and looks and every length of the windows, proved.   *)
(* The components share no state, so each has an inductive invariant of    *)
(* its own, kept by its own steps; a step of another leaves it alone.      *)
(***************************************************************************)
EXTENDS MCOwnerSide, Selection_proofs, FiniteSetTheorems

allVars == <<part, deviceVars, pairingVars, coreVars, presenceVars, cameraVars,
             voiceVars, gatewayVars, learningVars, conversationVars, canvasVars>>

\* A step is a step of one component, and no step of any other.
LEMMA OnePartSteps ==
  [Next]_allVars =>
    /\ [Device!Next]_deviceVars /\ [Pairing!Next]_pairingVars /\ [Core!Next]_coreVars
    /\ [Presence!Next]_presenceVars /\ [Camera!Next]_cameraVars /\ [Voice!Next]_voiceVars
    /\ [Gateway!Next]_gatewayVars /\ [Learn!Next]_learningVars /\ [Convo!Next]_conversationVars
    /\ [Builder!Next]_canvasVars
<1> SUFFICES ASSUME [Next]_allVars
             PROVE  /\ [Device!Next]_deviceVars /\ [Pairing!Next]_pairingVars
                    /\ [Core!Next]_coreVars /\ [Presence!Next]_presenceVars
                    /\ [Camera!Next]_cameraVars /\ [Voice!Next]_voiceVars
                    /\ [Gateway!Next]_gatewayVars /\ [Learn!Next]_learningVars
                    /\ [Convo!Next]_conversationVars /\ [Builder!Next]_canvasVars
  OBVIOUS
<1>1. DeviceNext \/ UNCHANGED deviceVars
  BY DEF Next, allVars, PairingNext, CoreNext, PresenceNext, CameraNext, VoiceNext, GatewayNext,
     LearningNext, ConversationNext, CanvasNext
<1>2. PairingNext \/ UNCHANGED pairingVars
  BY DEF Next, allVars, DeviceNext, CoreNext, PresenceNext, CameraNext, VoiceNext, GatewayNext,
     LearningNext, ConversationNext, CanvasNext
<1>3. CoreNext \/ UNCHANGED coreVars
  BY DEF Next, allVars, DeviceNext, PairingNext, PresenceNext, CameraNext, VoiceNext, GatewayNext,
     LearningNext, ConversationNext, CanvasNext
<1>4. PresenceNext \/ UNCHANGED presenceVars
  BY DEF Next, allVars, DeviceNext, PairingNext, CoreNext, CameraNext, VoiceNext, GatewayNext,
     LearningNext, ConversationNext, CanvasNext
<1>5. CameraNext \/ UNCHANGED cameraVars
  BY DEF Next, allVars, DeviceNext, PairingNext, CoreNext, PresenceNext, VoiceNext, GatewayNext,
     LearningNext, ConversationNext, CanvasNext
<1>6. VoiceNext \/ UNCHANGED voiceVars
  BY DEF Next, allVars, DeviceNext, PairingNext, CoreNext, PresenceNext, CameraNext, GatewayNext,
     LearningNext, ConversationNext, CanvasNext
<1>7. GatewayNext \/ UNCHANGED gatewayVars
  BY DEF Next, allVars, DeviceNext, PairingNext, CoreNext, PresenceNext, CameraNext, VoiceNext,
     LearningNext, ConversationNext, CanvasNext
<1>8. LearningNext \/ UNCHANGED learningVars
  BY DEF Next, allVars, DeviceNext, PairingNext, CoreNext, PresenceNext, CameraNext, VoiceNext,
     GatewayNext, ConversationNext, CanvasNext
<1>9. ConversationNext \/ UNCHANGED conversationVars
  BY DEF Next, allVars, DeviceNext, PairingNext, CoreNext, PresenceNext, CameraNext, VoiceNext,
     GatewayNext, LearningNext, CanvasNext
<1>10. CanvasNext \/ UNCHANGED canvasVars
  BY DEF Next, allVars, DeviceNext, PairingNext, CoreNext, PresenceNext, CameraNext, VoiceNext,
     GatewayNext, LearningNext, ConversationNext
<1> QED
  BY <1>1, <1>2, <1>3, <1>4, <1>5, <1>6, <1>7, <1>8, <1>9, <1>10
     DEF DeviceNext, PairingNext, CoreNext, PresenceNext, CameraNext, VoiceNext, GatewayNext,
         LearningNext, ConversationNext, CanvasNext

-------------------------------------------------------------------------------
(* OwnerPresence: what a session is worth.                                   *)

\* Whoever was in the latest reading as the owner was seen then, and a session the guard has
\* looked at without the owner in sight is ended or capped.
PresenceInv ==
  /\ Presence!TypeOK
  /\ reading.at # Presence!Never => reading.at <= clock
  /\ reading.owner => seen = reading.at /\ reading.at # Presence!Never
  /\ gone # Presence!Never => ~auth.open \/ auth.cap = 1

\* The type TypeOK gives a session.
Sessions == [open : BOOLEAN, level : 0..4, started : 0..MaxClock, verified : 0..MaxClock,
             active : 0..MaxClock, cap : 0..4]

\* What the guard and the checks do to a session leaves it one.
LEMMA SessionChanges ==
  ASSUME NEW s \in Sessions, NEW n \in 0..MaxClock, NEW level \in 0..4
  PROVE  /\ [s EXCEPT !.cap = 4, !.active = n] \in Sessions
         /\ [s EXCEPT !.open = FALSE] \in Sessions
         /\ [s EXCEPT !.cap = 1] \in Sessions
         /\ [open |-> TRUE, level |-> level, started |-> n, verified |-> n, active |-> n,
             cap |-> 4] \in Sessions
         /\ [s EXCEPT !.level = level, !.verified = n, !.active = n, !.cap = 4] \in Sessions
<1> DEFINE Ticks == 0..MaxClock
           Levels == 0..4
<1>1. s \in [open : BOOLEAN, level : Levels, started : Ticks, verified : Ticks, active : Ticks,
            cap : Levels]
  BY DEF Sessions
<1>2. n \in Ticks /\ level \in Levels /\ {1, 4} \subseteq Levels
  OBVIOUS
<1> HIDE DEF Ticks, Levels
<1>3. /\ [s EXCEPT !.cap = 4, !.active = n] \in
          [open : BOOLEAN, level : Levels, started : Ticks, verified : Ticks, active : Ticks,
           cap : Levels]
      /\ [s EXCEPT !.level = level, !.verified = n, !.active = n, !.cap = 4] \in
          [open : BOOLEAN, level : Levels, started : Ticks, verified : Ticks, active : Ticks,
           cap : Levels]
  BY <1>1, <1>2
<1> USE DEF Ticks, Levels
<1> QED
  BY <1>1, <1>2, <1>3 DEF Sessions

\* Initially nobody has been seen and there is no session.
LEMMA PresenceInit == Presence!Init => PresenceInv
BY OwnerAssumption DEF Presence!Init, PresenceInv, Presence!TypeOK, Presence!AuthLevel,
   Presence!Nobody, Presence!NoSession, Presence!Never, Presence!NoCap

\* Presence, when the guard reads it, is the owner's, and the owner has just been sighted.
LEMMA PresentIsSighted == PresenceInv /\ Presence!presence = "PRESENT" => Presence!sighted
BY OwnerAssumption DEF PresenceInv, Presence!TypeOK, Presence!presence, Presence!sighted,
   Presence!Never, Presence!Nobody

\* Every look, touch, tick and check keeps it.
LEMMA PresenceStep == PresenceInv /\ [Presence!Next]_presenceVars => PresenceInv'
<1> SUFFICES ASSUME PresenceInv, [Presence!Next]_presenceVars PROVE PresenceInv'
  OBVIOUS
<1> USE OwnerAssumption DEF PresenceInv, Presence!TypeOK, Presence!Never, Presence!AuthLevel
<1>1. ASSUME NEW owner \in BOOLEAN, NEW unknown \in BOOLEAN, Presence!Observe(owner, unknown)
      PROVE  PresenceInv'
  BY <1>1 DEF Presence!Observe
<1>2. CASE Presence!Apply
  <2>1. auth' \in Sessions
    <3>1. auth \in Sessions /\ clock \in 0..MaxClock
      BY DEF Sessions
    <3>2. CASE auth' = [auth EXCEPT !.cap = 4, !.active = clock]
      BY <3>1, <3>2, SessionChanges, Zenon
    <3>3. CASE auth' = [auth EXCEPT !.open = FALSE] \/ auth' = [auth EXCEPT !.cap = 1]
      BY <3>1, <3>3, SessionChanges, ZenonT(60)
    <3> QED
      BY <1>2, <3>2, <3>3 DEF Presence!Apply, Presence!NoCap
  <2>2. gone' \in 0..Presence!Never
    BY <1>2 DEF Presence!Apply
  <2>3. gone' # Presence!Never => ~auth'.open \/ auth'.cap = 1
    BY <1>2, PresentIsSighted DEF Presence!Apply
  <2> QED
    BY <1>2, <2>1, <2>2, <2>3 DEF Presence!Apply, Sessions
<1>3. CASE Presence!Touch
  BY <1>3 DEF Presence!Touch
<1>4. CASE Presence!Tick
  BY <1>4 DEF Presence!Tick
<1>5. ASSUME NEW level \in (0..4) \ {0}, Presence!SignIn(level) \/ Presence!Restore(level)
      PROVE  PresenceInv'
  <2>1. auth' \in Sessions
    <3>1. auth \in Sessions /\ clock \in 0..MaxClock
      BY DEF Sessions
    <3>2. CASE auth' = [open |-> TRUE, level |-> level, started |-> clock, verified |-> clock,
                        active |-> clock, cap |-> 4]
      BY <3>1, <3>2, SessionChanges
    <3>3. CASE auth' = [auth EXCEPT !.level = level, !.verified = clock, !.active = clock,
                                    !.cap = 4]
      BY <3>1, <3>3, SessionChanges, Zenon
    <3> QED
      BY <1>5, <3>2, <3>3 DEF Presence!SignIn, Presence!Restore, Presence!NoCap
  <2>2. gone' = Presence!Never /\ UNCHANGED <<clock, reading, seen>>
    BY <1>5 DEF Presence!SignIn, Presence!Restore, Presence!Never
  <2> QED
    BY <2>1, <2>2 DEF Sessions
<1>6. CASE UNCHANGED presenceVars
  BY <1>6 DEF presenceVars
<1> QED
  BY <1>1, <1>2, <1>3, <1>4, <1>5, <1>6 DEF Presence!Next

\* A session that is ended is worth nothing, and one that is capped at one level is worth no
\* more than that; every mode asks at least two for the larger risks, and one for any.
LEMMA Worth ==
  ASSUME PresenceInv
  PROVE  /\ ~auth.open => Presence!effective_level(auth) = 0
         /\ auth.cap = 1 => Presence!effective_level(auth) \in {0, 1}
BY OwnerAssumption DEF PresenceInv, Presence!TypeOK, Presence!AuthLevel, Presence!effective_level,
   Presence!live, Presence!down, Presence!least

\* What the gate asks for.
LEMMA Asked ==
  \A m \in DOMAIN Presence!MODE_FLOOR :
    /\ \A r \in Presence!Risks : Presence!required_level(r, m) \in {1, 2, 3, 4}
    /\ \A r \in {"HIGH", "CRITICAL"} : Presence!required_level(r, m) \in {2, 3, 4}
BY DEF Presence!required_level, Presence!MODE_FLOOR, Presence!REQUIRED_FOR_RISK, Presence!Risks

\* Whoever sits down after the owner inherits nothing of worth, whatever touches, ticks and
\* stale frames follow; and a stranger ends the session (OwnerPresence, for every length of
\* the presence TTL, of the absence and of a session).
THEOREM OwnerIsNotImpersonated == Spec => SessionIsNotInherited
<1>1. PresenceInv => Presence!SessionIsNotInherited
  <2> SUFFICES ASSUME PresenceInv, gone # Presence!Never, NEW m \in DOMAIN Presence!MODE_FLOOR
               PROVE  ~Presence!admits("HIGH", m) /\ ~Presence!admits("CRITICAL", m)
    BY DEF Presence!SessionIsNotInherited
  <2>1. Presence!effective_level(auth) \in {0, 1}
    BY Worth DEF PresenceInv
  <2> QED
    BY <2>1, Asked DEF Presence!admits
<1>2. PresenceInv /\ PresenceInv' /\ [Presence!Next]_presenceVars => [Presence!Locks]_presenceVars
  <2> SUFFICES ASSUME PresenceInv, PresenceInv', Presence!Next,
                      Presence!presence = "UNKNOWN_PERSON", reading' = reading,
                      gone' # gone, gone' # Presence!Never
               PROVE  \A r \in Presence!Risks, m \in DOMAIN Presence!MODE_FLOOR :
                        ~Presence!admits(r, m)'
    BY DEF Presence!Locks, Presence!Next
  <2>1. Presence!Apply
    BY DEF Presence!Next, Presence!Observe, Presence!Touch, Presence!Tick, Presence!SignIn,
       Presence!Restore
  <2>2. ~auth'.open
    BY <2>1 DEF Presence!Apply, PresenceInv, Presence!TypeOK
  <2>3. Presence!effective_level(auth)' = 0
    BY <2>2 DEF Presence!effective_level, Presence!live
  <2> QED
    BY <2>3, Asked DEF Presence!admits
<1>3. Init => PresenceInv
  BY PresenceInit DEF Init
<1>4. PresenceInv /\ [Next]_allVars => PresenceInv'
  BY OnePartSteps, PresenceStep
<1>5. PresenceInv /\ PresenceInv' /\ [Next]_allVars => [Presence!Locks]_presenceVars
  BY OnePartSteps, <1>2
<1>6. Presence!SessionIsNotInherited => (part = "presence" => Presence!SessionIsNotInherited)
  OBVIOUS
<1> QED
  BY <1>1, <1>3, <1>4, <1>5, <1>6, PTL DEF Spec, allVars, SessionIsNotInherited

-------------------------------------------------------------------------------
(* DeviceKeys: rotation and revocation.                                      *)

\* The command works on the successor that is staged, from the key the node has; a request
\* somebody waits for is the command's, and there is one.
CommandHolds ==
  /\ cmd.at \in {"staged", "waiting", "asking", "accepted"} => cmd.new = staged /\ staged # NoKey
  /\ cmd.at = "staged" => cmd.old = own
  /\ cmd.at = "promoted" => own = staged
  /\ \A r \in wire : r.awaited => cmd.at = "waiting" /\ r.new = staged
  /\ \A r, q \in wire : r.awaited /\ q.awaited => r = q

\* The core knows a key that the node holds, and no request still on its way can take the
\* core from one the node holds to one it does not.
IdentityHolds ==
  /\ reg.key \in {own, staged}
  /\ own = staged => reg.key = own
  /\ cmd.at = "accepted" => reg.key = staged
  /\ \A r \in wire : r.old = staged => own = staged
  /\ \A r \in wire : r.old = own => r.new \in {own, staged}
  /\ \A r \in wire : r.old = reg.key => r.new \in {own, staged}

DeviceInv ==
  /\ Device!TypeOK /\ CommandHolds
  /\ stale \/ IdentityHolds
  /\ Device!RevocationHolds

\* Initially the node and the core hold the key of the pairing.
LEMMA DeviceInit == Device!Init => DeviceInv
<1> SUFFICES ASSUME Device!Init PROVE DeviceInv
  OBVIOUS
<1>1. /\ reg = [key |-> FirstKey, revoked |-> FALSE] /\ filed = reg
      /\ ~acked /\ ~stale /\ acked \in BOOLEAN /\ stale \in BOOLEAN
      /\ own = FirstKey /\ staged = NoKey /\ cached = NoKey /\ session = NoKey
      /\ cmd = [at |-> "idle", old |-> NoKey, new |-> NoKey] /\ wire = {}
  BY DEF Device!Init, Device!Idle
<1>2. Device!TypeOK
  BY <1>1, OwnerAssumption DEF Device!TypeOK, Device!Row
<1>3. CommandHolds /\ IdentityHolds
  BY <1>1, OwnerAssumption DEF CommandHolds, IdentityHolds
<1> QED
  BY <1>1, <1>2, <1>3 DEF DeviceInv, Device!RevocationHolds

\* Every step keeps the types.
LEMMA DeviceTypes == DeviceInv /\ [Device!Next]_deviceVars => Device!TypeOK'
<1> SUFFICES ASSUME DeviceInv, [Device!Next]_deviceVars PROVE Device!TypeOK'
  OBVIOUS
<1>0. CommandHolds /\ Device!TypeOK
  BY DEF DeviceInv
<1> USE <1>0, OwnerAssumption DEF Device!TypeOK, Device!Row, Device!core, Device!node,
                                  Device!Change, Device!unawaited, Device!Idle
<1>1. CASE Device!Stage
  BY <1>1 DEF Device!Stage
<1>2. CASE Device!Ask
  <2>1. cmd.old \in KeyNames /\ cmd.new \in KeyNames
    BY <1>2 DEF Device!Ask, CommandHolds
  <2>2. [old |-> cmd.old, new |-> cmd.new, awaited |-> TRUE] \in
          [old : KeyNames, new : KeyNames, awaited : BOOLEAN]
    BY <2>1
  <2>3. wire' \subseteq [old : KeyNames, new : KeyNames, awaited : BOOLEAN]
    BY <1>2, <2>2 DEF Device!Ask
  <2> QED
    BY <1>2, <2>3 DEF Device!Ask
<1>2a. CASE Device!GivesUp \/ Device!CommandDies
  <2>0. \A r \in [old : KeyNames, new : KeyNames, awaited : BOOLEAN] :
          [r EXCEPT !.awaited = FALSE] \in [old : KeyNames, new : KeyNames, awaited : BOOLEAN]
    OBVIOUS
  <2>1. wire' \subseteq [old : KeyNames, new : KeyNames, awaited : BOOLEAN]
    <3>1. wire' = {[r EXCEPT !.awaited = FALSE] : r \in wire}
      BY <1>2a DEF Device!GivesUp, Device!CommandDies
    <3> QED
      BY <2>0, <3>1
  <2> QED
    BY <1>2a, <2>1 DEF Device!GivesUp, Device!CommandDies
<1>3. CASE Device!Promote
  <2>1. staged \in KeyNames
    BY <1>3 DEF Device!Promote, CommandHolds
  <2> QED
    BY <1>3, <2>1 DEF Device!Promote
<1>3a. CASE Device!Unstage \/ Device!Resolve
  BY <1>3a DEF Device!Unstage, Device!Resolve
<1>4. ASSUME NEW r \in wire, NEW saved \in BOOLEAN, Device!CoreRotates(r, saved)
      PROVE  Device!TypeOK'
  BY <1>4 DEF Device!CoreRotates, Device!Reply
<1>5. ASSUME NEW r \in wire, Device!CoreRefuses(r) PROVE Device!TypeOK'
  BY <1>5 DEF Device!CoreRefuses, Device!Reply
<1>6. CASE Device!NodeStarts \/ Device!NodeStops \/ Device!Hello \/ Device!LinkLost
  BY <1>6 DEF Device!NodeStarts, Device!NodeStops, Device!Hello, Device!LinkLost
<1>7. ASSUME NEW saved \in BOOLEAN, Device!Revoke(saved) PROVE Device!TypeOK'
  BY <1>7 DEF Device!Revoke
<1>8. CASE Device!OtherSave \/ Device!CoreRestarts
  BY <1>8 DEF Device!OtherSave, Device!CoreRestarts
<1>9. CASE UNCHANGED deviceVars
  BY <1>9 DEF deviceVars
<1> QED
  BY <1>1, <1>2, <1>2a, <1>3, <1>3a, <1>4, <1>5, <1>6, <1>7, <1>8, <1>9 DEF Device!Next

\* Every step keeps the command, and what is on its way, to what is staged.
LEMMA CommandStep == DeviceInv /\ [Device!Next]_deviceVars => CommandHolds'
<1> SUFFICES ASSUME DeviceInv, [Device!Next]_deviceVars PROVE CommandHolds'
  OBVIOUS
<1>0. CommandHolds /\ Device!TypeOK
  BY DEF DeviceInv
<1>t. /\ cmd \in [at : {"idle", "staged", "waiting", "accepted", "promoted", "asking"},
                  old : KeyNames \cup {NoKey}, new : KeyNames \cup {NoKey}]
      /\ wire \subseteq [old : KeyNames, new : KeyNames, awaited : BOOLEAN]
  BY <1>0 DEF Device!TypeOK
<1> USE <1>0, <1>t, OwnerAssumption DEF CommandHolds, Device!core, Device!node, Device!Idle
<1>1. CASE Device!Stage
  <2>1. PICK k \in KeyNames : /\ staged' = k
                             /\ cmd' = [at |-> "staged", old |-> own, new |-> k]
    BY <1>1 DEF Device!Stage
  <2>2. UNCHANGED <<own, wire>> /\ cmd.at = "idle"
    BY <1>1 DEF Device!Stage
  <2> QED
    BY <2>1, <2>2
<1>2. CASE Device!Ask
  <2>1. /\ cmd.at = "staged" /\ UNCHANGED <<own, staged>>
        /\ cmd'.at = "waiting" /\ cmd'.new = cmd.new
        /\ wire' = wire \cup {[old |-> cmd.old, new |-> cmd.new, awaited |-> TRUE]}
    BY <1>2 DEF Device!Ask
  <2>2. /\ \A r \in wire : ~r.awaited
        /\ \A r \in wire' \ wire : r = [old |-> cmd.old, new |-> cmd.new, awaited |-> TRUE]
    BY <2>1
  <2>3. \A r \in wire' : r.awaited => r = [old |-> cmd.old, new |-> cmd.new, awaited |-> TRUE]
    BY <2>2
  <2>4. cmd.new = staged /\ staged # NoKey
    BY <2>1
  <2>5. \A r \in wire' : r.awaited => cmd'.at = "waiting" /\ r.new = staged'
    BY <2>1, <2>3, <2>4
  <2>6. \A r, q \in wire' : r.awaited /\ q.awaited => r = q
    BY <2>3
  <2> QED
    BY <2>1, <2>4, <2>5, <2>6
<1>3. CASE Device!GivesUp \/ Device!CommandDies
  <2>1. /\ UNCHANGED <<own, staged>>
        /\ wire' = {[r EXCEPT !.awaited = FALSE] : r \in wire}
        /\ \/ cmd'.at = "asking" /\ cmd'.new = cmd.new /\ cmd.at = "waiting"
           \/ cmd'.at = "idle"
    BY <1>3 DEF Device!GivesUp, Device!CommandDies, Device!unawaited
  <2>2. \A r \in wire' : ~r.awaited
    BY <2>1
  <2> QED
    BY <2>1, <2>2
<1>4. CASE Device!Promote \/ Device!Unstage \/ Device!Resolve
  BY <1>4 DEF Device!Promote, Device!Unstage, Device!Resolve
<1>5. ASSUME NEW r \in wire, Device!Reply(r, "accepted") \/ Device!Reply(r, "asking"),
             wire' = wire \ {r}, UNCHANGED <<own, staged>>
      PROVE  CommandHolds'
  BY <1>5 DEF Device!Reply
<1>6. ASSUME NEW r \in wire, NEW saved \in BOOLEAN, Device!CoreRotates(r, saved)
      PROVE  CommandHolds'
  BY <1>5, <1>6 DEF Device!CoreRotates
<1>7. ASSUME NEW r \in wire, Device!CoreRefuses(r) PROVE CommandHolds'
  BY <1>5, <1>7 DEF Device!CoreRefuses
<1>8. CASE Device!NodeStarts \/ Device!NodeStops \/ Device!Hello \/ Device!LinkLost
             \/ Device!OtherSave \/ Device!CoreRestarts
  BY <1>8 DEF Device!NodeStarts, Device!NodeStops, Device!Hello, Device!LinkLost,
              Device!OtherSave, Device!CoreRestarts
<1>9. ASSUME NEW saved \in BOOLEAN, Device!Revoke(saved) PROVE CommandHolds'
  BY <1>9 DEF Device!Revoke
<1>10. CASE UNCHANGED deviceVars
  BY <1>10 DEF deviceVars
<1> QED
  BY <1>1, <1>2, <1>3, <1>4, <1>6, <1>7, <1>8, <1>9, <1>10 DEF Device!Next

\* No step takes the core to a key the node does not hold, unless a restart has brought back
\* an older row.
LEMMA IdentityStep ==
  DeviceInv /\ [Device!Next]_deviceVars => stale' \/ IdentityHolds'
<1> SUFFICES ASSUME DeviceInv, [Device!Next]_deviceVars, ~stale' PROVE IdentityHolds'
  OBVIOUS
<1>s. ~stale
  <2>1. CASE Device!CoreRestarts
    BY <2>1 DEF Device!CoreRestarts
  <2>2. ASSUME NEW r \in wire, NEW saved \in BOOLEAN,
               Device!CoreRotates(r, saved) \/ Device!CoreRefuses(r)
        PROVE  ~stale
    BY <2>2 DEF Device!CoreRotates, Device!CoreRefuses, Device!core
  <2>3. ASSUME NEW saved \in BOOLEAN, Device!Revoke(saved) PROVE ~stale
    BY <2>3 DEF Device!Revoke
  <2>4. CASE Device!Stage \/ Device!Ask \/ Device!GivesUp \/ Device!Promote \/ Device!Unstage
               \/ Device!Resolve \/ Device!CommandDies
    BY <2>4 DEF Device!Stage, Device!Ask, Device!GivesUp, Device!Promote, Device!Unstage,
       Device!Resolve, Device!CommandDies, Device!core
  <2>5. CASE Device!NodeStarts \/ Device!NodeStops \/ Device!Hello \/ Device!LinkLost
               \/ Device!OtherSave \/ UNCHANGED deviceVars
    BY <2>5 DEF Device!NodeStarts, Device!NodeStops, Device!Hello, Device!LinkLost,
       Device!OtherSave, Device!core, deviceVars
  <2> QED
    BY <2>1, <2>2, <2>3, <2>4, <2>5 DEF Device!Next
<1>0. CommandHolds /\ ~stale /\ IdentityHolds
  BY <1>s DEF DeviceInv
<1>t. /\ cmd \in [at : {"idle", "staged", "waiting", "accepted", "promoted", "asking"},
                  old : KeyNames \cup {NoKey}, new : KeyNames \cup {NoKey}]
      /\ wire \subseteq [old : KeyNames, new : KeyNames, awaited : BOOLEAN]
      /\ own \in KeyNames /\ reg \in [key : KeyNames, revoked : BOOLEAN]
  BY DEF DeviceInv, Device!TypeOK, Device!Row
<1> USE <1>0, <1>t, OwnerAssumption DEF CommandHolds, IdentityHolds, Device!core, Device!node,
                                        Device!Idle
<1>1. CASE Device!Stage
  <2>1. PICK k \in KeyNames : Device!successor(k) /\ staged' = k
    BY <1>1 DEF Device!Stage
  <2>2. UNCHANGED <<own, wire, reg>> /\ cmd'.at = "staged"
    BY <1>1 DEF Device!Stage
  <2>3. CASE staged # NoKey
    BY <2>1, <2>2, <2>3 DEF Device!successor
  <2>4. CASE staged = NoKey
    <3>1. reg.key = own /\ k # own /\ \A r \in wire : r.old # k
      BY <2>1, <2>4 DEF Device!successor, Device!generated, Device!seen
    <3> QED
      BY <2>1, <2>2, <2>4, <3>1
  <2> QED
    BY <2>3, <2>4
<1>2. CASE Device!Ask
  <2>1. /\ cmd.at = "staged" /\ UNCHANGED <<own, staged, reg>>
        /\ cmd'.at = "waiting"
        /\ wire' = wire \cup {[old |-> cmd.old, new |-> cmd.new, awaited |-> TRUE]}
    BY <1>2 DEF Device!Ask
  <2> QED
    BY <2>1
<1>3. CASE Device!GivesUp \/ Device!CommandDies
  <2>1. /\ UNCHANGED <<own, staged, reg>> /\ cmd'.at # "accepted"
        /\ wire' = {[r EXCEPT !.awaited = FALSE] : r \in wire}
    BY <1>3 DEF Device!GivesUp, Device!CommandDies, Device!unawaited
  <2>2. \A r \in wire' : \E q \in wire : r.old = q.old /\ r.new = q.new
    BY <2>1
  <2> QED
    BY <2>1, <2>2
<1>4. CASE Device!Promote
  BY <1>4 DEF Device!Promote
<1>5. CASE Device!Unstage
  BY <1>5 DEF Device!Unstage
<1>6. CASE Device!Resolve
  BY <1>6 DEF Device!Resolve, Device!lists
<1>7. ASSUME NEW r \in wire, NEW saved \in BOOLEAN, Device!CoreRotates(r, saved)
      PROVE  IdentityHolds'
  <2>1. /\ r.old = reg.key /\ reg'.key = r.new /\ UNCHANGED <<own, staged>>
        /\ wire' = wire \ {r}
        /\ cmd'.at = "accepted" => r.awaited \/ cmd.at = "accepted"
    BY <1>7 DEF Device!CoreRotates, Device!rotates, Device!Change, Device!Reply
  <2> QED
    BY <2>1
<1>8. ASSUME NEW r \in wire, Device!CoreRefuses(r) PROVE IdentityHolds'
  <2>1. /\ UNCHANGED <<own, staged, reg>> /\ wire' \subseteq wire
        /\ cmd'.at = "accepted" => cmd.at = "accepted"
    BY <1>8 DEF Device!CoreRefuses, Device!Reply
  <2> QED
    BY <2>1
<1>9. CASE Device!NodeStarts \/ Device!NodeStops \/ Device!Hello \/ Device!LinkLost
             \/ Device!OtherSave
  BY <1>9 DEF Device!NodeStarts, Device!NodeStops, Device!Hello, Device!LinkLost,
              Device!OtherSave
<1>10. ASSUME NEW saved \in BOOLEAN, Device!Revoke(saved) PROVE IdentityHolds'
  BY <1>10 DEF Device!Revoke, Device!Change
<1>11. CASE Device!CoreRestarts
  BY <1>11 DEF Device!CoreRestarts
<1>12. CASE UNCHANGED deviceVars
  BY <1>12 DEF deviceVars
<1> QED
  BY <1>1, <1>2, <1>3, <1>4, <1>5, <1>6, <1>7, <1>8, <1>9, <1>10, <1>11, <1>12 DEF Device!Next

\* A revocation that was answered is in memory and on file, and no step takes it back.
LEMMA RevocationStep == DeviceInv /\ [Device!Next]_deviceVars => Device!RevocationHolds'
<1> SUFFICES ASSUME DeviceInv, [Device!Next]_deviceVars, acked'
             PROVE  reg'.revoked /\ filed'.revoked /\ session' = NoKey
  BY DEF Device!RevocationHolds
<1>0. /\ acked => reg.revoked /\ filed.revoked /\ session = NoKey
      /\ reg \in [key : KeyNames, revoked : BOOLEAN]
  BY DEF DeviceInv, Device!TypeOK, Device!Row, Device!RevocationHolds
<1> USE <1>0 DEF Device!core, Device!node
<1>1. CASE Device!Stage \/ Device!Ask \/ Device!GivesUp \/ Device!Promote \/ Device!Unstage
             \/ Device!Resolve \/ Device!CommandDies
  BY <1>1 DEF Device!Stage, Device!Ask, Device!GivesUp, Device!Promote, Device!Unstage,
     Device!Resolve, Device!CommandDies
<1>2. ASSUME NEW r \in wire, NEW saved \in BOOLEAN, Device!CoreRotates(r, saved)
      PROVE  reg'.revoked /\ filed'.revoked /\ session' = NoKey
  BY <1>2 DEF Device!CoreRotates, Device!rotates
<1>3. ASSUME NEW r \in wire, Device!CoreRefuses(r)
      PROVE  reg'.revoked /\ filed'.revoked /\ session' = NoKey
  BY <1>3 DEF Device!CoreRefuses
<1>4. CASE Device!NodeStarts \/ Device!NodeStops \/ Device!Hello \/ Device!LinkLost
  BY <1>4 DEF Device!NodeStarts, Device!NodeStops, Device!Hello, Device!LinkLost, Device!verifies
<1>5. ASSUME NEW saved \in BOOLEAN, Device!Revoke(saved)
      PROVE  reg'.revoked /\ filed'.revoked /\ session' = NoKey
  BY <1>5 DEF Device!Revoke, Device!Change
<1>6. CASE Device!OtherSave \/ Device!CoreRestarts
  BY <1>6 DEF Device!OtherSave, Device!CoreRestarts
<1>7. CASE UNCHANGED deviceVars
  BY <1>7 DEF deviceVars
<1> QED
  BY <1>1, <1>2, <1>3, <1>4, <1>5, <1>6, <1>7 DEF Device!Next

\* Every step keeps all of it.
LEMMA DeviceStep == DeviceInv /\ [Device!Next]_deviceVars => DeviceInv'
BY DeviceTypes, CommandStep, IdentityStep, RevocationStep DEF DeviceInv

\* The key the core knows is on the node's disk.
LEMMA DeviceKeepsKey == DeviceInv => Device!KeyIsHeld /\ Device!RevocationHolds
BY DEF DeviceInv, IdentityHolds, Device!KeyIsHeld

-------------------------------------------------------------------------------
(* CoreKey: the pin and the chain of statements.                             *)

\* A path starts where it starts, and goes on along every statement.
LEMMA PathExtends ==
  ASSUME NEW a \in Pins
  PROVE  /\ a \in Core!Path(a)
         /\ \A x \in Core!Path(a), b \in Pins : Core!Signed(x, b) => b \in Core!Path(a)
BY DEF Core!Path, Core!Closed

\* A chain that is followed from p leads along the statements the keys themselves signed: what
\* the channel has altered is not among those that are walked.
LEMMA WalkIsSigned ==
  ASSUME Core!TypeOK, NEW p \in Pins, NEW route \in {chain} \cup Core!altered(chain),
         Core!walks(route, p)
  PROVE  route[Len(route)].to \in Core!Path(p)
<1> DEFINE Good == Core!Path(p)
<1>0. route # chain =>
        \E i \in DOMAIN chain, q \in Pins :
          route = [chain EXCEPT ![i] = [from |-> chain[i].from, to |-> q, good |-> FALSE]]
  BY DEF Core!altered
<1>1. /\ chain \in Seq(Core!Link) /\ Len(chain) \in Nat
      /\ DOMAIN route = 1..Len(chain) /\ Len(route) = Len(chain)
  <2>1. chain \in Seq(Core!Link) /\ Len(chain) \in Nat /\ DOMAIN chain = 1..Len(chain)
    BY DEF Core!TypeOK
  <2>2. DOMAIN route = DOMAIN chain
    BY <1>0, Zenon
  <2> DEFINE Ends == {route[k] : k \in DOMAIN chain}
  <2>3. route \in [DOMAIN chain -> Ends]
    <3>1. CASE route = chain
      BY <2>1, <3>1
    <3>2. CASE route # chain
      BY <1>0, <3>2, Zenon
    <3> QED
      BY <3>1, <3>2
  <2> HIDE DEF Ends
  <2>4. route \in [1..Len(chain) -> Ends]
    BY <2>1, <2>3
  <2>5. route \in Seq(Ends)
    BY <2>1, <2>4
  <2> QED
    BY <2>1, <2>2, <2>5, LenProperties
<1>2. PICK s \in Core!starts(route, p) : \A k \in s..Len(route) :
        Core!verified(route[k], IF k = s THEN p ELSE route[k - 1].to)
  BY DEF Core!walks
<1>3. s \in 1..Len(chain)
  BY <1>1, <1>2 DEF Core!starts
<1>4. \A k \in s..Len(route) : route[k] = chain[k]
  <2>1. CASE route = chain
    BY <2>1
  <2>2. CASE route # chain
    <3>1. PICK i \in DOMAIN chain, q \in Pins :
            route = [chain EXCEPT ![i] = [from |-> chain[i].from, to |-> q, good |-> FALSE]]
      BY <1>0, <2>2
    <3>2. chain[i] \in Core!Link
      BY <1>1
    <3>3. ~route[i].good
      BY <3>1, <3>2 DEF Core!Link
    <3>4. \A k \in s..Len(route) : route[k].good
      BY <1>2 DEF Core!verified
    <3> QED
      BY <1>1, <1>3, <3>1, <3>3, <3>4
  <2> QED
    BY <2>1, <2>2
<1>5. \A k \in s..Len(route) :
        /\ k \in DOMAIN chain /\ chain[k].to \in Pins
        /\ Core!Signed(IF k = s THEN p ELSE chain[k - 1].to, chain[k].to)
  <2> TAKE k \in s..Len(route)
  <2>1. k \in DOMAIN chain /\ chain[k] \in Core!Link
    BY <1>1, <1>3
  <2>2. chain[k].from = IF k = s THEN p ELSE chain[k - 1].to
    <3>1. CASE k = s
      BY <1>2, <1>4, <3>1 DEF Core!verified
    <3>2. CASE k # s
      <4>1. k - 1 \in s..Len(route)
        BY <1>1, <1>3, <3>2
      <4> QED
        BY <1>2, <1>4, <3>2, <4>1 DEF Core!verified
    <3> QED
      BY <3>1, <3>2
  <2> QED
    BY <2>1, <2>2 DEF Core!Signed, Core!Link
<1> DEFINE A == {n \in 0..(Len(route) - s) : chain[s + n].to \in Good}
<1>6. 0 \in A
  <2>1. Core!Signed(p, chain[s].to) /\ chain[s].to \in Pins
    BY <1>1, <1>3, <1>5
  <2> QED
    BY <1>1, <1>3, <2>1, PathExtends
<1>7. \A n \in 0..(Len(route) - s) : n < Len(route) - s /\ n \in A => n + 1 \in A
  <2> SUFFICES ASSUME NEW n \in 0..(Len(route) - s), n < Len(route) - s, n \in A
               PROVE  n + 1 \in A
    OBVIOUS
  <2>1. s + (n + 1) \in s..Len(route) /\ s + (n + 1) # s /\ (s + (n + 1)) - 1 = s + n
    BY <1>1, <1>3
  <2>2. Core!Signed(chain[s + n].to, chain[s + (n + 1)].to) /\ chain[s + (n + 1)].to \in Pins
    BY <1>5, <2>1
  <2>3. chain[s + (n + 1)].to \in Good
    BY <2>2, PathExtends
  <2> QED
    BY <1>1, <1>3, <2>3
<1> HIDE DEF A
<1>8. 0..(Len(route) - s) \subseteq A
  <2>1. Len(route) - s \in Nat
    BY <1>1, <1>3
  <2> QED
    BY <1>6, <1>7, <2>1, UpTo
<1>9. Len(route) - s \in A /\ s + (Len(route) - s) = Len(route)
  BY <1>1, <1>3, <1>8
<1> QED
  BY <1>1, <1>3, <1>4, <1>9 DEF A

PinInv == Core!TypeOK /\ Core!PinIsSigned

\* A statement more joins whatever was joined before, and paths can be put together.
LEMMA PathsCompose ==
  ASSUME NEW a \in Pins, NEW p \in Core!Path(a)
  PROVE  Core!Path(p) \subseteq Core!Path(a)
BY DEF Core!Path, Core!Closed

\* Initially the pin is the one taken at pairing.
LEMMA PinInit == Core!Init => PinInv
<1> SUFFICES ASSUME Core!Init PROVE PinInv
  OBVIOUS
<1>1. serving = FirstPin /\ pin = FirstPin /\ chain = <<>> /\ tried = {} /\ connected = FALSE
  BY DEF Core!Init
<1>2. FirstPin \in Core!Path(FirstPin)
  BY OwnerAssumption, PathExtends
<1>3. Core!TypeOK
  <2>1. connected \in BOOLEAN /\ tried \subseteq Pins
    BY <1>1
  <2>1a. chain \in Seq(Core!Link)
    BY <1>1
  <2>2. serving \in Pins /\ pin \in Pins
    BY <1>1, OwnerAssumption
  <2> QED
    BY <2>1, <2>1a, <2>2 DEF Core!TypeOK
<1> QED
  BY <1>1, <1>2, <1>3 DEF PinInv, Core!PinIsSigned

\* Every publication, installation, connection and walk keeps it.
LEMMA PinStep == PinInv /\ [Core!Next]_coreVars => PinInv'
<1> SUFFICES ASSUME PinInv, [Core!Next]_coreVars PROVE PinInv'
  OBVIOUS
<1>0. /\ serving \in Pins /\ pin \in Pins /\ chain \in Seq(Core!Link) /\ tried \subseteq Pins
      /\ connected \in BOOLEAN /\ Core!TypeOK /\ pin \in Core!Path(FirstPin)
  BY DEF PinInv, Core!TypeOK, Core!PinIsSigned
<1>1. CASE Core!Publish
  <2>1. PICK next \in Pins : chain' = Append(chain, [from |-> serving, to |-> next, good |-> TRUE])
    BY <1>1 DEF Core!Publish
  <2> DEFINE link == [from |-> serving, to |-> next, good |-> TRUE]
  <2>2. link \in Core!Link
    BY <1>0 DEF Core!Link
  <2> HIDE DEF link
  <2>3. /\ chain' \in Seq(Core!Link) /\ Len(chain') = Len(chain) + 1
        /\ \A i \in DOMAIN chain : i \in DOMAIN chain' /\ chain'[i] = chain[i]
    BY <1>0, <2>1, <2>2 DEF link
  <2>4. \A a, b : Core!Signed(a, b) => Core!Signed(a, b)'
    BY <2>3 DEF Core!Signed
  <2>5. Core!Path(FirstPin) \subseteq Core!Path(FirstPin)'
    BY <2>4 DEF Core!Path, Core!Closed
  <2>6. UNCHANGED <<serving, pin, tried, connected>>
    BY <1>1 DEF Core!Publish
  <2> QED
    BY <1>0, <2>3, <2>5, <2>6 DEF PinInv, Core!TypeOK, Core!PinIsSigned
<1>2. ASSUME UNCHANGED chain, pin' \in Core!Path(FirstPin), serving' \in Pins, tried' \subseteq Pins,
             connected' \in BOOLEAN
      PROVE  PinInv'
  <2>1. Core!Path(FirstPin)' = Core!Path(FirstPin) /\ pin' \in Pins
    BY <1>2 DEF Core!Path, Core!Closed, Core!Signed
  <2> QED
    BY <1>0, <1>2, <2>1 DEF PinInv, Core!TypeOK, Core!PinIsSigned
<1>3. CASE Core!Follow
  <2>1. PICK route \in {chain} \cup Core!altered(chain) :
          pin' = IF Core!walks(route, pin) THEN route[Len(route)].to ELSE pin
    BY <1>3 DEF Core!Follow
  <2>2. pin' \in Core!Path(FirstPin)
    BY <1>0, <2>1, WalkIsSigned, PathsCompose, OwnerAssumption
  <2> QED
    BY <1>0, <1>2, <1>3, <2>2 DEF Core!Follow
<1>4. CASE Core!Install
  BY <1>0, <1>2, <1>4 DEF Core!Install
<1>5. CASE Core!Connect \/ Core!FetchFails \/ Core!LinkLost \/ Core!NodeRestarts
             \/ UNCHANGED coreVars
  BY <1>0, <1>2, <1>5 DEF Core!Connect, Core!FetchFails, Core!LinkLost, Core!NodeRestarts, coreVars
<1> QED
  BY <1>1, <1>3, <1>4, <1>5 DEF Core!Next

-------------------------------------------------------------------------------
(* VoiceLoop: who can end what is spoken.                                    *)

\* What is spoken is spoken by the calls that are speaking, and unless one has crossed
\* another it is the one the controller holds; none is, while a stop is being answered.
VoiceInv ==
  /\ Voice!TypeOK
  /\ \A t \in Turns : t \in voices <=> turn[t].at = "speaking"
  /\ ~crossed => voices \subseteq {task} /\ (stop # "none" => voices = {})

\* Initially nothing is spoken.
LEMMA VoiceInit == Voice!Init => VoiceInv
<1> SUFFICES ASSUME Voice!Init PROVE VoiceInv
  OBVIOUS
<1>1. /\ machine \in Voice!States /\ voices = {} /\ task = NoTurn /\ stop = "none"
      /\ turn = [t \in Turns |-> [at |-> "out", kind |-> "listen", barged |-> FALSE]]
  BY DEF Voice!Init, Voice!States
<1>2. crossed \in BOOLEAN
  BY DEF Voice!Init
<1> QED
  BY <1>1, <1>2 DEF VoiceInv, Voice!TypeOK, Voice!Places

\* The type TypeOK gives the calls.
VoiceTurns ==
  [Turns -> [at : Voice!Places, kind : {"listen", "audio", "notice"}, barged : BOOLEAN]]

\* Every step of a call, and of the owner's stop, keeps it.
LEMMA VoiceStep == VoiceInv /\ [Voice!Next]_voiceVars => VoiceInv'
<1> SUFFICES ASSUME VoiceInv, [Voice!Next]_voiceVars PROVE VoiceInv'
  OBVIOUS
<1>0. /\ machine \in Voice!States /\ turn \in VoiceTurns /\ voices \subseteq Turns
      /\ task \in Turns \cup {NoTurn} /\ stop \in {"none", "silencing"} /\ crossed \in BOOLEAN
  BY DEF VoiceInv, Voice!TypeOK, VoiceTurns
<1>1. /\ \A t \in Turns : t \in voices <=> turn[t].at = "speaking"
      /\ ~crossed => voices \subseteq {task} /\ (stop # "none" => voices = {})
  BY DEF VoiceInv
\* The calls whose place changes, and what is spoken, change together.
<1>2. ASSUME machine' \in Voice!States, turn' \in VoiceTurns, voices' \subseteq Turns,
             task' \in Turns \cup {NoTurn}, stop' \in {"none", "silencing"}, crossed' \in BOOLEAN,
             \A t \in Turns : t \in voices' <=> turn'[t].at = "speaking",
             ~crossed' => voices' \subseteq {task'} /\ (stop' # "none" => voices' = {})
      PROVE  VoiceInv'
  BY <1>2 DEF VoiceInv, Voice!TypeOK, VoiceTurns
\* A call that is not speaking goes somewhere it does not speak.
<1>3. ASSUME NEW t \in Turns, NEW new \in [at : Voice!Places \ {"speaking"},
                  kind : {"listen", "audio", "notice"}, barged : BOOLEAN],
             turn' = [turn EXCEPT ![t] = new], turn[t].at # "speaking", machine' \in Voice!States,
             UNCHANGED <<voices, task, stop, crossed>>
      PROVE  VoiceInv'
  <2>1. turn' \in VoiceTurns /\ \A x \in Turns : x \in voices <=> turn'[x].at = "speaking"
    BY <1>0, <1>1, <1>3 DEF VoiceTurns
  <2> QED
    BY <1>0, <1>1, <1>2, <1>3, <2>1
<1>4. ASSUME NEW t \in Turns, NEW place \in Voice!Places \ {"speaking"}, Voice!Goes(t, place),
             turn[t].at # "speaking", machine' \in Voice!States,
             UNCHANGED <<voices, task, stop, crossed>>
      PROVE  VoiceInv'
  <2> DEFINE new == [turn[t] EXCEPT !.at = place]
  <2>1. turn' = [turn EXCEPT ![t] = new]
    BY <1>4 DEF Voice!Goes
  <2>2. new \in [at : Voice!Places \ {"speaking"}, kind : {"listen", "audio", "notice"},
                barged : BOOLEAN]
    BY <1>0, <1>4 DEF VoiceTurns
  <2> HIDE DEF new
  <2> QED
    BY <1>3, <1>4, <2>1, <2>2
<1>5. ASSUME NEW t \in Turns, NEW kind \in {"listen", "audio", "notice"}, NEW m \in Voice!States,
             NEW barged \in BOOLEAN, Voice!Hears(t, kind, m, barged), turn[t].at # "speaking",
             UNCHANGED <<voices, task, stop, crossed>>
      PROVE  VoiceInv'
  <2>1. machine' \in Voice!States
    BY <1>5 DEF Voice!Hears, Voice!opened, Voice!States
  <2>2. \E at \in {"segment", "stt", "refused"} :
          turn' = [turn EXCEPT ![t] = [at |-> at, kind |-> kind, barged |-> barged]]
    BY <1>5 DEF Voice!Hears
  <2>3. \A at \in {"segment", "stt", "refused"} :
          [at |-> at, kind |-> kind, barged |-> barged] \in
            [at : Voice!Places \ {"speaking"}, kind : {"listen", "audio", "notice"},
             barged : BOOLEAN]
    BY DEF Voice!Places
  <2> QED
    BY <1>3, <1>5, <2>1, <2>2, <2>3
\* What is spoken is cut: the one call that may be speaking is out.
<1>6. ASSUME NEW f \in VoiceTurns, Voice!speaking, Voice!Cut, turn' = [f EXCEPT ![task].at = "out"],
             \A x \in Turns : x # task => (f[x].at = "speaking" <=> turn[x].at = "speaking"),
             stop' \in {"none", "silencing"}, UNCHANGED crossed
      PROVE  VoiceInv'
  <2>1. /\ task \in voices /\ task \in Turns /\ voices' = voices \ {task} /\ task' = NoTurn
        /\ machine' \in Voice!States
    BY <1>0, <1>6 DEF Voice!speaking, Voice!Cut, Voice!rested, Voice!States
  <2>2. turn' \in VoiceTurns /\ \A x \in Turns : x \in voices' <=> turn'[x].at = "speaking"
    BY <1>0, <1>1, <1>6, <2>1 DEF VoiceTurns, Voice!Places
  <2>3. ~crossed => voices' = {}
    BY <1>1, <2>1
  <2> QED
    BY <1>0, <1>2, <1>6, <2>1, <2>2, <2>3
\* A reply begins.
<1>7. ASSUME NEW t \in Turns, NEW f \in VoiceTurns, turn' = [f EXCEPT ![t].at = "speaking"],
             Voice!Speech(t), UNCHANGED stop,
             \A x \in Turns : x # t => f[x].at = turn[x].at
      PROVE  VoiceInv'
  <2>1. /\ machine' \in Voice!States /\ voices' = voices \cup {t} /\ task' = t
        /\ crossed' = (crossed \/ voices # {} \/ stop # "none")
    BY <1>7 DEF Voice!Speech, Voice!States
  <2>2. turn' \in VoiceTurns /\ \A x \in Turns : x \in voices' <=> turn'[x].at = "speaking"
    BY <1>0, <1>1, <1>7, <2>1 DEF VoiceTurns, Voice!Places
  <2>3. crossed' \in BOOLEAN
    BY <2>1
  <2>4. ~crossed' => voices' \subseteq {task'} /\ (stop' # "none" => voices' = {})
    BY <1>7, <2>1
  <2>5. /\ task' \in Turns \cup {NoTurn} /\ voices' \subseteq Turns
        /\ stop' \in {"none", "silencing"}
    BY <1>0, <1>7, <2>1
  <2> QED
    BY <1>2, <2>1, <2>2, <2>3, <2>4, <2>5
<1>8. ASSUME NEW t \in Turns, NEW kind \in {"listen", "audio"},
             Voice!Begins(t, kind) \/ Voice!BargesIn(t, kind)
      PROVE  VoiceInv'
  <2>1. CASE Voice!Begins(t, kind)
    <3> DEFINE m == IF machine = "IDLE" THEN "LISTENING" ELSE machine
    <3>1. m \in Voice!States
      BY <1>0 DEF Voice!States
    <3>2. /\ Voice!Hears(t, kind, m, FALSE) /\ turn[t].at = "out"
          /\ UNCHANGED <<voices, task, stop, crossed>>
      BY <2>1 DEF Voice!Begins
    <3> HIDE DEF m
    <3> QED
      BY <1>5, <3>1, <3>2
  <2>2. CASE Voice!BargesIn(t, kind)
    <3> DEFINE new == [at |-> "silencing", kind |-> kind, barged |-> TRUE]
               f == [turn EXCEPT ![t] = new]
    <3>1. /\ turn[t].at = "out" /\ Voice!speaking /\ Voice!Cut /\ UNCHANGED <<stop, crossed>>
          /\ turn' = [f EXCEPT ![task].at = "out"]
      BY <2>2 DEF Voice!BargesIn
    <3>2. /\ new \in [at : Voice!Places \ {"speaking"}, kind : {"listen", "audio", "notice"},
                     barged : BOOLEAN]
          /\ new.at = "silencing"
      BY DEF Voice!Places
    <3> HIDE DEF new
    <3>3. f \in VoiceTurns
      BY <1>0, <3>2 DEF VoiceTurns
    <3>4. \A x \in Turns : x # task => (f[x].at = "speaking" <=> turn[x].at = "speaking")
      BY <1>0, <3>1, <3>2 DEF VoiceTurns
    <3> HIDE DEF f
    <3> QED
      BY <1>0, <1>6, <3>1, <3>3, <3>4
  <2> QED
    BY <1>8, <2>1, <2>2
<1>9. ASSUME NEW t \in Turns, Voice!Silenced(t) PROVE VoiceInv'
  <2>1. turn[t].kind \in {"listen", "audio", "notice"}
    BY <1>0 DEF VoiceTurns
  <2> QED
    BY <1>0, <1>5, <1>9, <2>1 DEF Voice!Silenced
<1>10. ASSUME NEW t \in Turns, NEW speech \in BOOLEAN, Voice!Segmented(t, speech) PROVE VoiceInv'
  BY <1>0, <1>4, <1>10 DEF Voice!Segmented, Voice!MovesTo, Voice!Returns, Voice!States, Voice!Places
<1>11. ASSUME NEW t \in Turns, NEW result \in {"words", "nothing", "fails"},
              Voice!Transcribed(t, result)
       PROVE  VoiceInv'
  BY <1>0, <1>4, <1>11 DEF Voice!Transcribed, Voice!MovesTo, Voice!Returns, Voice!States,
     Voice!Places
<1>12. ASSUME NEW t \in Turns, NEW ok \in BOOLEAN, Voice!Answered(t, ok) PROVE VoiceInv'
  <2>1. CASE Voice!Speech(t) /\ Voice!Goes(t, "speaking")
    BY <1>0, <1>7, <1>12, <2>1 DEF Voice!Answered, Voice!Goes
  <2>2. CASE UNCHANGED <<machine, voices, task, crossed>>
    <3>1. turn[t].at = "engine" /\ UNCHANGED stop
      BY <1>12 DEF Voice!Answered
    <3>2. CASE \E place \in {"refused", "out"} : Voice!Goes(t, place)
      BY <1>0, <1>4, <2>2, <3>1, <3>2 DEF Voice!Places
    <3> QED
      BY <1>12, <2>1, <3>2 DEF Voice!Answered
  <2> QED
    BY <1>12, <2>1, <2>2 DEF Voice!Answered
<1>13. ASSUME NEW t \in Turns, Voice!Notices(t) PROVE VoiceInv'
  <2> DEFINE new == [at |-> "out", kind |-> "notice", barged |-> FALSE]
             f == [turn EXCEPT ![t] = new]
  <2>1. f \in VoiceTurns
    BY <1>0 DEF VoiceTurns, Voice!Places
  <2>2. \A x \in Turns : x # t => f[x].at = turn[x].at
    BY <1>0 DEF VoiceTurns
  <2>3. [f EXCEPT ![t].at = "speaking"] =
          [turn EXCEPT ![t] = [at |-> "speaking", kind |-> "notice", barged |-> FALSE]]
    BY <1>0 DEF VoiceTurns
  <2> HIDE DEF f
  <2> QED
    BY <1>7, <1>13, <2>1, <2>2, <2>3 DEF Voice!Notices
<1>14. ASSUME NEW t \in Turns, Voice!SpeechEnds(t) PROVE VoiceInv'
  <2>1. /\ turn' = [turn EXCEPT ![t].at = "out"] /\ machine' \in Voice!States
        /\ voices' = voices \ {t} /\ task' = NoTurn /\ UNCHANGED <<stop, crossed>>
        /\ turn[t].at = "speaking"
    BY <1>0, <1>14 DEF Voice!SpeechEnds, Voice!Returns, Voice!Goes, Voice!States
  <2>2. turn' \in VoiceTurns /\ \A x \in Turns : x \in voices' <=> turn'[x].at = "speaking"
    BY <1>0, <1>1, <2>1 DEF VoiceTurns, Voice!Places
  <2>3. ~crossed => voices' = {}
    BY <1>1, <2>1
  <2> QED
    BY <1>0, <1>2, <2>1, <2>2, <2>3
<1>15. ASSUME NEW t \in Turns, Voice!Raises(t) PROVE VoiceInv'
  BY <1>0, <1>4, <1>15 DEF Voice!Raises, Voice!Places
<1>16. CASE Voice!StopAsked
  <2>1. CASE Voice!speaking
    BY <1>0, <1>6, <1>16, <2>1 DEF Voice!StopAsked
  <2>2. CASE ~Voice!speaking
    <3>1. UNCHANGED <<machine, turn, voices, task, crossed>> /\ stop' = "silencing"
      BY <1>16, <2>2 DEF Voice!StopAsked
    <3>2. ~crossed => voices = {}
      BY <1>1, <2>2 DEF Voice!speaking
    <3> QED
      BY <1>0, <1>1, <1>2, <3>1, <3>2
  <2> QED
    BY <2>1, <2>2
<1>17. CASE Voice!StopAnswered
  <2>1. /\ stop = "silencing" /\ stop' = "none" /\ task' = NoTurn /\ machine' = "IDLE"
        /\ UNCHANGED <<turn, voices, crossed>>
    BY <1>17 DEF Voice!StopAnswered
  <2> QED
    BY <1>0, <1>1, <1>2, <2>1 DEF Voice!States
<1>18. CASE UNCHANGED voiceVars
  BY <1>0, <1>1, <1>2, <1>18 DEF voiceVars
<1> QED
  BY <1>8, <1>9, <1>10, <1>11, <1>12, <1>13, <1>14, <1>15, <1>16, <1>17, <1>18 DEF Voice!Next

-------------------------------------------------------------------------------
(* CameraConsent: the light, and the count of looks.                         *)

\* A grant owes a frame to the look under way and to each look that is left of it, and what
\* it was given for covers them: unless looks overlap, or access is granted again meanwhile.
FramesOwed ==
  lapses \cap {"regranted", "overlapped"} = {} =>
    /\ \A c, d \in Looks : look[c].at # "out" /\ look[d].at # "out" => c = d
    /\ \A c \in Looks : look[c].at # "out" => look[c].under = given /\ given > 0
    /\ \A g \in 1..MaxGrants : taken[g] <= allowed[g]
    /\ \A g \in 1..MaxGrants : g > given => taken[g] = 0
    /\ given > 0 => taken[given] + grant.left <= allowed[given]
    /\ \A c \in Looks : look[c].at # "out" => taken[given] + 1 <= allowed[given]

CameraInv == Camera!TypeOK /\ Camera!LightIsTrue /\ FramesOwed

\* The types TypeOK gives the captures and the grant.
CameraLooks == [Looks -> [at : {"out", "opening", "taking"}, under : 0..MaxGrants]]
CameraGrants == [live : BOOLEAN, left : 0..2]
CameraLapses == {"regranted", "overlapped", "stuck"}

\* Initially the camera is off, and nothing has been granted.
LEMMA CameraInit == Camera!Init => CameraInv
<1> SUFFICES ASSUME Camera!Init PROVE CameraInv
  OBVIOUS
<1>1. /\ state = "OFF" /\ hardware = FALSE /\ given = 0 /\ closing = {} /\ lastLook = "never"
      /\ lapses = {} /\ grant = [live |-> FALSE, left |-> 0]
      /\ look = [c \in Looks |-> [at |-> "out", under |-> 0]]
      /\ allowed = [g \in 1..MaxGrants |-> 0] /\ taken = [g \in 1..MaxGrants |-> 0]
  BY DEF Camera!Init, Camera!NoGrant
<1>2. Camera!TypeOK
  <2>0. hardware \in BOOLEAN
    BY <1>1
  <2>1. grant \in [live : BOOLEAN, left : 0..2]
    BY <1>1
  <2>2. look \in [Looks -> [at : {"out", "opening", "taking"}, under : 0..MaxGrants]]
    BY <1>1, OwnerAssumption
  <2>3. allowed \in [1..MaxGrants -> 0..2] /\ taken \in [1..MaxGrants -> Nat]
    BY <1>1
  <2>4. /\ state \in {"OFF", "ARMED", "ACTIVE"} /\ given \in 0..MaxGrants
        /\ closing \subseteq Camera!Closers /\ lastLook \in {"never", "recent", "old"}
        /\ lapses \subseteq {"regranted", "overlapped", "stuck"}
    BY <1>1, OwnerAssumption
  <2> QED
    BY <2>0, <2>1, <2>2, <2>3, <2>4 DEF Camera!TypeOK
<1>3. FramesOwed
  BY <1>1 DEF FramesOwed
<1> QED
  BY <1>1, <1>2, <1>3 DEF CameraInv, Camera!LightIsTrue

\* Every step of a capture, of the owner, of the sweep and of the source keeps the types.
LEMMA CameraTypes == Camera!TypeOK /\ [Camera!Next]_cameraVars => Camera!TypeOK'
<1> SUFFICES ASSUME Camera!TypeOK, [Camera!Next]_cameraVars PROVE Camera!TypeOK'
  OBVIOUS
<1>0. /\ state \in {"OFF", "ARMED", "ACTIVE"} /\ hardware \in BOOLEAN /\ given \in 0..MaxGrants
      /\ grant \in CameraGrants /\ look \in CameraLooks /\ closing \subseteq Camera!Closers
      /\ lastLook \in {"never", "recent", "old"} /\ lapses \subseteq CameraLapses
      /\ allowed \in [1..MaxGrants -> 0..2] /\ taken \in [1..MaxGrants -> Nat]
      /\ MaxGrants \in Nat
  BY OwnerAssumption DEF Camera!TypeOK, CameraGrants, CameraLooks, CameraLapses
<1>1. ASSUME state' \in {"OFF", "ARMED", "ACTIVE"}, hardware' \in BOOLEAN, given' \in 0..MaxGrants,
             grant' \in CameraGrants, look' \in CameraLooks, closing' \subseteq Camera!Closers,
             lastLook' \in {"never", "recent", "old"}, lapses' \subseteq CameraLapses,
             allowed' \in [1..MaxGrants -> 0..2], taken' \in [1..MaxGrants -> Nat]
      PROVE  Camera!TypeOK'
  BY <1>1 DEF Camera!TypeOK, CameraGrants, CameraLooks, CameraLapses
<1>c. ASSUME NEW who \in Camera!Closers, Camera!Close(who)
      PROVE  state' \in {"OFF", "ARMED", "ACTIVE"} /\ closing' \subseteq Camera!Closers
  BY <1>0, <1>c DEF Camera!Close
<1>k. Looks \subseteq Camera!Closers /\ {"owner", "sweep"} \subseteq Camera!Closers
  BY DEF Camera!Closers
<1>2. ASSUME NEW looks \in 1..2, Camera!Grant(looks) PROVE Camera!TypeOK'
  <2>1. /\ given' = given + 1 /\ given' \in 1..MaxGrants /\ state' = "ARMED"
        /\ grant' = [live |-> TRUE, left |-> looks] /\ allowed' = [allowed EXCEPT ![given'] = looks]
        /\ lapses' \subseteq CameraLapses
        /\ UNCHANGED <<hardware, look, closing, lastLook, taken>>
    BY <1>0, <1>2 DEF Camera!Grant, CameraLapses
  <2>2. grant' \in CameraGrants /\ allowed' \in [1..MaxGrants -> 0..2] /\ given' \in 0..MaxGrants
    BY <1>0, <2>1 DEF CameraGrants
  <2> QED
    BY <1>0, <1>1, <2>1, <2>2
<1>3. CASE Camera!Expires \/ Camera!Idle
  <2>1. grant' \in CameraGrants /\ lastLook' \in {"never", "recent", "old"}
    BY <1>0, <1>3 DEF Camera!Expires, Camera!Idle, CameraGrants
  <2>2. UNCHANGED <<state, hardware, given, look, closing, allowed, taken, lapses>>
    BY <1>3 DEF Camera!Expires, Camera!Idle
  <2> QED
    BY <1>0, <1>1, <2>1, <2>2
<1>4. CASE Camera!Revoke \/ Camera!Sweep
  <2>1. \E who \in {"owner", "sweep"} : Camera!Close(who)
    BY <1>4 DEF Camera!Revoke, Camera!Sweep
  <2>2. grant' \in CameraGrants
    <3>1. [live |-> FALSE, left |-> 0] \in CameraGrants
      BY DEF CameraGrants
    <3>2. grant' = [live |-> FALSE, left |-> 0] \/ grant' = grant
      BY <1>4 DEF Camera!Revoke, Camera!Sweep, Camera!NoGrant
    <3> QED
      BY <1>0, <3>1, <3>2
  <2>3. UNCHANGED <<hardware, given, look, lastLook, allowed, taken, lapses>>
    BY <1>4 DEF Camera!Revoke, Camera!Sweep
  <2> QED
    BY <1>0, <1>1, <1>c, <1>k, <2>1, <2>2, <2>3
<1>5. ASSUME NEW c \in Looks, Camera!Look(c) PROVE Camera!TypeOK'
  <2>1. lapses' \subseteq CameraLapses
    BY <1>0, <1>5 DEF Camera!Look, CameraLapses
  <2>2. look' \in CameraLooks
    BY <1>0, <1>5 DEF Camera!Look, CameraLooks
  <2> QED
    BY <1>0, <1>1, <1>5, <2>1, <2>2 DEF Camera!Look
<1>6. ASSUME NEW c \in Looks, Camera!Taken(c) PROVE Camera!TypeOK'
  <2>1. look' \in CameraLooks /\ look[c].under \in 0..MaxGrants
    BY <1>0, <1>6 DEF Camera!Taken, Camera!At, CameraLooks
  <2>2. Camera!charged \in CameraGrants /\ Camera!NoGrant \in CameraGrants
    <3>1. grant.left \in 0..2 /\ (IF grant.left = 0 THEN 0 ELSE grant.left - 1) \in 0..2
      BY <1>0 DEF CameraGrants
    <3>2. [grant EXCEPT !.left = IF grant.left = 0 THEN 0 ELSE grant.left - 1] \in CameraGrants
      BY <1>0, <3>1 DEF CameraGrants
    <3> QED
      BY <3>2 DEF Camera!charged, Camera!NoGrant, CameraGrants
  <2>3. taken' \in [1..MaxGrants -> Nat] /\ lastLook' = "recent"
    <3>1. taken' = [taken EXCEPT ![look[c].under] = @ + 1] /\ lastLook' = "recent"
      BY <1>6 DEF Camera!Taken
    <3>2. CASE look[c].under \in 1..MaxGrants
      BY <1>0, <3>1, <3>2
    <3>3. CASE look[c].under = 0
      <4>1. look[c].under \notin DOMAIN taken
        BY <1>0, <3>3
      <4> QED
        BY <1>0, <3>1, <4>1
    <3> QED
      BY <1>0, <2>1, <3>1, <3>2, <3>3
  <2>4. /\ grant' \in CameraGrants /\ state' \in {"OFF", "ARMED", "ACTIVE"}
        /\ closing' \subseteq Camera!Closers
    BY <1>0, <1>6, <1>c, <1>k, <2>2 DEF Camera!Taken
  <2> QED
    BY <1>0, <1>1, <1>6, <2>1, <2>3, <2>4 DEF Camera!Taken
<1>7. ASSUME NEW c \in Looks, NEW ok \in BOOLEAN, Camera!Opened(c, ok) \/ Camera!Fails(c)
      PROVE  Camera!TypeOK'
  <2>1. look' \in CameraLooks
    BY <1>0, <1>7, ZenonT(60) DEF Camera!Opened, Camera!Fails, Camera!At, CameraLooks
  <2>2. state' \in {"OFF", "ARMED", "ACTIVE"} /\ hardware' \in BOOLEAN
    BY <1>0, <1>7 DEF Camera!Opened, Camera!Fails
  <2>3. UNCHANGED <<given, grant, closing, lastLook, allowed, taken, lapses>>
    BY <1>7 DEF Camera!Opened, Camera!Fails
  <2> QED
    BY <1>0, <1>1, <2>1, <2>2, <2>3
<1>8. ASSUME NEW who \in Camera!Closers, NEW ok \in BOOLEAN, Camera!Closed(who, ok)
      PROVE  Camera!TypeOK'
  <2>1. state' = "OFF" /\ closing' \subseteq Camera!Closers /\ lapses' \subseteq CameraLapses
    BY <1>0, <1>8 DEF Camera!Closed, CameraLapses
  <2>2. hardware' \in BOOLEAN /\ UNCHANGED <<given, grant, look, lastLook, allowed, taken>>
    BY <1>8 DEF Camera!Closed
  <2> QED
    BY <1>0, <1>1, <2>1, <2>2
<1>9. CASE UNCHANGED cameraVars
  BY <1>0, <1>1, <1>9 DEF cameraVars
<1> QED
  BY <1>2, <1>3, <1>4, <1>5, <1>6, <1>7, <1>8, <1>9 DEF Camera!Next

\* An open camera is lit after every step, unless access was granted again while it was in use
\* or the source failed to close.
LEMMA LightStays ==
  Camera!TypeOK /\ Camera!LightIsTrue /\ [Camera!Next]_cameraVars => Camera!LightIsTrue'
<1> SUFFICES ASSUME Camera!TypeOK, Camera!LightIsTrue, [Camera!Next]_cameraVars
             PROVE  Camera!LightIsTrue'
  OBVIOUS
<1>0. hardware \in BOOLEAN /\ (hardware => state = "ACTIVE" \/ "regranted" \in lapses \/ "stuck" \in lapses)
  BY DEF Camera!TypeOK, Camera!LightIsTrue
<1>1. ASSUME hardware' => state' = "ACTIVE" \/ "regranted" \in lapses' \/ "stuck" \in lapses'
      PROVE  Camera!LightIsTrue'
  BY <1>1 DEF Camera!LightIsTrue
<1>c. ASSUME NEW who, Camera!Close(who), UNCHANGED <<hardware, lapses>>
      PROVE  Camera!LightIsTrue'
  <2>1. CASE state = "ACTIVE"
    BY <1>0, <1>1, <1>c, <2>1 DEF Camera!Close
  <2>2. CASE state # "ACTIVE"
    BY <1>0, <1>1, <1>c, <2>2
  <2> QED
    BY <2>1, <2>2
<1>2. ASSUME NEW looks \in 1..2, Camera!Grant(looks) PROVE Camera!LightIsTrue'
  <2>1. hardware' = hardware /\ (hardware => "regranted" \in lapses')
    BY <1>2 DEF Camera!Grant
  <2> QED
    BY <1>1, <2>1
<1>3. CASE Camera!Expires \/ Camera!Idle
  BY <1>0, <1>1, <1>3 DEF Camera!Expires, Camera!Idle
<1>4. CASE Camera!Revoke \/ Camera!Sweep
  BY <1>4, <1>c DEF Camera!Revoke, Camera!Sweep
<1>5. ASSUME NEW c \in Looks, Camera!Look(c) PROVE Camera!LightIsTrue'
  <2>1. UNCHANGED <<hardware, state>> /\ lapses \subseteq lapses'
    BY <1>5 DEF Camera!Look
  <2> QED
    BY <1>0, <1>1, <2>1
<1>6. ASSUME NEW c \in Looks, Camera!Taken(c) PROVE Camera!LightIsTrue'
  <2>1. UNCHANGED <<hardware, lapses>> /\ (Camera!Close(c) \/ UNCHANGED state)
    BY <1>6 DEF Camera!Taken
  <2> QED
    BY <1>0, <1>1, <1>c, <2>1
<1>7. ASSUME NEW c \in Looks, NEW ok \in BOOLEAN, Camera!Opened(c, ok) \/ Camera!Fails(c)
      PROVE  Camera!LightIsTrue'
  BY <1>0, <1>1, <1>7 DEF Camera!Opened, Camera!Fails
<1>8. ASSUME NEW who \in Camera!Closers, NEW ok \in BOOLEAN, Camera!Closed(who, ok)
      PROVE  Camera!LightIsTrue'
  <2>1. hardware' => "stuck" \in lapses'
    BY <1>8 DEF Camera!Closed
  <2> QED
    BY <1>1, <2>1
<1>9. CASE UNCHANGED cameraVars
  BY <1>0, <1>1, <1>9 DEF cameraVars
<1> QED
  BY <1>2, <1>3, <1>4, <1>5, <1>6, <1>7, <1>8, <1>9 DEF Camera!Next

\* What a grant owes is owed after every step.
LEMMA FramesStayOwed ==
  Camera!TypeOK /\ FramesOwed /\ [Camera!Next]_cameraVars => FramesOwed'
<1> SUFFICES ASSUME Camera!TypeOK, FramesOwed, [Camera!Next]_cameraVars,
                    "regranted" \notin lapses', "overlapped" \notin lapses'
             PROVE  FramesOwed'
  BY DEF FramesOwed
<1>0. /\ given \in 0..MaxGrants /\ grant \in CameraGrants /\ look \in CameraLooks
      /\ allowed \in [1..MaxGrants -> 0..2] /\ taken \in [1..MaxGrants -> Nat]
      /\ MaxGrants \in Nat
  BY OwnerAssumption DEF Camera!TypeOK, CameraGrants, CameraLooks
<1>l. lapses \subseteq lapses'
  BY DEF Camera!Next, Camera!Grant, Camera!Expires, Camera!Idle, Camera!Revoke, Camera!Sweep,
     Camera!Look, Camera!Taken, Camera!Fails, Camera!Opened, Camera!Closed, cameraVars
<1>1. /\ \A c, d \in Looks : look[c].at # "out" /\ look[d].at # "out" => c = d
      /\ \A c \in Looks : look[c].at # "out" => look[c].under = given /\ given > 0
      /\ \A g \in 1..MaxGrants : taken[g] <= allowed[g]
      /\ \A g \in 1..MaxGrants : g > given => taken[g] = 0
      /\ given > 0 => taken[given] + grant.left <= allowed[given]
      /\ \A c \in Looks : look[c].at # "out" => taken[given] + 1 <= allowed[given]
  BY <1>l DEF FramesOwed
<1>a. ASSUME \A c, d \in Looks : look'[c].at # "out" /\ look'[d].at # "out" => c = d,
             \A c \in Looks : look'[c].at # "out" => look'[c].under = given' /\ given' > 0,
             \A g \in 1..MaxGrants : taken'[g] <= allowed'[g],
             \A g \in 1..MaxGrants : g > given' => taken'[g] = 0,
             given' > 0 => taken'[given'] + grant'.left <= allowed'[given'],
             \A c \in Looks : look'[c].at # "out" => taken'[given'] + 1 <= allowed'[given']
      PROVE  FramesOwed'
  BY <1>a DEF FramesOwed
<1>b. ASSUME UNCHANGED <<given, allowed, taken>>, grant'.left <= grant.left,
             grant'.left \in 0..2,
             \A c \in Looks : look'[c].at # "out" => look[c].at # "out" /\ look'[c].under = look[c].under
      PROVE  FramesOwed'
  <2>1. given' > 0 => taken'[given'] + grant'.left <= allowed'[given']
    <3> SUFFICES ASSUME given > 0
                 PROVE  taken[given] + grant'.left <= allowed[given]
      BY <1>b
    <3>1. taken[given] \in Nat /\ allowed[given] \in Nat /\ grant.left \in Nat
      BY <1>0, SMTT(60) DEF CameraGrants
    <3> QED
      BY <1>1, <1>b, <3>1
  <2> QED
    BY <1>1, <1>a, <1>b, <2>1
<1>g. grant.left \in 0..2
  BY <1>0 DEF CameraGrants
<1>2. ASSUME NEW looks \in 1..2, Camera!Grant(looks) PROVE FramesOwed'
  <2>1. /\ given < MaxGrants /\ given' = given + 1 /\ grant'.left = looks
        /\ allowed' = [allowed EXCEPT ![given'] = looks] /\ UNCHANGED <<look, taken>>
    BY <1>2 DEF Camera!Grant
  <2>2. \A c \in Looks : look[c].at = "out"
    BY <1>2 DEF Camera!Grant, Camera!underWay
  <2>3. given' \in 1..MaxGrants /\ taken[given'] = 0 /\ allowed'[given'] = looks
    BY <1>0, <1>1, <2>1
  <2>4. \A g \in 1..MaxGrants : taken'[g] <= allowed'[g]
    BY <1>0, <1>1, <2>1, <2>3
  <2>5. \A g \in 1..MaxGrants : g > given' => taken'[g] = 0
    BY <1>0, <1>1, <2>1
  <2> QED
    BY <1>a, <2>1, <2>2, <2>3, <2>4, <2>5
<1>3. CASE Camera!Expires \/ Camera!Idle \/ Camera!Revoke \/ Camera!Sweep
  <2>1. grant'.left = grant.left \/ grant'.left = 0
    BY <1>0, <1>3 DEF Camera!Expires, Camera!Idle, Camera!Revoke, Camera!Sweep, Camera!NoGrant, CameraGrants
  <2>2. UNCHANGED <<given, allowed, taken, look>>
    BY <1>3 DEF Camera!Expires, Camera!Idle, Camera!Revoke, Camera!Sweep
  <2> QED
    BY <1>b, <1>g, <2>1, <2>2
<1>5. ASSUME NEW c \in Looks, Camera!Look(c) PROVE FramesOwed'
  <2>1. /\ given > 0 /\ grant.left # 0 /\ UNCHANGED <<given, grant, allowed, taken>>
        /\ \A d \in Looks : look[d].at = "out"
    BY <1>5 DEF Camera!Look, Camera!may_capture, Camera!expired, Camera!underWay
  <2>2. /\ \A d \in Looks : d # c => look'[d].at = "out"
        /\ look'[c].under = given
    BY <1>0, <1>5, <2>1 DEF Camera!Look, CameraLooks
  <2>3. taken[given] + 1 <= allowed[given]
    <3>1. taken[given] \in Nat /\ allowed[given] \in Nat
      BY <1>0, <2>1
    <3> QED
      BY <1>1, <1>g, <2>1, <3>1
  <2> QED
    BY <1>1, <1>a, <2>1, <2>2, <2>3
<1>6. ASSUME NEW c \in Looks, Camera!Taken(c) PROVE FramesOwed'
  <2>1. /\ look[c].at # "out" /\ look[c].under = given /\ given \in 1..MaxGrants
        /\ taken' = [taken EXCEPT ![given] = @ + 1] /\ UNCHANGED <<given, allowed>>
        /\ look' = [look EXCEPT ![c].at = "out"]
    <3>1. /\ look[c].at = "taking" /\ UNCHANGED <<given, allowed>>
          /\ taken' = [taken EXCEPT ![look[c].under] = @ + 1]
          /\ look' = [look EXCEPT ![c].at = "out"]
      BY <1>6 DEF Camera!Taken, Camera!At
    <3>2. look[c].under = given /\ given > 0
      BY <1>1, <3>1
    <3> QED
      BY <1>0, <3>1, <3>2
  <2>2. \A d \in Looks : look'[d].at = "out"
    BY <1>0, <1>1, <2>1 DEF CameraLooks
  <2>3. taken'[given] = taken[given] + 1 /\ taken[given] + 1 <= allowed[given]
    BY <1>0, <1>1, <2>1
  <2>4. grant'.left = 0 \/ (grant.left > 0 /\ grant'.left = grant.left - 1)
    <3>1. Camera!charged.left = 0 \/ (grant.left > 0 /\ Camera!charged.left = grant.left - 1)
      BY <1>0, <1>g DEF Camera!charged, Camera!NoGrant, CameraGrants
    <3>2. grant' = Camera!NoGrant \/ grant' = Camera!charged
      BY <1>6 DEF Camera!Taken
    <3> QED
      BY <3>1, <3>2 DEF Camera!NoGrant
  <2>5. taken'[given] + grant'.left <= allowed[given]
    <3>1. taken[given] \in Nat /\ allowed[given] \in Nat
      BY <1>0, <2>1
    <3> QED
      BY <1>1, <1>g, <2>1, <2>3, <2>4, <3>1
  <2>6. \A g \in 1..MaxGrants : taken'[g] <= allowed'[g] /\ (g > given' => taken'[g] = 0)
    BY <1>0, <1>1, <2>1, <2>3
  <2> QED
    BY <1>a, <2>1, <2>2, <2>5, <2>6
<1>7. ASSUME NEW c \in Looks, NEW ok \in BOOLEAN, Camera!Opened(c, ok) \/ Camera!Fails(c)
      PROVE  FramesOwed'
  <2>1. UNCHANGED <<given, grant, allowed, taken>>
    BY <1>7 DEF Camera!Opened, Camera!Fails
  <2>2. \E place \in {"out", "taking"} : look' = [look EXCEPT ![c].at = place]
    BY <1>7 DEF Camera!Opened, Camera!Fails, Camera!At
  <2>3. look[c].at # "out"
    BY <1>7 DEF Camera!Opened, Camera!Fails
  <2>4. \A d \in Looks : look'[d].at # "out" => look[d].at # "out" /\ look'[d].under = look[d].under
    BY <1>0, <2>2, <2>3 DEF CameraLooks
  <2> QED
    BY <1>b, <1>g, <2>1, <2>4
<1>8. ASSUME NEW who \in Camera!Closers, NEW ok \in BOOLEAN, Camera!Closed(who, ok)
      PROVE  FramesOwed'
  BY <1>8, <1>b, <1>g DEF Camera!Closed
<1>9. CASE UNCHANGED cameraVars
  BY <1>9, <1>b, <1>g DEF cameraVars
<1> QED
  BY <1>2, <1>3, <1>5, <1>6, <1>7, <1>8, <1>9 DEF Camera!Next

\* Every step of the camera's keeps its invariant.
LEMMA CameraStep == CameraInv /\ [Camera!Next]_cameraVars => CameraInv'
BY CameraTypes, LightStays, FramesStayOwed DEF CameraInv

-------------------------------------------------------------------------------
(* RealtimeGateway: the expression on its way.                               *)

\* While nothing was overtaken: the receive loop is putting the newest expression or none, an
\* older one in the outbox has the newest behind it, and so has one that is being sent.
NewestIsBehind ==
  online /\ ~overtaken =>
    /\ \A i \in DOMAIN putting : putting[i] \in {Gateway!Other, last}
    /\ \A i \in DOMAIN outbox :
         \/ outbox[i] = Gateway!Other
         \/ \E j \in DOMAIN putting : putting[j] = last
         \/ \E j \in DOMAIN outbox : i <= j /\ outbox[j] = last
    /\ \A i \in DOMAIN sending : sending[i] = Gateway!Other \/ last \in Gateway!onItsWay
    /\ shown = last \/ last \in Gateway!onItsWay

GatewayInv ==
  /\ Gateway!TypeOK /\ Len(putting) <= 1 /\ Len(sending) <= 1
  /\ online => last \in Gateway!Faces
  /\ NewestIsBehind

\* Where the items of a queue are when one is appended to it, or its head is taken.
LEMMA Appended ==
  ASSUME NEW S, NEW s \in Seq(S), NEW x \in S
  PROVE  /\ Append(s, x) \in Seq(S) /\ Len(Append(s, x)) = Len(s) + 1
         /\ \A i \in DOMAIN s : i \in DOMAIN Append(s, x) /\ Append(s, x)[i] = s[i]
         /\ Len(s) + 1 \in DOMAIN Append(s, x) /\ Append(s, x)[Len(s) + 1] = x
         /\ \A i \in DOMAIN Append(s, x) : i \in DOMAIN s \/ i = Len(s) + 1
         /\ \A i \in DOMAIN s : i <= Len(s) + 1
OBVIOUS

\* The items that are left move up by one.
LEMMA HeadTaken ==
  ASSUME NEW S, NEW s \in Seq(S), s # <<>>
  PROVE  /\ Tail(s) \in Seq(S) /\ Len(Tail(s)) = Len(s) - 1
         /\ 1 \in DOMAIN s /\ s[1] = Head(s) /\ Head(s) \in S
         /\ \A i \in DOMAIN Tail(s) : i + 1 \in DOMAIN s /\ Tail(s)[i] = s[i + 1]
         /\ \A i \in DOMAIN s : i # 1 => i - 1 \in DOMAIN Tail(s) /\ Tail(s)[i - 1] = s[i]
OBVIOUS

\* Initially nobody is connected and nothing is queued.
LEMMA GatewayInit == Gateway!Init => GatewayInv
<1> SUFFICES ASSUME Gateway!Init PROVE GatewayInv
  OBVIOUS
<1>1. /\ face = 1 /\ last = 0 /\ outbox = <<>> /\ putting = <<>> /\ sending = <<>>
      /\ recv = "receive" /\ inbox = <<>> /\ shown = 0 /\ overtaken = FALSE
      /\ links = 0 /\ frames = 0 /\ online = FALSE
  BY DEF Gateway!Init, Gateway!Quiet
<1>2. overtaken \in BOOLEAN
  BY <1>1
<1>3. online \in BOOLEAN
  BY <1>1
<1>4. Gateway!TypeOK
  BY <1>1, <1>2, <1>3, OwnerAssumption DEF Gateway!TypeOK, Gateway!Faces
<1> QED
  BY <1>1, <1>4 DEF GatewayInv, NewestIsBehind

\* The types, and that the loop puts and the pump sends one thing at a time, are kept.
LEMMA GatewayTypes ==
  GatewayInv /\ [Gateway!Next]_gatewayVars =>
    /\ Gateway!TypeOK' /\ Len(putting') <= 1 /\ Len(sending') <= 1
    /\ online' => last' \in Gateway!Faces
<1> DEFINE Items == 0..MaxChanges
           Inv == /\ Gateway!TypeOK /\ Len(putting) <= 1 /\ Len(sending) <= 1
                  /\ online => last \in Gateway!Faces
<1> SUFFICES ASSUME GatewayInv, [Gateway!Next]_gatewayVars PROVE Inv'
  BY DEF GatewayInv
<1>a. /\ Gateway!Faces = 1..MaxChanges /\ Gateway!Faces \cup {Gateway!Other} = Items
      /\ Gateway!Faces \cup {0} = Items /\ 0 \in Items /\ Gateway!Other = 0 /\ Gateway!Quiet = <<>>
  BY OwnerAssumption DEF Gateway!Faces, Gateway!Other, Gateway!Quiet
<1>0. /\ face \in 1..MaxChanges /\ last \in Items
      /\ outbox \in Seq(Items) /\ Len(outbox) <= Capacity
      /\ putting \in Seq(Items) /\ sending \in Seq(Items)
      /\ recv \in {"receive", "turn", "answered", "stop"}
      /\ inbox \in Seq({"turn", "interrupt"}) /\ shown \in Items
      /\ overtaken \in BOOLEAN /\ online \in BOOLEAN
      /\ links \in 0..MaxLinks /\ frames \in 0..MaxFrames
      /\ Len(putting) <= 1 /\ Len(sending) <= 1 /\ (online => last \in 1..MaxChanges)
      /\ MaxChanges \in Nat /\ Capacity \in Nat /\ MaxLinks \in Nat /\ MaxFrames \in Nat
  BY <1>a, OwnerAssumption DEF GatewayInv, Gateway!TypeOK
<1>1. ASSUME face' \in 1..MaxChanges, last' \in Items,
             outbox' \in Seq(Items), Len(outbox') <= Capacity,
             putting' \in Seq(Items), sending' \in Seq(Items),
             recv' \in {"receive", "turn", "answered", "stop"},
             inbox' \in Seq({"turn", "interrupt"}), shown' \in Items,
             overtaken' \in BOOLEAN, online' \in BOOLEAN,
             links' \in 0..MaxLinks, frames' \in 0..MaxFrames,
             Len(putting') <= 1, Len(sending') <= 1, online' => last' \in 1..MaxChanges
      PROVE  Inv'
  BY <1>a, <1>1 DEF Gateway!TypeOK
<1>e. <<>> \in Seq(Items) /\ Len(<<>>) = 0
  OBVIOUS
<1>s. \A x \in Items : <<x>> \in Seq(Items) /\ Len(<<x>>) = 1
  OBVIOUS
<1>f. 1..MaxChanges \subseteq Items
  OBVIOUS
<1> HIDE DEF Items, Inv
<1>c. ASSUME Gateway!Checks, online
      PROVE  /\ last' \in 1..MaxChanges /\ sending' \in Seq(Items) /\ Len(sending') <= 1
             /\ overtaken' \in BOOLEAN
  <2>1. last' \in 1..MaxChanges /\ sending' \in Seq(Items) /\ Len(sending') <= 1
    <3>1. CASE Gateway!changed
      <4>1. last' = face /\ sending' = <<face>>
        BY <1>c, <3>1 DEF Gateway!Checks
      <4> QED
        BY <1>0, <1>f, <1>s, <4>1
    <3>2. CASE ~Gateway!changed
      <4>1. last' = last /\ sending' = <<>>
        BY <1>a, <1>c, <3>2 DEF Gateway!Checks
      <4> QED
        BY <1>0, <1>c, <1>e, <4>1
    <3> QED
      BY <3>1, <3>2
  <2>2. \/ overtaken' = overtaken
        \/ overtaken' = (overtaken \/ Gateway!queuedFaces
                          \/ (putting # Gateway!Quiet /\ Head(putting) # Gateway!Other))
    BY <1>c DEF Gateway!Checks
  <2>3. overtaken' \in BOOLEAN
    BY <1>0, <2>2
  <2> QED
    BY <2>1, <2>3
<1>n. ASSUME NEW f \in 1..MaxChanges, Gateway!Announces(f)
      PROVE  putting' \in Seq(Items) /\ Len(putting') <= 1 /\ last' \in 1..MaxChanges
  BY <1>a, <1>e, <1>f, <1>n, <1>s DEF Gateway!Announces
<1>h. \A kind \in {"turn", "interrupt"} : Append(inbox, kind) \in Seq({"turn", "interrupt"})
  BY <1>0
<1>t. inbox # <<>> => Tail(inbox) \in Seq({"turn", "interrupt"})
  BY <1>0
<1>2. CASE Gateway!Connect
  <2>1. overtaken' \in BOOLEAN
    BY <1>2 DEF Gateway!Connect
  <2>2. online' \in BOOLEAN
    BY <1>2 DEF Gateway!Connect
  <2>3. links' \in 0..MaxLinks
    BY <1>0, <1>2 DEF Gateway!Connect
  <2> QED
    BY <1>0, <1>1, <1>2, <1>a, <1>e, <1>f, <2>1, <2>2, <2>3 DEF Gateway!Connect
<1>3. CASE Gateway!LinkLost
  BY <1>0, <1>1, <1>3, <1>a DEF Gateway!LinkLost
<1>4. CASE Gateway!Changes
  BY <1>0, <1>1, <1>4 DEF Gateway!Changes
<1>5. CASE Gateway!Event
  <2>1. outbox' \in Seq(Items) /\ Len(outbox') <= Capacity
    BY <1>0, <1>5, <1>a, Appended DEF Gateway!Event
  <2> QED
    BY <1>0, <1>1, <1>5, <2>1 DEF Gateway!Event
<1>6. CASE Gateway!Put
  <2>1. /\ outbox' \in Seq(Items) /\ Len(outbox') <= Capacity
        /\ putting' \in Seq(Items) /\ Len(putting') <= 1
    BY <1>0, <1>6, <1>a, Appended, HeadTaken DEF Gateway!Put
  <2> QED
    BY <1>0, <1>1, <1>6, <2>1 DEF Gateway!Put
<1>7. CASE Gateway!Receive
  <2>1. putting' \in Seq(Items) /\ Len(putting') <= 1 /\ last' \in 1..MaxChanges
    BY <1>0, <1>7, <1>n DEF Gateway!Receive
  <2> QED
    BY <1>0, <1>1, <1>7, <1>a, <1>f, <1>t, <2>1 DEF Gateway!Receive
<1>8. CASE Gateway!Replies
  BY <1>0, <1>1, <1>8, <1>a, <1>s DEF Gateway!Replies
<1>9. CASE Gateway!Settles
  <2>1. putting' \in Seq(Items) /\ Len(putting') <= 1 /\ last' \in 1..MaxChanges
    BY <1>0, <1>9, <1>n DEF Gateway!Settles
  <2> QED
    BY <1>0, <1>1, <1>9, <1>f, <2>1 DEF Gateway!Settles
<1>10. CASE Gateway!PumpTakes
  <2>1. /\ outbox' \in Seq(Items) /\ Len(outbox') <= Capacity
        /\ sending' \in Seq(Items) /\ Len(sending') <= 1
    BY <1>0, <1>10, <1>a, <1>s, HeadTaken DEF Gateway!PumpTakes
  <2> QED
    BY <1>0, <1>1, <1>10, <2>1 DEF Gateway!PumpTakes
<1>11. CASE Gateway!Delivered
  <2>1. Gateway!Checks /\ online /\ UNCHANGED <<face, outbox, putting, recv, inbox, links, frames, online>>
        /\ (shown' = shown \/ (sending # <<>> /\ shown' = Head(sending)))
    BY <1>11, <1>a DEF Gateway!Delivered
  <2>2. shown' \in Items
    BY <1>0, <2>1, HeadTaken
  <2> QED
    BY <1>0, <1>1, <1>c, <1>f, <2>1, <2>2
<1>12. CASE Gateway!Timer
  BY <1>0, <1>1, <1>12, <1>c, <1>f DEF Gateway!Timer
<1>13. ASSUME NEW kind \in {"turn", "interrupt"}, Gateway!Frame(kind) PROVE Inv'
  BY <1>0, <1>1, <1>13, <1>h DEF Gateway!Frame
<1>14. CASE UNCHANGED gatewayVars
  BY <1>0, <1>1, <1>14 DEF gatewayVars
<1> QED
  BY <1>2, <1>3, <1>4, <1>5, <1>6, <1>7, <1>8, <1>9, <1>10, <1>11, <1>12, <1>13, <1>14
     DEF Gateway!Next

\* While nothing was overtaken the newest expression stays behind every older one.
LEMMA NewestStaysBehind == GatewayInv /\ [Gateway!Next]_gatewayVars => NewestIsBehind'
<1> DEFINE Items == 0..MaxChanges
<1> SUFFICES ASSUME GatewayInv, [Gateway!Next]_gatewayVars, online', ~overtaken'
             PROVE  NewestIsBehind'
  BY DEF NewestIsBehind
<1>a. Gateway!Faces \cup {Gateway!Other} = Items /\ Gateway!Other = 0 /\ Gateway!Quiet = <<>>
  BY OwnerAssumption DEF Gateway!Faces, Gateway!Other, Gateway!Quiet
<1>0. /\ outbox \in Seq(Items) /\ putting \in Seq(Items) /\ sending \in Seq(Items)
      /\ face \in 1..MaxChanges /\ overtaken \in BOOLEAN
      /\ Len(putting) <= 1 /\ Len(sending) <= 1 /\ MaxChanges \in Nat
  BY <1>a, OwnerAssumption DEF GatewayInv, Gateway!TypeOK, Gateway!Faces
<1> DEFINE Puts == \E j \in DOMAIN putting : putting[j] = last
           Behind(i) == \/ outbox[i] = 0 \/ Puts
                        \/ \E j \in DOMAIN outbox : i <= j /\ outbox[j] = last
           Queued == \E j \in DOMAIN outbox : outbox[j] = last
           Sent == \E j \in DOMAIN sending : sending[j] = last
<1>o. Gateway!onItsWay = {outbox[i] : i \in DOMAIN outbox} \cup {putting[i] : i \in DOMAIN putting}
                         \cup {sending[i] : i \in DOMAIN sending}
  BY DEF Gateway!onItsWay
<1>p. (last \in Gateway!onItsWay) <=> Queued \/ Puts \/ Sent
  BY <1>o
<1>q. (last \in Gateway!onItsWay)' <=> Queued' \/ Puts' \/ Sent'
  BY DEF Gateway!onItsWay
<1>1. ASSUME online, ~overtaken
      PROVE  /\ \A i \in DOMAIN putting : putting[i] \in {0, last}
             /\ \A i \in DOMAIN outbox : Behind(i)
             /\ \A i \in DOMAIN sending : sending[i] = 0 \/ Queued \/ Puts \/ Sent
             /\ shown = last \/ Queued \/ Puts \/ Sent
             /\ last \in 1..MaxChanges
  BY <1>1, <1>a, <1>p DEF GatewayInv, NewestIsBehind, Gateway!Faces
<1>2. ASSUME \A i \in DOMAIN putting' : putting'[i] \in {0, last'},
             (\A i \in DOMAIN outbox : Behind(i))',
             \A i \in DOMAIN sending' : sending'[i] = 0 \/ Queued' \/ Puts' \/ Sent',
             shown' = last' \/ Queued' \/ Puts' \/ Sent'
      PROVE  NewestIsBehind'
  BY <1>2, <1>a, <1>q DEF NewestIsBehind
<1> HIDE DEF Items
<1>e. DOMAIN <<>> = {}
  OBVIOUS
<1>s. \A x : DOMAIN <<x>> = {1} /\ <<x>>[1] = x
  OBVIOUS
<1>n. ASSUME putting = <<>>, NEW f \in 1..MaxChanges, Gateway!Announces(f), online, ~overtaken,
             UNCHANGED <<outbox, sending, shown>>
      PROVE  NewestIsBehind'
  <2>1. CASE f = last
    <3>1. putting' = putting /\ last' = last
      BY <1>a, <1>n, <2>1 DEF Gateway!Announces
    <3> QED
      BY <1>1, <1>2, <1>n, <3>1
  <2>2. CASE f # last
    <3>1. putting' = <<f>> /\ last' = f
      BY <1>a, <1>n, <2>2 DEF Gateway!Announces
    <3>2. Puts' /\ \A i \in DOMAIN putting' : putting'[i] = last'
      BY <1>s, <3>1
    <3> QED
      BY <1>2, <3>2
  <2> QED
    BY <2>1, <2>2
<1>c. ASSUME Gateway!Checks, Gateway!changed, UNCHANGED <<outbox, putting>>
      PROVE  NewestIsBehind'
  <2>1. last' = face /\ sending' = <<face>>
    BY <1>c DEF Gateway!Checks
  <2>2. /\ \A i \in DOMAIN outbox : outbox[i] = 0
        /\ putting = <<>> \/ Head(putting) = 0
    BY <1>a, <1>c DEF Gateway!Checks, Gateway!queuedFaces
  <2>3. \A i \in DOMAIN putting : putting[i] = 0
    BY <1>0, <2>2
  <2>4. Sent'
    BY <1>s, <2>1
  <2> QED
    BY <1>2, <1>c, <2>2, <2>3, <2>4
<1>3. CASE Gateway!Connect
  <2>1. shown' = last' /\ outbox' = <<>> /\ putting' = <<>> /\ sending' = <<>>
    BY <1>3, <1>a DEF Gateway!Connect
  <2> QED
    BY <1>2, <1>e, <2>1
<1>4. CASE Gateway!LinkLost
  BY <1>4 DEF Gateway!LinkLost
<1>5. CASE Gateway!Event
  <2>1. /\ outbox' = Append(outbox, 0) \/ outbox' = outbox
        /\ UNCHANGED <<last, putting, sending, shown, online, overtaken>> /\ 0 \in Items
    BY <1>5, <1>a DEF Gateway!Event
  <2>2. /\ \A i \in DOMAIN outbox : i \in DOMAIN outbox' /\ outbox'[i] = outbox[i]
        /\ \A i \in DOMAIN outbox' : i \in DOMAIN outbox \/ outbox'[i] = 0
    <3>1. CASE outbox' = Append(outbox, 0)
      BY <1>0, <2>1, <3>1, Appended
    <3>2. CASE outbox' = outbox
      BY <3>2
    <3> QED
      BY <2>1, <3>1, <3>2
  <2> QED
    BY <1>1, <1>2, <2>1, <2>2
<1>6. CASE Gateway!Put
  <2>1. /\ putting # <<>> /\ outbox' = Append(outbox, Head(putting)) /\ putting' = Tail(putting)
        /\ UNCHANGED <<last, sending, shown, online, overtaken>>
    BY <1>6, <1>a DEF Gateway!Put
  <2>2. /\ Head(putting) \in Items /\ Head(putting) \in {0, last}
        /\ 1 \in DOMAIN putting /\ putting[1] = Head(putting)
        /\ \A i \in DOMAIN putting : i = 1
        /\ putting' = <<>>
    BY <1>0, <1>1, <2>1
  <2>3. /\ \A i \in DOMAIN outbox : /\ i \in DOMAIN outbox' /\ outbox'[i] = outbox[i]
                                    /\ i <= Len(outbox) + 1
        /\ Len(outbox) + 1 \in DOMAIN outbox' /\ outbox'[Len(outbox) + 1] = Head(putting)
        /\ \A i \in DOMAIN outbox' : i \in DOMAIN outbox \/ i = Len(outbox) + 1
        /\ Len(outbox) \in Nat
    BY <1>0, <2>1, <2>2, Appended
  <2>4. CASE Head(putting) = 0
    <3>1. ~Puts
      BY <1>1, <2>1, <2>2, <2>4
    <3> QED
      BY <1>1, <1>2, <1>e, <2>1, <2>2, <2>3, <2>4, <3>1
  <2>5. CASE Head(putting) = last
    <3>1. \A i \in DOMAIN outbox' : i <= Len(outbox) + 1
      BY <2>3
    <3> QED
      BY <1>2, <1>e, <2>1, <2>2, <2>3, <2>5, <3>1
  <2> QED
    BY <2>2, <2>4, <2>5
<1>7. CASE Gateway!Receive
  <2>1. /\ putting = <<>> /\ online /\ ~overtaken /\ UNCHANGED <<outbox, sending, shown>>
        /\ face + 1 \in 1..MaxChanges
        /\ Gateway!Announces(face + 1) \/ UNCHANGED <<putting, last>>
    <3>1. face < MaxChanges => face + 1 \in 1..MaxChanges
      BY <1>0
    <3> QED
      BY <1>7, <1>a, <3>1 DEF Gateway!Receive
  <2>2. CASE UNCHANGED <<putting, last>>
    BY <1>1, <1>2, <2>1, <2>2
  <2> QED
    BY <1>n, <2>1, <2>2
<1>8. CASE Gateway!Replies
  <2>1. /\ putting = <<>> /\ putting' = <<0>> /\ online /\ ~overtaken
        /\ UNCHANGED <<last, outbox, sending, shown>>
    BY <1>8, <1>a DEF Gateway!Replies
  <2>2. ~Puts /\ \A i \in DOMAIN putting' : putting'[i] = 0
    BY <1>e, <1>s, <2>1
  <2> QED
    BY <1>1, <1>2, <2>1, <2>2
<1>9. CASE Gateway!Settles
  <2>1. /\ putting = <<>> /\ online /\ ~overtaken /\ UNCHANGED <<outbox, sending, shown>>
        /\ face + 1 \in 1..MaxChanges /\ Gateway!Announces(face + 1)
    <3>1. face < MaxChanges => face + 1 \in 1..MaxChanges
      BY <1>0
    <3> QED
      BY <1>9, <1>a, <3>1 DEF Gateway!Settles
  <2> QED
    BY <1>n, <2>1
<1>10. CASE Gateway!PumpTakes
  <2>1. /\ outbox # <<>> /\ sending = <<>> /\ sending' = <<Head(outbox)>>
        /\ outbox' = Tail(outbox) /\ online /\ ~overtaken
        /\ UNCHANGED <<last, putting, shown>>
    BY <1>10, <1>a DEF Gateway!PumpTakes
  <2>2. /\ 1 \in DOMAIN outbox /\ outbox[1] = Head(outbox)
        /\ \A i \in DOMAIN outbox' : i + 1 \in DOMAIN outbox /\ outbox'[i] = outbox[i + 1]
        /\ \A i \in DOMAIN outbox : i # 1 => i - 1 \in DOMAIN outbox' /\ outbox'[i - 1] = outbox[i]
        /\ DOMAIN outbox \subseteq Nat /\ DOMAIN outbox' \subseteq Nat
    BY <1>0, <2>1, HeadTaken
  <2>3. 1 \in DOMAIN sending' /\ sending'[1] = outbox[1] /\ \A i \in DOMAIN sending' : i = 1
    BY <1>s, <2>1, <2>2
  <2>4. Queued => Queued' \/ Sent'
    BY <2>1, <2>2, <2>3, ZenonT(60)
  <2>5. ~Sent
    BY <1>e, <2>1
  <2>6. ASSUME NEW i \in DOMAIN outbox' PROVE Behind(i)'
    <3>1. Behind(i + 1) /\ i + 1 \in DOMAIN outbox /\ outbox'[i] = outbox[i + 1] /\ i \in Nat /\ i > 0
      BY <1>1, <2>1, <2>2, <2>6, <1>0
    <3>2. ASSUME NEW j \in DOMAIN outbox, i + 1 <= j, outbox[j] = last PROVE Behind(i)'
      <4>1. j # 1 /\ j - 1 \in DOMAIN outbox' /\ outbox'[j - 1] = last' /\ i <= j - 1
        BY <2>1, <2>2, <3>1, <3>2
      <4> QED
        BY <4>1
    <3> QED
      BY <2>1, <3>1, <3>2
  <2>7. \A i \in DOMAIN sending' : sending'[i] = 0 \/ Queued' \/ Puts' \/ Sent'
    BY <1>1, <2>1, <2>2, <2>3, <2>4
  <2>8. shown' = last' \/ Queued' \/ Puts' \/ Sent'
    BY <1>1, <2>1, <2>4, <2>5
  <2> QED
    BY <1>1, <1>2, <2>1, <2>6, <2>7, <2>8
<1>11. CASE Gateway!Delivered
  <2>1. CASE Gateway!changed
    BY <1>11, <1>c, <2>1 DEF Gateway!Delivered
  <2>2. CASE ~Gateway!changed
    <3>1. /\ sending # <<>> /\ shown' = (IF Head(sending) = 0 THEN shown ELSE Head(sending))
          /\ sending' = <<>> /\ online /\ ~overtaken /\ UNCHANGED <<last, outbox, putting>>
      BY <1>11, <1>a, <2>2 DEF Gateway!Delivered, Gateway!Checks
    <3>2. 1 \in DOMAIN sending /\ sending[1] = Head(sending) /\ \A i \in DOMAIN sending : i = 1
      BY <1>0, <3>1
    <3>3. shown' = last \/ Queued \/ Puts
      BY <1>1, <3>1, <3>2
    <3> QED
      BY <1>1, <1>2, <1>e, <3>1, <3>3
  <2> QED
    BY <2>1, <2>2
<1>12. CASE Gateway!Timer
  <2>1. CASE Gateway!changed
    BY <1>12, <1>c, <2>1 DEF Gateway!Timer
  <2>2. CASE ~Gateway!changed
    <3>1. /\ sending = <<>> /\ sending' = <<>> /\ online /\ ~overtaken
          /\ UNCHANGED <<last, outbox, putting, shown>>
      BY <1>12, <1>a, <2>2 DEF Gateway!Timer, Gateway!Checks
    <3> QED
      BY <1>1, <1>2, <3>1
  <2> QED
    BY <2>1, <2>2
<1>13. CASE \/ Gateway!Changes \/ UNCHANGED gatewayVars
            \/ \E kind \in {"turn", "interrupt"} : Gateway!Frame(kind)
  <2>1. UNCHANGED <<last, outbox, putting, sending, shown, online, overtaken>>
    BY <1>13 DEF Gateway!Changes, Gateway!Frame, gatewayVars
  <2> QED
    BY <1>1, <1>2, <2>1
<1> QED
  BY <1>3, <1>4, <1>5, <1>6, <1>7, <1>8, <1>9, <1>10, <1>11, <1>12, <1>13 DEF Gateway!Next

\* What listens, looks and shows stays true, for every number of calls, looks, grants and
\* changes: a reply can be ended (VoiceLoop), an open camera is lit and looks are counted
\* (CameraConsent), and no change of expression is lost (RealtimeGateway).
THEOREM OwnerIsHeardAndShown == Spec => []OwnerSeesAndStops
<1>1. VoiceInv => Voice!SpeechCanBeStopped
  BY DEF VoiceInv, Voice!SpeechCanBeStopped
<1>2. CameraInv => Camera!LightIsTrue /\ Camera!LooksAreCounted
  BY DEF CameraInv, FramesOwed, Camera!LooksAreCounted
<1>3. GatewayInv => Gateway!NothingIsSwallowed
  BY DEF GatewayInv, NewestIsBehind, Gateway!NothingIsSwallowed
<1>4. Init => VoiceInv /\ CameraInv /\ GatewayInv
  BY VoiceInit, CameraInit, GatewayInit DEF Init
<1>5. GatewayInv /\ [Gateway!Next]_gatewayVars => GatewayInv'
  BY GatewayTypes, NewestStaysBehind DEF GatewayInv
<1>6. VoiceInv /\ CameraInv /\ GatewayInv /\ [Next]_allVars => (VoiceInv /\ CameraInv /\ GatewayInv)'
  BY <1>5, VoiceStep, CameraStep, OnePartSteps
<1>7. VoiceInv /\ CameraInv /\ GatewayInv => OwnerSeesAndStops
  BY <1>1, <1>2, <1>3 DEF OwnerSeesAndStops
<1> QED
  BY <1>4, <1>6, <1>7, PTL DEF Spec, allVars

-------------------------------------------------------------------------------
(* PairingCodes: what was revoked, and what was guessed.                     *)

\* A device whose revocation was answered is on file, and no code is pending for it.
EndedIsGone ==
  /\ ended \subseteq DOMAIN onFile
  /\ \A c \in Pairing!issued : pending[c].device \notin ended

\* The wrong codes tried while a code was open are the last of the failures on record, all of
\* them since it was made: the window is longer than the code's life.
GuessesAreOnRecord ==
  /\ Len(failures) <= MaxAttempts
  /\ \A c \in Pairing!issued :
       /\ pending[c].made <= now
       /\ Pairing!usable(c) =>
            /\ tries[c] <= Len(failures)
            /\ \A i \in 1..Len(failures) :
                 i > Len(failures) - tries[c] => failures[i] >= pending[c].made

CodeInv ==
  Pairing!TypeOK /\ Pairing!RevokedStaysRevoked /\ EndedIsGone /\ GuessesAreOnRecord

\* PairingCodes takes the list comprehension from the same module.
LEMMA SameChoice == \A s, S : Pairing!Chosen(s, S) = Chosen(s, S)
BY DEF Pairing!Chosen, Chosen

\* The types TypeOK gives the pending pairings and the credentials.
CodeRecords == [device : Devices, made : Pairing!Times, done : BOOLEAN]

\* The window keeps times, and no more of them.
LEMMA RecentIs ==
  ASSUME NEW times \in Seq(Pairing!Times)
  PROVE  Pairing!recent(times) \in Seq(Pairing!Times) /\ Len(Pairing!recent(times)) <= Len(times)
BY SameChoice, ChosenIs DEF Pairing!recent

\* Initially nothing is pending and nothing is on file.
LEMMA CodeInit == Pairing!Init => CodeInv
<1> SUFFICES ASSUME Pairing!Init PROVE CodeInv
  OBVIOUS
<1>1. /\ now = 0 /\ pending = <<>> /\ failures = <<>> /\ starts = <<>> /\ devices = <<>>
      /\ onFile = <<>> /\ tries = [c \in Codes |-> 0] /\ ended = {}
  BY DEF Pairing!Init
<1>2. DOMAIN <<>> = {} /\ \A S : <<>> \in [{} -> S]
  OBVIOUS
<1>3. Pairing!TypeOK
  <2>1. failures \in Seq(Pairing!Times) /\ starts \in Seq(Pairing!Times)
    BY <1>1
  <2>2. now \in Pairing!Times /\ tries \in [Codes -> Nat]
    BY <1>1, OwnerAssumption DEF Pairing!Times
  <2> QED
    BY <1>1, <1>2, <2>1, <2>2 DEF Pairing!TypeOK, Pairing!issued, Pairing!known
<1>4. GuessesAreOnRecord
  BY <1>1, <1>2, OwnerAssumption DEF GuessesAreOnRecord, Pairing!issued
<1> QED
  BY <1>1, <1>2, <1>3, <1>4 DEF CodeInv, EndedIsGone, Pairing!RevokedStaysRevoked, Pairing!issued

\* Every start, confirmation, revocation, tick and restart keeps the types.
LEMMA CodeTypes == CodeInv /\ [Pairing!Next]_pairingVars => Pairing!TypeOK'
<1> SUFFICES ASSUME CodeInv, [Pairing!Next]_pairingVars PROVE Pairing!TypeOK'
  OBVIOUS
<1> DEFINE Times == Pairing!Times
           Statuses == Pairing!Statuses
<1>0. /\ now \in 0..MaxNow /\ MaxNow \in Nat /\ DOMAIN pending \subseteq Codes
      /\ pending \in [DOMAIN pending -> CodeRecords]
      /\ failures \in Seq(Times) /\ starts \in Seq(Times)
      /\ DOMAIN devices \subseteq Devices /\ DOMAIN onFile \subseteq DOMAIN devices
      /\ devices \in [DOMAIN devices -> Statuses] /\ onFile \in [DOMAIN onFile -> Statuses]
      /\ tries \in [Codes -> Nat] /\ ended \subseteq DOMAIN onFile /\ Times = 0..MaxNow
      /\ Statuses = {"active", "revoked"}
  BY OwnerAssumption DEF CodeInv, EndedIsGone, Pairing!TypeOK, Pairing!issued, Pairing!known,
     Pairing!Times, Pairing!Statuses, CodeRecords
<1>i. Pairing!issued = DOMAIN pending /\ Pairing!known = DOMAIN devices
  BY DEF Pairing!issued, Pairing!known
<1>1. ASSUME now' \in Times, DOMAIN pending' \subseteq Codes,
             pending' \in [DOMAIN pending' -> CodeRecords],
             failures' \in Seq(Times), starts' \in Seq(Times),
             DOMAIN devices' \subseteq Devices, DOMAIN onFile' \subseteq DOMAIN devices',
             devices' \in [DOMAIN devices' -> Statuses], onFile' \in [DOMAIN onFile' -> Statuses],
             tries' \in [Codes -> Nat], ended' \subseteq DOMAIN devices'
      PROVE  Pairing!TypeOK'
  BY <1>1 DEF Pairing!TypeOK, Pairing!issued, Pairing!known, CodeRecords
<1> HIDE DEF Times, Statuses
<1>r. \A times \in Seq(Times) : Pairing!recent(times) \in Seq(Times)
  BY RecentIs DEF Times
<1>a. \A times \in Seq(Times) : Append(Pairing!recent(times), now) \in Seq(Times)
  BY <1>0, <1>r
<1>w. ASSUME NEW c \in DOMAIN pending
      PROVE  /\ DOMAIN Pairing!Without(pending, c) \subseteq Codes
             /\ Pairing!Without(pending, c) \in [DOMAIN Pairing!Without(pending, c) -> CodeRecords]
  BY <1>0 DEF Pairing!Without
<1>2. CASE Pairing!Start
  <2>1. PICK c \in Codes \ DOMAIN pending, d \in Devices :
          /\ pending' = Pairing!With(pending, c, [device |-> d, made |-> now, done |-> FALSE])
          /\ tries' = [tries EXCEPT ![c] = 0]
    BY <1>2, <1>i DEF Pairing!Start
  <2>2. [device |-> d, made |-> now, done |-> FALSE] \in CodeRecords
    BY <1>0 DEF CodeRecords, Times
  <2>3. DOMAIN pending' \subseteq Codes /\ pending' \in [DOMAIN pending' -> CodeRecords]
    BY <1>0, <2>1, <2>2 DEF Pairing!With
  <2>4. tries' \in [Codes -> Nat]
    BY <1>0, <2>1
  <2>5. starts' \in Seq(Times) /\ UNCHANGED <<now, failures, devices, onFile, ended>>
    BY <1>0, <1>2, <1>a DEF Pairing!Start
  <2> QED
    BY <1>0, <1>1, <2>3, <2>4, <2>5
<1>3. ASSUME NEW c \in Codes, NEW padded \in BOOLEAN, Pairing!WrongCode(c, padded)
      PROVE  Pairing!TypeOK'
  <2>1. failures' \in Seq(Times) /\ UNCHANGED <<now, starts, devices, onFile, ended>>
    BY <1>0, <1>3, <1>a DEF Pairing!WrongCode, Pairing!recorded
  <2>2. tries' \in [Codes -> Nat]
    BY <1>0, <1>3 DEF Pairing!WrongCode
  <2>3. pending' = pending \/ (c \in DOMAIN pending /\ pending' = Pairing!Without(pending, c))
    BY <1>3, <1>i DEF Pairing!WrongCode, Pairing!notPending
  <2> QED
    BY <1>0, <1>1, <1>w, <2>1, <2>2, <2>3
<1>4. ASSUME NEW c \in Pairing!issued, NEW padded \in BOOLEAN, NEW saved \in BOOLEAN,
             Pairing!RightCode(c, padded, saved)
      PROVE  Pairing!TypeOK'
  <2>1. /\ failures' \in Seq(Times) /\ UNCHANGED <<now, starts, tries, ended>>
        /\ devices' = Pairing!With(devices, pending[c].device, "active")
        /\ onFile' = devices' \/ onFile' = onFile
    BY <1>0, <1>4, <1>r DEF Pairing!RightCode
  <2>2. pending[c].device \in Devices /\ c \in DOMAIN pending
    BY <1>0, <1>i DEF CodeRecords
  <2>3. /\ DOMAIN devices' = DOMAIN devices \cup {pending[c].device}
        /\ devices' \in [DOMAIN devices' -> Statuses]
    BY <1>0, <2>1 DEF Pairing!With
  <2>4. [pending EXCEPT ![c].done = TRUE] \in [DOMAIN pending -> CodeRecords]
    BY <1>0, <2>2, ZenonT(60) DEF CodeRecords
  <2>5. \/ pending' = pending \/ pending' = Pairing!Without(pending, c)
        \/ pending' = [pending EXCEPT ![c].done = TRUE]
    BY <1>4 DEF Pairing!RightCode
  <2>6. DOMAIN pending' \subseteq Codes /\ pending' \in [DOMAIN pending' -> CodeRecords]
    BY <1>0, <1>w, <2>2, <2>4, <2>5
  <2> QED
    BY <1>0, <1>1, <2>1, <2>2, <2>3, <2>6
<1>5. ASSUME NEW d \in Pairing!known, NEW saved \in BOOLEAN, Pairing!Revoke(d, saved)
      PROVE  Pairing!TypeOK'
  <2>1. /\ UNCHANGED <<now, failures, starts, tries>>
        /\ devices' = [devices EXCEPT ![d] = "revoked"] /\ (onFile' = devices' \/ onFile' = onFile)
        /\ ended' \subseteq ended \cup {d} /\ d \in DOMAIN devices
        /\ pending' = pending \/ pending' = [c \in Pairing!spared(d) |-> pending[c]]
    BY <1>5, <1>i DEF Pairing!Revoke
  <2>2. Pairing!spared(d) \subseteq DOMAIN pending
    BY DEF Pairing!spared, Pairing!issued
  <2>3. DOMAIN pending' \subseteq Codes /\ pending' \in [DOMAIN pending' -> CodeRecords]
    BY <1>0, <2>1, <2>2
  <2>4. DOMAIN devices' = DOMAIN devices /\ devices' \in [DOMAIN devices' -> Statuses]
    BY <1>0, <2>1
  <2> QED
    BY <1>0, <1>1, <2>1, <2>3, <2>4
<1>6. CASE Pairing!Restart
  <2>1. /\ devices' = onFile /\ UNCHANGED <<now, onFile, ended>> /\ pending' = <<>>
        /\ failures' = <<>> /\ starts' = <<>> /\ tries' = [c \in Codes |-> 0]
    BY <1>6 DEF Pairing!Restart
  <2>2. DOMAIN pending' = {} /\ pending' \in [{} -> CodeRecords]
    BY <2>1
  <2>3. failures' \in Seq(Times) /\ starts' \in Seq(Times) /\ tries' \in [Codes -> Nat]
    BY <2>1
  <2> QED
    BY <1>0, <1>1, <2>1, <2>2, <2>3
<1>7. CASE Pairing!Tick \/ UNCHANGED pairingVars
  <2>1. now' \in Times /\ UNCHANGED <<pending, failures, starts, devices, onFile, tries, ended>>
    BY <1>0, <1>7 DEF Pairing!Tick, pairingVars
  <2> QED
    BY <1>0, <1>1, <2>1
<1> QED
  BY <1>2, <1>3, <1>4, <1>5, <1>6, <1>7 DEF Pairing!Next

\* A revocation that was answered holds after every step.
LEMMA RevokedStays ==
  CodeInv /\ [Pairing!Next]_pairingVars => (Pairing!RevokedStaysRevoked /\ EndedIsGone)'
<1> SUFFICES ASSUME CodeInv, [Pairing!Next]_pairingVars
             PROVE  (Pairing!RevokedStaysRevoked /\ EndedIsGone)'
  OBVIOUS
<1>0. /\ \A d \in ended : devices[d] = "revoked" /\ onFile[d] = "revoked"
      /\ ended \subseteq DOMAIN onFile /\ DOMAIN onFile \subseteq DOMAIN devices
      /\ \A c \in DOMAIN pending : pending[c].device \notin ended
      /\ pending \in [DOMAIN pending -> CodeRecords]
      /\ devices \in [DOMAIN devices -> Pairing!Statuses]
  BY DEF CodeInv, EndedIsGone, Pairing!RevokedStaysRevoked, Pairing!TypeOK, Pairing!issued,
     Pairing!known, CodeRecords
<1>i. Pairing!issued = DOMAIN pending /\ Pairing!known = DOMAIN devices
  BY DEF Pairing!issued, Pairing!known
<1>1. ASSUME \A d \in ended' : devices'[d] = "revoked" /\ onFile'[d] = "revoked",
             ended' \subseteq DOMAIN onFile',
             \A c \in DOMAIN pending' : pending'[c].device \notin ended'
      PROVE  (Pairing!RevokedStaysRevoked /\ EndedIsGone)'
  BY <1>1 DEF EndedIsGone, Pairing!RevokedStaysRevoked, Pairing!issued
<1>2. CASE Pairing!Start
  <2>1. PICK c \in Codes \ DOMAIN pending, d \in Devices \ DOMAIN devices :
          pending' = Pairing!With(pending, c, [device |-> d, made |-> now, done |-> FALSE])
    BY <1>2, <1>i DEF Pairing!Start
  <2>2. \A x \in DOMAIN pending' : pending'[x].device = d \/
                                   (x \in DOMAIN pending /\ pending'[x] = pending[x])
    BY <2>1 DEF Pairing!With
  <2>3. UNCHANGED <<devices, onFile, ended>>
    BY <1>2 DEF Pairing!Start
  <2> QED
    BY <1>0, <1>1, <2>2, <2>3
<1>3. ASSUME NEW c \in Codes, NEW padded \in BOOLEAN, Pairing!WrongCode(c, padded)
      PROVE  (Pairing!RevokedStaysRevoked /\ EndedIsGone)'
  <2>1. UNCHANGED <<devices, onFile, ended>>
    BY <1>3 DEF Pairing!WrongCode
  <2>2. \A x \in DOMAIN pending' : x \in DOMAIN pending /\ pending'[x] = pending[x]
    BY <1>3 DEF Pairing!WrongCode, Pairing!Without
  <2> QED
    BY <1>0, <1>1, <2>1, <2>2
<1>4. ASSUME NEW c \in Pairing!issued, NEW padded \in BOOLEAN, NEW saved \in BOOLEAN,
             Pairing!RightCode(c, padded, saved)
      PROVE  (Pairing!RevokedStaysRevoked /\ EndedIsGone)'
  <2>1. /\ devices' = Pairing!With(devices, pending[c].device, "active")
        /\ onFile' = devices' \/ onFile' = onFile
        /\ UNCHANGED ended
    BY <1>4 DEF Pairing!RightCode
  <2>2. pending[c].device \notin ended /\ c \in DOMAIN pending
    BY <1>0, <1>i
  <2>3. \A d \in ended : d \in DOMAIN devices' /\ devices'[d] = "revoked"
    BY <1>0, <2>1, <2>2 DEF Pairing!With
  <2>4. \A x \in DOMAIN pending' : x \in DOMAIN pending /\ pending'[x].device = pending[x].device
    <3>1. \A x \in DOMAIN pending : [pending EXCEPT ![c].done = TRUE][x].device = pending[x].device
      BY <1>0, <2>2 DEF CodeRecords
    <3>2. CASE pending' = [pending EXCEPT ![c].done = TRUE]
      BY <1>0, <3>1, <3>2
    <3>3. CASE pending' = pending \/ pending' = Pairing!Without(pending, c)
      BY <3>3 DEF Pairing!Without
    <3> QED
      BY <1>4, <3>2, <3>3 DEF Pairing!RightCode
  <2> QED
    BY <1>0, <1>1, <2>1, <2>3, <2>4
<1>5. ASSUME NEW d \in Pairing!known, NEW saved \in BOOLEAN, Pairing!Revoke(d, saved)
      PROVE  (Pairing!RevokedStaysRevoked /\ EndedIsGone)'
  <2>1. devices' = [devices EXCEPT ![d] = "revoked"] /\ d \in DOMAIN devices
    BY <1>5, <1>i DEF Pairing!Revoke
  <2>2. \A x \in ended \cup {d} : x \in DOMAIN devices' /\ devices'[x] = "revoked"
    BY <1>0, <2>1
  <2>3. CASE saved
    <3>1. /\ onFile' = devices' /\ ended' = ended \cup {d}
          /\ pending' = [c \in Pairing!spared(d) |-> pending[c]]
      BY <1>5, <2>3 DEF Pairing!Revoke
    <3>2. \A c \in DOMAIN pending' : pending'[c].device \notin ended'
      BY <1>0, <3>1 DEF Pairing!spared, Pairing!issued
    <3> QED
      BY <1>1, <2>2, <3>1, <3>2
  <2>4. CASE ~saved
    <3>1. UNCHANGED <<onFile, ended, pending>>
      BY <1>5, <2>4 DEF Pairing!Revoke
    <3> QED
      BY <1>0, <1>1, <2>2, <3>1
  <2> QED
    BY <2>3, <2>4
<1>6. CASE Pairing!Restart
  <2>1. devices' = onFile /\ UNCHANGED <<onFile, ended>> /\ DOMAIN pending' = {}
    BY <1>6 DEF Pairing!Restart
  <2> QED
    BY <1>0, <1>1, <2>1
<1>7. CASE Pairing!Tick \/ UNCHANGED pairingVars
  BY <1>0, <1>1, <1>7 DEF Pairing!Tick, pairingVars
<1> QED
  BY <1>2, <1>3, <1>4, <1>5, <1>6, <1>7 DEF Pairing!Next

\* What the window drops was recorded before a code that is still usable was made.
LEMMA GuessesStay == CodeInv /\ [Pairing!Next]_pairingVars => GuessesAreOnRecord'
<1> SUFFICES ASSUME CodeInv, [Pairing!Next]_pairingVars PROVE GuessesAreOnRecord'
  OBVIOUS
<1> DEFINE Last(times, k) == {i \in 1..Len(times) : i > Len(times) - k}
           Counted(c) == /\ tries[c] <= Len(failures)
                         /\ \A i \in Last(failures, tries[c]) : failures[i] >= pending[c].made
<1>0. /\ now \in 0..MaxNow /\ MaxNow \in Nat /\ DOMAIN pending \subseteq Codes
      /\ pending \in [DOMAIN pending -> CodeRecords] /\ failures \in Seq(0..MaxNow)
      /\ tries \in [Codes -> Nat] /\ Len(failures) <= MaxAttempts /\ MaxAttempts \in Nat
      /\ Ttl \in Nat /\ Window \in Nat /\ Ttl <= Window /\ Len(failures) \in Nat
      /\ Pairing!issued = DOMAIN pending /\ Pairing!Times = 0..MaxNow
  <2>1. /\ now \in 0..MaxNow /\ DOMAIN pending \subseteq Codes
        /\ pending \in [DOMAIN pending -> CodeRecords] /\ failures \in Seq(0..MaxNow)
        /\ tries \in [Codes -> Nat] /\ Len(failures) <= MaxAttempts
        /\ Pairing!issued = DOMAIN pending /\ Pairing!Times = 0..MaxNow
    BY DEF CodeInv, GuessesAreOnRecord, Pairing!TypeOK, Pairing!issued, Pairing!Times, CodeRecords
  <2>2. MaxNow \in Nat /\ MaxAttempts \in Nat /\ Ttl \in Nat /\ Window \in Nat /\ Ttl <= Window
    BY OwnerAssumption
  <2>3. Len(failures) \in Nat
    BY <2>1
  <2> QED
    BY <2>1, <2>2, <2>3
<1>1. \A c \in DOMAIN pending : /\ pending[c].made <= now
                                /\ Pairing!usable(c) => Counted(c)
  BY <1>0 DEF CodeInv, GuessesAreOnRecord
<1>2. ASSUME Len(failures') <= MaxAttempts,
             \A c \in DOMAIN pending' : /\ pending'[c].made <= now'
                                        /\ Pairing!usable(c)' => Counted(c)'
      PROVE  GuessesAreOnRecord'
  BY <1>2 DEF GuessesAreOnRecord, Pairing!issued
\* What is still recent holds the guesses that count.
<1>3. ASSUME NEW c \in DOMAIN pending, Pairing!usable(c)
      PROVE  LET kept == Pairing!recent(failures)
             IN  /\ tries[c] <= Len(kept)
                 /\ \A i \in Last(kept, tries[c]) : kept[i] >= pending[c].made
  <2> DEFINE S == {t \in Pairing!Times : t + Window > now}
  <2>1. pending[c].made \in Nat /\ now < pending[c].made + Ttl
    <3>1. pending[c] \in CodeRecords
      BY <1>0
    <3>2. ~(now >= pending[c].made + Ttl)
      BY <1>3 DEF Pairing!usable, Pairing!expired
    <3> QED
      BY <1>0, <3>1, <3>2 DEF CodeRecords
  <2>2. tries[c] \in Nat /\ Counted(c) /\ tries[c] \in 0..Len(failures)
    BY <1>0, <1>1, <1>3
  <2>3. \A i \in 1..Len(failures) : i > Len(failures) - tries[c] => failures[i] \in S
    <3> SUFFICES ASSUME NEW i \in 1..Len(failures), i > Len(failures) - tries[c]
                 PROVE  failures[i] \in S
      OBVIOUS
    <3>1. failures[i] \in 0..MaxNow /\ failures[i] >= pending[c].made
      BY <1>0, <2>2
    <3> QED
      BY <1>0, <2>1, <3>1, SMTT(60)
  <2>4. Pairing!recent(failures) = Chosen(failures, S)
    BY SameChoice DEF Pairing!recent
  <2> HIDE DEF S
  <2>5. /\ tries[c] <= Len(Chosen(failures, S))
        /\ \A i \in 1..Len(Chosen(failures, S)) : i > Len(Chosen(failures, S)) - tries[c] =>
             \E j \in 1..Len(failures) :
                j > Len(failures) - tries[c] /\ Chosen(failures, S)[i] = failures[j]
    <3>1. failures \in Seq(0..MaxNow) /\ tries[c] \in 0..Len(failures)
      BY <1>0, <2>2
    <3> QED
      BY <2>3, <3>1, ChosenKeepsTail
  <2> QED
    BY <2>2, <2>4, <2>5
<1>4. /\ Pairing!recent(failures) \in Seq(0..MaxNow)
      /\ Len(Pairing!recent(failures)) <= Len(failures) /\ Len(Pairing!recent(failures)) \in Nat
  <2>1. /\ Pairing!recent(failures) \in Seq(Pairing!Times)
        /\ Len(Pairing!recent(failures)) <= Len(failures)
    BY <1>0, RecentIs
  <2> QED
    BY <1>0, <2>1
<1> DEFINE kept == Pairing!recent(failures)
<1> HIDE DEF kept
<1>k. /\ kept \in Seq(0..MaxNow) /\ Len(kept) <= Len(failures) /\ Len(kept) \in Nat
      /\ \A c \in DOMAIN pending : Pairing!usable(c) =>
           /\ tries[c] <= Len(kept)
           /\ \A i \in Last(kept, tries[c]) : kept[i] >= pending[c].made
  BY <1>3, <1>4 DEF kept
<1>u. \A c \in DOMAIN pending' : Pairing!usable(c)' <=>
        ~pending'[c].done /\ ~(now' >= pending'[c].made + Ttl)
  BY DEF Pairing!usable, Pairing!expired, Pairing!issued
<1>v. \A c \in DOMAIN pending : Pairing!usable(c) <=>
        ~pending[c].done /\ ~(now >= pending[c].made + Ttl)
  BY DEF Pairing!usable, Pairing!expired, Pairing!issued
<1>5. CASE Pairing!Start
  <2>1. PICK c \in Codes \ DOMAIN pending, d \in Devices :
          /\ pending' = Pairing!With(pending, c, [device |-> d, made |-> now, done |-> FALSE])
          /\ tries' = [tries EXCEPT ![c] = 0]
    BY <1>0, <1>5 DEF Pairing!Start
  <2>2. UNCHANGED <<failures, now>>
    BY <1>5 DEF Pairing!Start
  <2>3. \A x \in DOMAIN pending' : \/ x = c /\ pending'[x].made = now /\ tries'[x] = 0
                                   \/ x \in DOMAIN pending /\ pending'[x] = pending[x]
                                      /\ tries'[x] = tries[x]
    BY <1>0, <2>1 DEF Pairing!With
  <2>4. ASSUME NEW x \in DOMAIN pending'
        PROVE  pending'[x].made <= now' /\ (Pairing!usable(x)' => Counted(x)')
    <3>1. CASE pending'[x].made = now /\ tries'[x] = 0
      BY <1>0, <2>2, <3>1
    <3>2. CASE x \in DOMAIN pending /\ pending'[x] = pending[x] /\ tries'[x] = tries[x]
      <4>1. Pairing!usable(x)' => Pairing!usable(x)
        BY <1>u, <1>v, <2>2, <2>4, <3>2
      <4> QED
        BY <1>1, <2>2, <3>2, <4>1
    <3> QED
      BY <2>3, <2>4, <3>1, <3>2
  <2> QED
    BY <1>0, <1>2, <2>2, <2>4
<1>6. ASSUME NEW c \in Codes, NEW padded \in BOOLEAN, Pairing!WrongCode(c, padded)
      PROVE  GuessesAreOnRecord'
  <2>1. /\ failures' = Append(kept, now) /\ Len(kept) < MaxAttempts /\ UNCHANGED now
        /\ tries' = [x \in Codes |-> IF Pairing!usable(x) THEN tries[x] + 1 ELSE tries[x]]
    BY <1>6 DEF Pairing!WrongCode, Pairing!recorded, Pairing!withinBudget, kept
  <2>2. \A x \in DOMAIN pending' : x \in DOMAIN pending /\ pending'[x] = pending[x]
    BY <1>6 DEF Pairing!WrongCode, Pairing!Without
  <2>3. /\ Len(failures') = Len(kept) + 1 /\ failures'[Len(kept) + 1] = now
        /\ \A i \in 1..Len(kept) : failures'[i] = kept[i]
    BY <1>0, <1>k, <2>1
  <2>4. ASSUME NEW x \in DOMAIN pending', Pairing!usable(x)' PROVE Counted(x)'
    <3>1. x \in DOMAIN pending /\ pending'[x] = pending[x] /\ Pairing!usable(x)
      BY <1>u, <1>v, <2>1, <2>2, <2>4
    <3>2. tries'[x] = tries[x] + 1 /\ tries[x] \in Nat /\ tries[x] <= Len(kept)
      BY <1>0, <1>k, <2>1, <3>1
    <3>3. ASSUME NEW i \in 1..Len(failures'), i > Len(failures') - tries'[x]
          PROVE  failures'[i] >= pending'[x].made
      <4>1. CASE i = Len(kept) + 1
        BY <1>1, <2>3, <3>1, <4>1
      <4>2. CASE i \in 1..Len(kept)
        <5>1. i > Len(kept) - tries[x]
          BY <1>k, <2>3, <3>2, <3>3
        <5> QED
          BY <1>k, <2>3, <3>1, <4>2, <5>1
      <4> QED
        BY <1>k, <2>3, <4>1, <4>2
    <3> QED
      BY <1>k, <2>3, <3>2, <3>3
  <2> QED
    <3>1. Len(failures') <= MaxAttempts
      BY <1>0, <1>k, <2>1, <2>3
    <3>2. \A x \in DOMAIN pending' : pending'[x].made <= now'
      BY <1>1, <2>1, <2>2
    <3> QED
      BY <1>2, <2>4, <3>1, <3>2
<1>7. ASSUME NEW c \in Pairing!issued, NEW padded \in BOOLEAN, NEW saved \in BOOLEAN,
             Pairing!RightCode(c, padded, saved)
      PROVE  GuessesAreOnRecord'
  <2>1. failures' = kept /\ UNCHANGED <<now, tries>>
    BY <1>7 DEF Pairing!RightCode, kept
  <2>2. \A x \in DOMAIN pending' : /\ x \in DOMAIN pending
                                   /\ pending'[x].made = pending[x].made
                                   /\ ~pending'[x].done => ~pending[x].done
    <3>1. c \in DOMAIN pending /\ \A x \in DOMAIN pending : pending[x] \in CodeRecords
      BY <1>0
    <3>2. CASE pending' = [pending EXCEPT ![c].done = TRUE]
      BY <1>0, <3>1, <3>2 DEF CodeRecords
    <3>3. CASE pending' = pending \/ pending' = Pairing!Without(pending, c)
      BY <3>3 DEF Pairing!Without
    <3> QED
      BY <1>7, <3>2, <3>3 DEF Pairing!RightCode
  <2>3. ASSUME NEW x \in DOMAIN pending', Pairing!usable(x)' PROVE Counted(x)'
    <3>1. x \in DOMAIN pending /\ Pairing!usable(x)
      BY <1>u, <1>v, <2>1, <2>2, <2>3
    <3> QED
      BY <1>k, <2>1, <2>2, <3>1
  <2> QED
    BY <1>0, <1>1, <1>2, <1>k, <2>1, <2>2, <2>3, SMTT(60)
<1>8. CASE UNCHANGED pairingVars \/ Pairing!Tick
            \/ \E d \in Pairing!known, saved \in BOOLEAN : Pairing!Revoke(d, saved)
  <2>1. UNCHANGED <<failures, tries>> /\ now' \in Nat /\ now <= now'
    BY <1>0, <1>8 DEF Pairing!Tick, Pairing!Revoke, pairingVars
  <2>2. \A x \in DOMAIN pending' : x \in DOMAIN pending /\ pending'[x] = pending[x]
    BY <1>8 DEF Pairing!Tick, Pairing!Revoke, Pairing!spared, Pairing!issued, pairingVars
  <2>3. ASSUME NEW x \in DOMAIN pending'
        PROVE  pending'[x].made <= now' /\ (Pairing!usable(x)' => Counted(x)')
    <3>1. pending[x].made \in Nat /\ pending[x].made <= now /\ x \in DOMAIN pending
          /\ pending'[x] = pending[x]
      <4>1. x \in DOMAIN pending /\ pending'[x] = pending[x] /\ pending[x] \in CodeRecords
        BY <1>0, <2>2, <2>3
      <4> QED
        BY <1>0, <1>1, <4>1 DEF CodeRecords
    <3>2. Pairing!usable(x)' => Pairing!usable(x)
      <4>1. now \in Nat /\ Ttl \in Nat
        BY <1>0
      <4>2. now >= pending[x].made + Ttl => now' >= pending'[x].made + Ttl
        BY <2>1, <3>1, <4>1
      <4> QED
        BY <1>u, <1>v, <2>3, <3>1, <4>2
    <3> QED
      BY <1>0, <1>1, <2>1, <3>1, <3>2
  <2> QED
    BY <1>0, <1>2, <2>1, <2>3
<1>9. CASE Pairing!Restart
  <2>1. failures' = <<>> /\ DOMAIN pending' = {}
    BY <1>9 DEF Pairing!Restart
  <2>2. Len(failures') <= MaxAttempts
    BY <1>0, <2>1
  <2> QED
    BY <1>2, <2>1, <2>2
<1> QED
  BY <1>5, <1>6, <1>7, <1>8, <1>9 DEF Pairing!Next

\* Every step of the pairing keeps its invariant.
LEMMA CodeStep == CodeInv /\ [Pairing!Next]_pairingVars => CodeInv'
BY CodeTypes, RevokedStays, GuessesStay DEF CodeInv

\* For every set of keys, codes, devices and pins, and every length of the windows: rotation
\* never costs a node its identity (DeviceKeys), what a node trusts is joined to its pairing by
\* signed statements (CoreKey), a revocation that was answered holds, and no code sees more
\* wrong guesses than the shared budget (PairingCodes).
THEOREM KeysAreHeld == Spec => []KeysHold
<1>1. PinInv => Core!PinIsSigned
  BY DEF PinInv
<1>2. CodeInv => Pairing!RevokedStaysRevoked /\ Pairing!CodeFacesFewGuesses
  <2> SUFFICES ASSUME CodeInv, NEW c \in Pairing!issued, Pairing!usable(c)
               PROVE  tries[c] <= MaxAttempts
    BY DEF CodeInv, Pairing!CodeFacesFewGuesses
  <2>1. tries[c] <= Len(failures) /\ Len(failures) <= MaxAttempts
    BY DEF CodeInv, GuessesAreOnRecord
  <2>2. tries[c] \in Nat /\ Len(failures) \in Nat /\ MaxAttempts \in Nat
    <3>1. tries \in [Codes -> Nat] /\ c \in Codes /\ failures \in Seq(Pairing!Times)
      BY DEF CodeInv, Pairing!TypeOK
    <3>2. MaxAttempts \in Nat
      BY OwnerAssumption
    <3> QED
      BY <3>1, <3>2
  <2> QED
    BY <2>1, <2>2
<1>3. Init => DeviceInv /\ PinInv /\ CodeInv
  BY DeviceInit, PinInit, CodeInit DEF Init
<1>4. DeviceInv /\ PinInv /\ CodeInv /\ [Next]_allVars => (DeviceInv /\ PinInv /\ CodeInv)'
  BY OnePartSteps, DeviceStep, PinStep, CodeStep
<1>5. DeviceInv /\ PinInv /\ CodeInv => KeysHold
  BY <1>1, <1>2, DeviceKeepsKey DEF KeysHold
<1> QED
  BY <1>3, <1>4, <1>5, PTL DEF Spec, allVars

-------------------------------------------------------------------------------
(* Learning: what the owner is said to know, and how often they are told.    *)

Days == 0..Learn!Never
Knowledge == [level : 1..5, uses : Nat, introductions : Nat, used : Days, taught : Days,
              dismissed : BOOLEAN]
Progress == [status : {"NOT_STARTED", "IN_PROGRESS", "COMPLETED", "SKIPPED"},
             completed : BOOLEAN, skipped : BOOLEAN]

\* What a capability is said to be known by.
Earned(k) ==
  /\ k.level >= 4 => k.uses >= ForLearned
  /\ k.level = 5 => k.uses >= ForMastered
  /\ k.uses > 0 => k.level >= 3

\* Every tip was an introduction and was given in time, and what was dismissed since the last
\* reset has been taught last when it was dismissed, or after that.
Remembered(k, t) ==
  /\ k.taught # Learn!Never => k.taught <= day
  /\ Len(t.given) <= k.introductions /\ Len(t.given) <= MaxIntroductions
  /\ t.dismissed # Learn!Never =>
       k.dismissed /\ k.taught # Learn!Never /\ t.dismissed <= k.taught
  /\ \A i \in 1..Len(t.given) :
       /\ t.given[i] <= day
       /\ t.dismissed # Learn!Never /\ t.given[i] > t.dismissed
            => t.given[i] >= t.dismissed + DismissedFor

LearningInv ==
  /\ day \in 0..MaxDays
  /\ known \in [Learn!Capabilities -> Knowledge]
  /\ tutorials \in [Learn!Ids -> Progress]
  /\ attempts \in [Attempts -> {0} \cup Learn!Ids]
  /\ told \in [Learn!Capabilities -> [given : Seq(0..MaxDays), dismissed : Days]]
  /\ \A c \in Learn!Capabilities : Earned(known[c]) /\ Remembered(known[c], told[c])

\* The bounds are numbers, and no day is Never.
LEMMA LearningNumbers ==
  /\ {ForLearned, ForMastered, MaxIntroductions, DismissedFor, MaxDays} \subseteq Nat
  /\ ForLearned <= ForMastered /\ Learn!Never = MaxDays + 1
  /\ \A d \in 0..MaxDays : d \in Days /\ d # Learn!Never
  /\ Learn!Never \in Days /\ \A d \in Days : d \in Nat
BY OwnerAssumption DEF Days, Learn!Never

\* A lesson teaches a capability, and so does a tip.
LEMMA LessonsTeach ==
  /\ \A l \in Learn!Ids : Lessons[l].capability \in Learn!Capabilities
  /\ \A c \in DOMAIN Teaches : Teaches[c] \in Learn!Capabilities
BY DEF Learn!Capabilities

\* Being told of a capability: what is kept of it, and what becomes of it.
LEMMA IntroducedIs ==
  ASSUME day \in 0..MaxDays, NEW k \in Knowledge
  PROVE  /\ Learn!introduced(k) \in Knowledge
         /\ Learn!introduced(k).introductions = k.introductions + 1
         /\ Learn!introduced(k).taught = day
         /\ Learn!introduced(k).dismissed = k.dismissed
         /\ Earned(k) => Earned(Learn!introduced(k))
<1> DEFINE e == Learn!introduced(k)
           level == Learn!higher(k.level, 2)
           n == k.introductions + 1
<1>1. day \in Days
  BY LearningNumbers
<1>2. level \in 1..5 /\ n \in Nat
  BY DEF Knowledge, Learn!higher
<1>3. e = [k EXCEPT !.introductions = n, !.taught = day, !.level = level]
  BY DEF Learn!introduced
<1> HIDE DEF e, level, n
<1>4. /\ e \in Knowledge /\ e.introductions = n /\ e.taught = day
      /\ e.dismissed = k.dismissed /\ e.level = level /\ e.uses = k.uses
  BY <1>1, <1>2, <1>3 DEF Knowledge
<1>5. Earned(k) => Earned(e)
  BY <1>4 DEF Knowledge, Earned, Learn!higher, level
<1> QED
  BY <1>4, <1>5 DEF e, n

\* Using it: likewise.
LEMMA UsedIs ==
  ASSUME day \in 0..MaxDays, NEW k \in Knowledge
  PROVE  /\ Learn!used(k) \in Knowledge
         /\ Learn!used(k).uses = k.uses + 1
         /\ Learn!used(k).introductions = k.introductions
         /\ Learn!used(k).taught = k.taught
         /\ Learn!used(k).dismissed = k.dismissed
         /\ Earned(k) => Earned(Learn!used(k))
<1> DEFINE e == Learn!used(k)
           n == k.uses + 1
           level == IF n >= ForMastered /\ Learn!quietFor(k) THEN 5
                    ELSE Learn!higher(k.level, IF n >= ForLearned THEN 4 ELSE 3)
<1>1. day \in Days
  BY LearningNumbers
<1>2. level \in 1..5 /\ n \in Nat
  BY DEF Knowledge, Learn!higher
<1>3. e = [k EXCEPT !.uses = n, !.used = day, !.level = level]
  BY DEF Learn!used
<1> HIDE DEF level, n, e
<1>4. /\ e \in Knowledge /\ e.uses = n /\ e.introductions = k.introductions /\ e.taught = k.taught
      /\ e.dismissed = k.dismissed /\ e.level = level
  BY <1>1, <1>2, <1>3 DEF Knowledge
<1>5. Earned(k) => Earned(e)
  <2> SUFFICES ASSUME Earned(k) PROVE Earned(e)
    OBVIOUS
  <2>1. ForLearned <= ForMastered /\ ForLearned \in Nat /\ ForMastered \in Nat
    BY LearningNumbers
  <2>2. n = k.uses + 1 /\ k.uses \in Nat /\ k.level \in 1..5
    BY DEF n, Knowledge
  <2>3. \/ level = 5 /\ n >= ForMastered
        \/ level = 5 /\ k.level = 5
        \/ level = 4 /\ (n >= ForLearned \/ k.level = 4)
        \/ level = 3
    BY <2>2 DEF level, Learn!higher
  <2>4. k.level >= 4 => k.uses >= ForLearned
    BY DEF Earned
  <2>5. k.level = 5 => k.uses >= ForMastered
    BY DEF Earned
  <2> QED
    BY <1>4, <2>1, <2>2, <2>3, <2>4, <2>5 DEF Earned
<1> QED
  BY <1>4, <1>5 DEF e, n

\* A step that changes what is known of one capability.
LEMMA OneIsKnown ==
  ASSUME LearningInv, NEW x \in Learn!Capabilities, NEW e \in Knowledge,
         known' = [known EXCEPT ![x] = e], UNCHANGED <<day, told>>,
         Earned(e), Remembered(e, told[x]),
         tutorials' \in [Learn!Ids -> Progress], attempts' \in [Attempts -> {0} \cup Learn!Ids]
  PROVE  LearningInv'
<1>1. known' \in [Learn!Capabilities -> Knowledge]
  BY DEF LearningInv
<1>2. ASSUME NEW c \in Learn!Capabilities
      PROVE  Earned(known'[c]) /\ Remembered(known'[c], told[c])
  BY DEF LearningInv
<1>3. \A c \in Learn!Capabilities : Remembered(known[c], told[c])' <=> Remembered(known'[c], told[c])
  BY DEF Remembered
<1>4. \A c \in Learn!Capabilities : Earned(known[c])' <=> Earned(known'[c])
  BY DEF Earned
<1> QED
  BY <1>1, <1>2, <1>3, <1>4 DEF LearningInv

\* An introduction keeps what is remembered of a capability.
LEMMA IntroducedRemembers ==
  ASSUME LearningInv, NEW x \in Learn!Capabilities
  PROVE  Remembered(Learn!introduced(known[x]), told[x])
<1> DEFINE k == known[x]
           e == Learn!introduced(k)
           t == told[x]
           tips == t.given
           dropped == t.dismissed
<1>1. /\ k \in Knowledge /\ day \in 0..MaxDays /\ Remembered(k, t)
      /\ tips \in Seq(0..MaxDays) /\ dropped \in Days
  BY DEF LearningInv
<1>2. /\ e.introductions = k.introductions + 1 /\ e.taught = day
      /\ e.dismissed = k.dismissed /\ k.introductions \in Nat /\ k.taught \in Days
  BY <1>1, IntroducedIs DEF Knowledge
<1>4. /\ k.taught # Learn!Never => k.taught <= day
      /\ Len(tips) <= k.introductions /\ Len(tips) <= MaxIntroductions
      /\ dropped # Learn!Never => k.dismissed /\ k.taught # Learn!Never /\ dropped <= k.taught
      /\ \A i \in 1..Len(tips) :
           /\ tips[i] <= day
           /\ dropped # Learn!Never /\ tips[i] > dropped => tips[i] >= dropped + DismissedFor
  BY <1>1, Zenon DEF Remembered
<1> HIDE DEF k, e, tips, dropped
<1>3. Len(tips) \in Nat /\ k.taught \in Nat /\ dropped \in Nat /\ day \in Nat /\ day # Learn!Never
  <2>1. Len(tips) \in Nat
    BY <1>1
  <2>2. k.taught \in Nat /\ dropped \in Nat
    BY <1>1, <1>2, LearningNumbers
  <2>3. day \in Nat /\ day # Learn!Never
    BY <1>1, LearningNumbers
  <2> QED
    BY <2>1, <2>2, <2>3
<1>5. dropped # Learn!Never => dropped <= day
  BY <1>3, <1>4
<1>6. Len(tips) <= e.introductions
  BY <1>2, <1>3, <1>4
<1>7. dropped # Learn!Never => e.dismissed /\ e.taught # Learn!Never /\ dropped <= e.taught
  BY <1>2, <1>3, <1>4, <1>5
<1>8. e.taught <= day
  BY <1>2, <1>3
<1>9. /\ e.taught # Learn!Never => e.taught <= day
      /\ Len(tips) <= e.introductions /\ Len(tips) <= MaxIntroductions
      /\ dropped # Learn!Never => e.dismissed /\ e.taught # Learn!Never /\ dropped <= e.taught
      /\ \A i \in 1..Len(tips) :
           /\ tips[i] <= day
           /\ dropped # Learn!Never /\ tips[i] > dropped => tips[i] >= dropped + DismissedFor
  BY <1>4, <1>6, <1>7, <1>8
<1> HIDE DEF t
<1>10. Remembered(e, t)
  BY <1>9 DEF Remembered, tips, dropped
<1> QED
  BY <1>10 DEF e, k, t

\* A lesson that is begun.
LEMMA StartLearns ==
  ASSUME LearningInv, NEW l \in Learn!Ids, Learn!Start(l) PROVE LearningInv'
<1> DEFINE x == Lessons[l].capability
           e == Learn!introduced(known[x])
<1>1. x \in Learn!Capabilities
  BY LessonsTeach
<1>2. known[x] \in Knowledge /\ Earned(known[x]) /\ day \in 0..MaxDays
  BY <1>1 DEF LearningInv
<1>3. e \in Knowledge /\ Earned(e) /\ Remembered(e, told[x])
  BY <1>1, <1>2, IntroducedIs, IntroducedRemembers
<1>4. /\ known' = [known EXCEPT ![x] = e]
      /\ tutorials' = [tutorials EXCEPT ![l].status = "IN_PROGRESS"]
      /\ UNCHANGED <<day, attempts, told>>
  BY DEF Learn!Start
<1>5. tutorials' \in [Learn!Ids -> Progress] /\ attempts' \in [Attempts -> {0} \cup Learn!Ids]
  BY <1>4 DEF LearningInv, Progress
<1> HIDE DEF x, e
<1> QED
  BY <1>1, <1>3, <1>4, <1>5, OneIsKnown

\* A check that passes.
LEMMA PassesLearns ==
  ASSUME LearningInv, NEW a \in Attempts, Learn!Passes(a) PROVE LearningInv'
<1> DEFINE l == attempts[a]
           x == Lessons[l].capability
           e == Learn!used(known[x])
<1>1. l \in Learn!Ids
  BY DEF LearningInv, Learn!Passes
<1>2. x \in Learn!Capabilities
  BY <1>1, LessonsTeach
<1>3. /\ known[x] \in Knowledge /\ Earned(known[x]) /\ Remembered(known[x], told[x])
      /\ day \in 0..MaxDays
  BY <1>2 DEF LearningInv
<1>4. /\ e \in Knowledge /\ Earned(e) /\ e.introductions = known[x].introductions
      /\ e.taught = known[x].taught /\ e.dismissed = known[x].dismissed
  BY <1>3, UsedIs
<1>5. Remembered(e, told[x])
  BY <1>3, <1>4 DEF Remembered
<1>6. /\ known' = [known EXCEPT ![x] = e] /\ UNCHANGED <<day, told>>
      /\ tutorials' = [tutorials EXCEPT ![l].completed = TRUE, ![l].status = "COMPLETED"]
      /\ attempts' = [attempts EXCEPT ![a] = 0]
  BY DEF Learn!Passes
<1> HIDE DEF l, x, e
<1>7. tutorials' \in [Learn!Ids -> Progress] /\ attempts' \in [Attempts -> {0} \cup Learn!Ids]
  <2> DEFINE p == [tutorials[l] EXCEPT !.completed = TRUE, !.status = "COMPLETED"]
  <2>1. tutorials \in [Learn!Ids -> Progress] /\ attempts \in [Attempts -> {0} \cup Learn!Ids]
    BY DEF LearningInv
  <2>2. p \in Progress
    BY <1>1, <2>1 DEF Progress
  <2>3. tutorials' = [tutorials EXCEPT ![l] = p]
    BY <1>6
  <2> HIDE DEF p
  <2>4. tutorials' \in [Learn!Ids -> Progress]
    BY <2>1, <2>2, <2>3
  <2>5. attempts' \in [Attempts -> {0} \cup Learn!Ids]
    BY <1>6, <2>1
  <2> QED
    BY <2>4, <2>5
<1> QED
  BY <1>2, <1>4, <1>5, <1>6, <1>7, OneIsKnown

\* A step that changes neither what is known nor what was told.
LEMMA LearningRests ==
  ASSUME LearningInv, UNCHANGED <<day, known, told>>,
         tutorials' \in [Learn!Ids -> Progress], attempts' \in [Attempts -> {0} \cup Learn!Ids]
  PROVE  LearningInv'
<1>1. \A c \in Learn!Capabilities : Earned(known[c])' /\ Remembered(known[c], told[c])'
  BY DEF LearningInv, Earned, Remembered
<1> QED
  BY <1>1 DEF LearningInv

\* A lesson that is attempted, fails or is declined.
LEMMA LessonsRest ==
  ASSUME LearningInv, NEW l \in Learn!Ids, NEW a \in Attempts,
         Learn!Attempt(a, l) \/ Learn!Fails(a) \/ Learn!Skip(l)
  PROVE  LearningInv'
<1>1. UNCHANGED <<day, known, told>>
  BY DEF Learn!Attempt, Learn!Fails, Learn!Skip
<1>2. attempts' \in [Attempts -> {0} \cup Learn!Ids]
  BY DEF Learn!Attempt, Learn!Fails, Learn!Skip, LearningInv
<1>3. tutorials' \in [Learn!Ids -> Progress]
  <2>1. CASE Learn!Skip(l)
    <3>1. tutorials \in [Learn!Ids -> Progress] /\ Learn!stepLeft(l) \in BOOLEAN
      BY DEF LearningInv, Learn!stepLeft
    <3>2. (tutorials[l].skipped \/ Learn!stepLeft(l)) \in BOOLEAN
      OBVIOUS
    <3> DEFINE skipped == tutorials[l].skipped \/ Learn!stepLeft(l)
    <3>3. tutorials' = [tutorials EXCEPT ![l].status = "SKIPPED", ![l].skipped = skipped]
      BY <2>1 DEF Learn!Skip
    <3>4. skipped \in BOOLEAN
      BY <3>2
    <3> HIDE DEF skipped
    <3> DEFINE p == [tutorials[l] EXCEPT !.status = "SKIPPED", !.skipped = skipped]
    <3>5. p \in Progress
      BY <3>1, <3>4 DEF Progress
    <3>6. tutorials' = [tutorials EXCEPT ![l] = p]
      BY <3>3
    <3> HIDE DEF p
    <3> QED
      BY <3>1, <3>5, <3>6
  <2>2. CASE ~Learn!Skip(l)
    BY <2>2 DEF Learn!Attempt, Learn!Fails, LearningInv
  <2> QED
    BY <2>1, <2>2
<1> QED
  BY <1>1, <1>2, <1>3, LearningRests

\* A tip: given only if there were fewer introductions, and long enough after it was dismissed.
LEMMA TipLearns ==
  ASSUME LearningInv, NEW c \in Learn!Capabilities, Learn!AfterUsing(c) PROVE LearningInv'
<1> DEFINE x == Teaches[c]
           k == known[x]
           e == Learn!introduced(k)
           t == told[x]
           tips == t.given
           dropped == t.dismissed
           more == Append(tips, day)
           u == [t EXCEPT !.given = more]
<1>1. /\ x \in Learn!Capabilities /\ known' = [known EXCEPT ![x] = e]
      /\ told' = [told EXCEPT ![x].given = Append(@, day)]
      /\ UNCHANGED <<day, tutorials, attempts>> /\ Learn!deserved(x, c)
  BY LessonsTeach DEF Learn!AfterUsing
<1>2. /\ k \in Knowledge /\ day \in 0..MaxDays /\ Remembered(k, t) /\ Earned(k)
      /\ tips \in Seq(0..MaxDays) /\ dropped \in Days
      /\ t \in [given : Seq(0..MaxDays), dismissed : Days]
  BY <1>1 DEF LearningInv
<1>3. /\ e \in Knowledge /\ e.introductions = k.introductions + 1 /\ e.taught = day
      /\ e.dismissed = k.dismissed /\ k.introductions \in Nat /\ k.taught \in Days /\ Earned(e)
  BY <1>2, IntroducedIs DEF Knowledge
<1>4. /\ k.taught # Learn!Never => k.taught <= day
      /\ Len(tips) <= k.introductions /\ Len(tips) <= MaxIntroductions
      /\ dropped # Learn!Never => k.dismissed /\ k.taught # Learn!Never /\ dropped <= k.taught
      /\ \A i \in 1..Len(tips) :
           /\ tips[i] <= day
           /\ dropped # Learn!Never /\ tips[i] > dropped => tips[i] >= dropped + DismissedFor
  BY <1>2, Zenon DEF Remembered
<1>5. /\ k.introductions < MaxIntroductions
      /\ k.dismissed => k.taught # Learn!Never /\ ~(Learn!since(k.taught) < DismissedFor)
  BY <1>1, Zenon DEF Learn!deserved
<1>6. /\ u \in [given : Seq(0..MaxDays), dismissed : Days]
      /\ u.given = Append(tips, day) /\ u.dismissed = dropped
  <2>1. more \in Seq(0..MaxDays)
    BY <1>2
  <2> HIDE DEF more
  <2>2. u.given = more /\ u \in [given : Seq(0..MaxDays), dismissed : Days] /\ u.dismissed = dropped
    BY <1>2, <2>1
  <2> QED
    BY <2>2 DEF more
<1>7. told' = [told EXCEPT ![x] = u]
  BY <1>1
<1>8. k.taught # Learn!Never => Learn!since(k.taught) = day - k.taught
  BY DEF Learn!since
<1> HIDE DEF x, k, e, t, tips, dropped, u
<1>9. Len(tips) \in Nat /\ Len(Append(tips, day)) = Len(tips) + 1
  BY <1>2
<1>10. k.taught \in Nat /\ dropped \in Nat /\ DismissedFor \in Nat /\ MaxIntroductions \in Nat
  BY <1>2, <1>3, LearningNumbers
<1>11. day \in Nat /\ day # Learn!Never
  BY <1>2, LearningNumbers
<1>12. dropped # Learn!Never => dropped <= day /\ day >= dropped + DismissedFor
  <2> SUFFICES ASSUME dropped # Learn!Never PROVE dropped <= day /\ day >= dropped + DismissedFor
    OBVIOUS
  <2>1. k.taught # Learn!Never /\ dropped <= k.taught /\ k.taught <= day
    BY <1>4
  <2>2. ~(day - k.taught < DismissedFor)
    BY <1>4, <1>5, <1>8, <2>1
  <2> QED
    BY <1>10, <1>11, <2>1, <2>2
<1>13. \A i \in 1..Len(u.given) :
         /\ u.given[i] <= day
         /\ dropped # Learn!Never /\ u.given[i] > dropped => u.given[i] >= dropped + DismissedFor
  <2> SUFFICES ASSUME NEW i \in 1..Len(Append(tips, day))
               PROVE  /\ Append(tips, day)[i] <= day
                      /\ dropped # Learn!Never /\ Append(tips, day)[i] > dropped
                           => Append(tips, day)[i] >= dropped + DismissedFor
    BY <1>6
  <2>1. CASE i = Len(tips) + 1
    <3>1. Append(tips, day)[i] = day
      BY <1>2, <2>1
    <3> QED
      BY <1>11, <1>12, <3>1
  <2>2. CASE i # Len(tips) + 1
    <3>1. i \in 1..Len(tips)
      BY <1>9, <2>2
    <3>2. Append(tips, day)[i] = tips[i]
      BY <1>2, <3>1
    <3> QED
      BY <1>4, <3>1, <3>2
  <2> QED
    BY <2>1, <2>2
<1>14. Len(u.given) <= e.introductions /\ Len(u.given) <= MaxIntroductions
  BY <1>3, <1>4, <1>5, <1>6, <1>9, <1>10
<1>15. dropped # Learn!Never => e.dismissed /\ e.taught # Learn!Never /\ dropped <= e.taught
  BY <1>3, <1>4, <1>11, <1>12
<1>16. e.taught # Learn!Never => e.taught <= day
  BY <1>3, <1>11
<1>17. Remembered(e, u)
  BY <1>6, <1>13, <1>14, <1>15, <1>16 DEF Remembered
<1>18. known' \in [Learn!Capabilities -> Knowledge]
       /\ told' \in [Learn!Capabilities -> [given : Seq(0..MaxDays), dismissed : Days]]
  BY <1>1, <1>3, <1>6, <1>7 DEF LearningInv
<1>19. ASSUME NEW d \in Learn!Capabilities
       PROVE  Earned(known[d])' /\ Remembered(known[d], told[d])'
  <2>1. Earned(known'[d]) /\ Remembered(known'[d], told'[d])
    BY <1>1, <1>3, <1>7, <1>17 DEF LearningInv
  <2> QED
    BY <1>1, <2>1 DEF Earned, Remembered
<1> QED
  BY <1>1, <1>18, <1>19 DEF LearningInv

\* A capability the owner wants to hear no more of.
LEMMA DismissLearns ==
  ASSUME LearningInv, NEW c \in Learn!Capabilities, Learn!Dismiss(c) PROVE LearningInv'
<1> DEFINE k == known[c]
           e == [k EXCEPT !.dismissed = TRUE, !.taught = day]
           t == told[c]
           u == [t EXCEPT !.dismissed = day]
<1>1. /\ known' = [known EXCEPT ![c] = e] /\ told' = [told EXCEPT ![c] = u]
      /\ UNCHANGED <<day, tutorials, attempts>>
  BY DEF Learn!Dismiss
<1>2. /\ k \in Knowledge /\ day \in 0..MaxDays /\ Remembered(k, t) /\ Earned(k)
      /\ t \in [given : Seq(0..MaxDays), dismissed : Days] /\ day \in Days /\ day # Learn!Never
      /\ day \in Nat
  BY LearningNumbers DEF LearningInv
<1>3. /\ e \in Knowledge /\ e.level = k.level /\ e.uses = k.uses /\ e.introductions = k.introductions
      /\ e.taught = day /\ e.dismissed
  BY <1>2 DEF Knowledge
<1>4. /\ u \in [given : Seq(0..MaxDays), dismissed : Days]
      /\ u.given = t.given /\ u.dismissed = day
  BY <1>2
<1>5. /\ Len(t.given) <= k.introductions /\ Len(t.given) <= MaxIntroductions
      /\ \A i \in 1..Len(t.given) : t.given[i] <= day
  BY <1>2, Zenon DEF Remembered
<1>6. \A i \in 1..Len(t.given) : t.given[i] \in Nat
  <2> DEFINE tips == t.given
  <2>1. tips \in Seq(0..MaxDays)
    BY <1>2
  <2> HIDE DEF tips
  <2>2. \A i \in 1..Len(tips) : tips[i] \in 0..MaxDays
    BY <2>1, ElementOfSeq
  <2>3. \A i \in 1..Len(tips) : tips[i] \in Nat
    BY <2>2, LearningNumbers
  <2> QED
    BY <2>3 DEF tips
<1> HIDE DEF e, u, k, t
<1>7. Earned(e)
  BY <1>2, <1>3 DEF Earned
<1>8. Remembered(e, u)
  BY <1>2, <1>3, <1>4, <1>5, <1>6 DEF Remembered
<1>9. known' \in [Learn!Capabilities -> Knowledge]
      /\ told' \in [Learn!Capabilities -> [given : Seq(0..MaxDays), dismissed : Days]]
  BY <1>1, <1>3, <1>4 DEF LearningInv
<1>10. ASSUME NEW d \in Learn!Capabilities
       PROVE  Earned(known[d])' /\ Remembered(known[d], told[d])'
  <2>1. Earned(known'[d]) /\ Remembered(known'[d], told'[d])
    BY <1>1, <1>7, <1>8 DEF LearningInv
  <2> QED
    BY <1>1, <2>1 DEF Earned, Remembered
<1> QED
  BY <1>1, <1>9, <1>10 DEF LearningInv

\* Nothing told and nothing dismissed agrees with any record that has not been taught later than now.
LEMMA UntoldIsRemembered ==
  ASSUME NEW k, k.taught # Learn!Never => k.taught <= day, k.introductions \in Nat
  PROVE  /\ Remembered(k, Learn!Untold)
         /\ Learn!Untold \in [given : Seq(0..MaxDays), dismissed : Days]
<1>1. Learn!Untold.given = <<>> /\ Learn!Untold.dismissed = Learn!Never
  BY DEF Learn!Untold
<1>2. <<>> \in Seq(0..MaxDays) /\ Len(<<>>) = 0
  BY EmptySeq
<1> QED
  BY <1>1, <1>2, LearningNumbers DEF Remembered, Learn!Untold

\* The offers are reset: what was dismissed may be told again.
LEMMA ResetTipsLearns ==
  ASSUME LearningInv, Learn!ResetTips PROVE LearningInv'
<1> DEFINE e(c) == [known[c] EXCEPT !.dismissed = FALSE, !.introductions = 0,
                        !.taught = IF known[c].dismissed \/ known[c].introductions > 0
                                     THEN Learn!Never ELSE @]
<1>1. /\ known' = [c \in Learn!Capabilities |-> e(c)]
      /\ told' = [c \in Learn!Capabilities |-> Learn!Untold]
      /\ UNCHANGED <<day, tutorials, attempts>>
  BY DEF Learn!ResetTips
<1>2. ASSUME NEW c \in Learn!Capabilities
      PROVE  e(c) \in Knowledge /\ Earned(e(c)) /\ Remembered(e(c), Learn!Untold)
  <2> DEFINE k == known[c]
             taught == IF k.dismissed \/ k.introductions > 0 THEN Learn!Never ELSE k.taught
             f == [k EXCEPT !.dismissed = FALSE, !.introductions = 0, !.taught = taught]
  <2>1. k \in Knowledge /\ Earned(k) /\ Remembered(k, told[c])
    BY DEF LearningInv
  <2>2. taught \in Days /\ (taught # Learn!Never => taught <= day)
    BY <2>1, LearningNumbers DEF Knowledge, Remembered
  <2> HIDE DEF k, taught
  <2>3. /\ f \in Knowledge /\ f.level = k.level /\ f.uses = k.uses /\ f.introductions = 0
        /\ f.taught = taught
    BY <2>1, <2>2 DEF Knowledge
  <2>4. f = e(c)
    BY DEF k, taught
  <2> HIDE DEF f
  <2>5. Earned(f)
    BY <2>1, <2>3 DEF Earned
  <2>6. Remembered(f, Learn!Untold)
    BY <2>2, <2>3, UntoldIsRemembered
  <2> HIDE DEF e
  <2> QED
    BY <2>3, <2>4, <2>5, <2>6
<1>3. Learn!Capabilities # {} => Learn!Untold \in [given : Seq(0..MaxDays), dismissed : Days]
  BY EmptySeq, LearningNumbers DEF Learn!Untold
<1> HIDE DEF e
<1>4. known' \in [Learn!Capabilities -> Knowledge]
      /\ told' \in [Learn!Capabilities -> [given : Seq(0..MaxDays), dismissed : Days]]
  BY <1>1, <1>2, <1>3
<1>5. ASSUME NEW c \in Learn!Capabilities
      PROVE  Earned(known[c])' /\ Remembered(known[c], told[c])'
  <2>1. Earned(known'[c]) /\ Remembered(known'[c], told'[c])
    BY <1>1, <1>2
  <2> QED
    BY <1>1, <2>1 DEF Earned, Remembered
<1> QED
  BY <1>1, <1>4, <1>5 DEF LearningInv

\* Nothing is known yet, or any more.
LEMMA NothingIsKnown ==
  ASSUME day \in 0..MaxDays
  PROVE  /\ Learn!NewKnowledge \in Knowledge /\ Earned(Learn!NewKnowledge)
         /\ Remembered(Learn!NewKnowledge, Learn!Untold)
         /\ Learn!Untold \in [given : Seq(0..MaxDays), dismissed : Days]
         /\ Learn!NewProgress \in Progress
<1>1. /\ Learn!NewKnowledge \in Knowledge /\ Learn!NewKnowledge.level = 1
      /\ Learn!NewKnowledge.uses = 0 /\ Learn!NewKnowledge.introductions = 0
      /\ Learn!NewKnowledge.taught = Learn!Never
  BY LearningNumbers DEF Learn!NewKnowledge, Knowledge
<1>2. Earned(Learn!NewKnowledge)
  BY <1>1 DEF Earned
<1>3. /\ Remembered(Learn!NewKnowledge, Learn!Untold)
      /\ Learn!Untold \in [given : Seq(0..MaxDays), dismissed : Days]
  BY <1>1, UntoldIsRemembered
<1>4. Learn!NewProgress \in Progress
  BY DEF Learn!NewProgress, Progress
<1> QED
  BY <1>1, <1>2, <1>3, <1>4

\* Everything is reset, or only the lessons.
LEMMA ResetsLearn ==
  ASSUME LearningInv, Learn!ResetAll \/ Learn!ResetTutorials PROVE LearningInv'
<1>1. day \in 0..MaxDays
  BY DEF LearningInv
<1>2. CASE Learn!ResetTutorials
  <2>1. tutorials' \in [Learn!Ids -> Progress] /\ attempts' \in [Attempts -> {0} \cup Learn!Ids]
        /\ UNCHANGED <<day, known, told>>
    BY <1>1, <1>2, NothingIsKnown DEF Learn!ResetTutorials, LearningInv
  <2> QED
    BY <2>1, LearningRests
<1>3. CASE Learn!ResetAll
  <2>1. /\ tutorials' \in [Learn!Ids -> Progress] /\ attempts' \in [Attempts -> {0} \cup Learn!Ids]
        /\ known' = [c \in Learn!Capabilities |-> Learn!NewKnowledge]
        /\ told' = [c \in Learn!Capabilities |-> Learn!Untold] /\ UNCHANGED day
    BY <1>1, <1>3, NothingIsKnown DEF Learn!ResetAll, LearningInv
  <2>2. known' \in [Learn!Capabilities -> Knowledge]
        /\ told' \in [Learn!Capabilities -> [given : Seq(0..MaxDays), dismissed : Days]]
    BY <1>1, <2>1, NothingIsKnown
  <2>3. ASSUME NEW c \in Learn!Capabilities
        PROVE  Earned(known[c])' /\ Remembered(known[c], told[c])'
    <3>1. Earned(known'[c]) /\ Remembered(known'[c], told'[c])
      BY <1>1, <2>1, NothingIsKnown
    <3> QED
      BY <2>1, <3>1 DEF Earned, Remembered
  <2> QED
    BY <1>1, <2>1, <2>2, <2>3 DEF LearningInv
<1> QED
  BY <1>2, <1>3

\* A day goes by.
LEMMA NextDayLearns ==
  ASSUME LearningInv, Learn!NextDay PROVE LearningInv'
<1>1. /\ day' = day + 1 /\ day' \in 0..MaxDays /\ day \in Nat
      /\ UNCHANGED <<known, tutorials, attempts, told>>
  <2>1. day \in 0..MaxDays /\ MaxDays \in Nat
    BY LearningNumbers DEF LearningInv
  <2> QED
    BY <2>1 DEF Learn!NextDay
<1>2. ASSUME NEW c \in Learn!Capabilities
      PROVE  Earned(known[c])' /\ Remembered(known[c], told[c])'
  <2>1. /\ Earned(known[c]) /\ Remembered(known[c], told[c])
        /\ told[c].given \in Seq(0..MaxDays) /\ known[c] \in Knowledge
    BY DEF LearningInv
  <2>2. known[c].taught \in Nat /\ \A i \in 1..Len(told[c].given) : told[c].given[i] \in Nat
    <3>1. known[c].taught \in Nat
      BY <2>1, LearningNumbers DEF Knowledge
    <3> DEFINE tips == told[c].given
    <3>2. tips \in Seq(0..MaxDays)
      BY <2>1
    <3> HIDE DEF tips
    <3>3. \A i \in 1..Len(tips) : tips[i] \in 0..MaxDays
      BY <3>2, ElementOfSeq
    <3>4. \A i \in 1..Len(tips) : tips[i] \in Nat
      BY <3>3, LearningNumbers
    <3> QED
      BY <3>1, <3>4 DEF tips
  <2>3. Earned(known[c])'
    BY <1>1, <2>1 DEF Earned
  <2> QED
    BY <1>1, <2>1, <2>2, <2>3 DEF Remembered
<1> QED
  BY <1>1, <1>2 DEF LearningInv

\* Initially nothing was taught.
LEMMA LearningStarts ==
  Learn!Init => LearningInv
<1> SUFFICES ASSUME Learn!Init PROVE LearningInv
  OBVIOUS
<1>1. day \in 0..MaxDays
  BY LearningNumbers DEF Learn!Init
<1>2. /\ known = [c \in Learn!Capabilities |-> Learn!NewKnowledge]
      /\ told = [c \in Learn!Capabilities |-> Learn!Untold]
      /\ tutorials = [l \in Learn!Ids |-> Learn!NewProgress]
      /\ attempts = [a \in Attempts |-> 0]
  BY DEF Learn!Init
<1> QED
  BY <1>1, <1>2, NothingIsKnown DEF LearningInv

\* LearningInv is inductive.
LEMMA LearningStep ==
  LearningInv /\ [Learn!Next]_learningVars => LearningInv'
<1> SUFFICES ASSUME LearningInv, [Learn!Next]_learningVars PROVE LearningInv'
  OBVIOUS
<1>1. ASSUME NEW l \in Learn!Ids, Learn!Start(l) PROVE LearningInv'
  BY <1>1, StartLearns
<1>2. ASSUME NEW l \in Learn!Ids, NEW a \in Attempts, Learn!Attempt(a, l) PROVE LearningInv'
  BY <1>2, LessonsRest
<1>3. ASSUME NEW a \in Attempts, Learn!Passes(a) PROVE LearningInv'
  BY <1>3, PassesLearns
<1>4. ASSUME NEW a \in Attempts, Learn!Fails(a) PROVE LearningInv'
  <2>1. attempts[a] \in Learn!Ids
    BY <1>4 DEF Learn!Fails, LearningInv
  <2> QED
    BY <1>4, <2>1, LessonsRest
<1>5. ASSUME NEW l \in Learn!Ids, Learn!Skip(l) PROVE LearningInv'
  <2>1. UNCHANGED <<day, known, told, attempts>>
    BY <1>5 DEF Learn!Skip
  <2>2. tutorials' \in [Learn!Ids -> Progress]
    <3> DEFINE skipped == tutorials[l].skipped \/ Learn!stepLeft(l)
    <3>1. tutorials \in [Learn!Ids -> Progress] /\ skipped \in BOOLEAN
      BY DEF LearningInv
    <3>2. tutorials' = [tutorials EXCEPT ![l].status = "SKIPPED", ![l].skipped = skipped]
      BY <1>5 DEF Learn!Skip
    <3> HIDE DEF skipped
    <3> QED
      BY <3>1, <3>2 DEF Progress
  <2>3. attempts' \in [Attempts -> {0} \cup Learn!Ids]
    BY <2>1 DEF LearningInv
  <2> QED
    BY <2>1, <2>2, <2>3, LearningRests
<1>6. CASE Learn!ResetTips
  BY <1>6, ResetTipsLearns
<1>7. CASE Learn!ResetAll \/ Learn!ResetTutorials
  BY <1>7, ResetsLearn
<1>8. CASE Learn!NextDay
  BY <1>8, NextDayLearns
<1>9. ASSUME NEW c \in Learn!Capabilities, Learn!AfterUsing(c) PROVE LearningInv'
  BY <1>9, TipLearns
<1>10. ASSUME NEW c \in Learn!Capabilities, Learn!Dismiss(c) PROVE LearningInv'
  BY <1>10, DismissLearns
<1>11. CASE UNCHANGED learningVars
  <2>1. UNCHANGED <<day, known, told, tutorials, attempts>>
    BY <1>11 DEF learningVars
  <2>2. tutorials' \in [Learn!Ids -> Progress] /\ attempts' \in [Attempts -> {0} \cup Learn!Ids]
    BY <2>1 DEF LearningInv
  <2> QED
    BY <2>1, <2>2, LearningRests
<1> QED
  BY <1>1, <1>2, <1>3, <1>4, <1>5, <1>6, <1>7, <1>8, <1>9, <1>10, <1>11 DEF Learn!Next

\* A check that passes is the only thing that completes a lesson.
LEMMA PassingCompletes ==
  LearningInv /\ [Learn!Next]_learningVars =>
    \A l \in Learn!Ids :
       (tutorials'[l].status = "COMPLETED" /\ tutorials[l].status # "COMPLETED")
       => /\ tutorials'[l].completed
          /\ known'[Lessons[l].capability].uses > known[Lessons[l].capability].uses
          /\ \E a \in Attempts : attempts[a] = l
<1> SUFFICES ASSUME LearningInv, [Learn!Next]_learningVars, NEW l \in Learn!Ids,
                    tutorials'[l].status = "COMPLETED", tutorials[l].status # "COMPLETED"
             PROVE  /\ tutorials'[l].completed
                    /\ known'[Lessons[l].capability].uses > known[Lessons[l].capability].uses
                    /\ \E a \in Attempts : attempts[a] = l
  OBVIOUS
<1>0. tutorials \in [Learn!Ids -> Progress]
  BY DEF LearningInv
<1>1. tutorials' # tutorials
  OBVIOUS
<1>2. ASSUME NEW m \in Learn!Ids, Learn!Start(m) \/ Learn!Skip(m) PROVE FALSE
  BY <1>0, <1>2 DEF Learn!Start, Learn!Skip, Progress
<1>3. ~Learn!ResetTutorials /\ ~Learn!ResetAll
  BY DEF Learn!ResetTutorials, Learn!ResetAll, Learn!NewProgress
<1>4. PICK a \in Attempts : Learn!Passes(a)
  <2>1. ASSUME NEW m \in Learn!Ids, NEW a \in Attempts, Learn!Attempt(a, m) PROVE FALSE
    BY <1>1, <2>1 DEF Learn!Attempt
  <2>2. ASSUME NEW a \in Attempts, Learn!Fails(a) PROVE FALSE
    BY <1>1, <2>2 DEF Learn!Fails
  <2>3. ASSUME NEW c \in Learn!Capabilities, Learn!AfterUsing(c) \/ Learn!Dismiss(c) PROVE FALSE
    BY <1>1, <2>3 DEF Learn!AfterUsing, Learn!Dismiss
  <2>4. ~Learn!ResetTips /\ ~Learn!NextDay /\ ~UNCHANGED learningVars
    BY <1>1 DEF Learn!ResetTips, Learn!NextDay, learningVars
  <2> QED
    BY <1>2, <1>3, <2>1, <2>2, <2>3, <2>4 DEF Learn!Next
<1> DEFINE x == Lessons[l].capability
<1>5. /\ tutorials' = [tutorials EXCEPT ![attempts[a]].completed = TRUE,
                                        ![attempts[a]].status = "COMPLETED"]
      /\ known' = [known EXCEPT ![Lessons[attempts[a]].capability] = Learn!used(@)]
      /\ attempts[a] \in Learn!Ids
  BY <1>4 DEF Learn!Passes, LearningInv
<1>6. attempts[a] = l
  BY <1>0, <1>5 DEF Progress
<1>7. tutorials'[l].completed
  BY <1>0, <1>5, <1>6 DEF Progress
<1>8. x \in Learn!Capabilities /\ known \in [Learn!Capabilities -> Knowledge] /\ day \in 0..MaxDays
  BY LessonsTeach DEF LearningInv
<1>9. known'[x] = Learn!used(known[x])
  BY <1>5, <1>6, <1>8
<1>10. known'[x].uses = known[x].uses + 1 /\ known[x].uses \in Nat
  BY <1>8, <1>9, UsedIs DEF Knowledge
<1> QED
  BY <1>6, <1>7, <1>10

\* What the owner is said to know was done and not only told, a capability is not brought up too
\* often nor soon after it was dismissed (learning.py, tips.py), and a lesson is complete only
\* when its check has passed (lessons.py), whatever is reset, declined or attempted at once.
THEOREM LessonsAreTrue == Spec => LessonsAreEarned
<1>1. Init => Learn!Init
  BY DEF Init
<1>2. LearningInv => Learn!KnownIsEarned /\ Learn!NoNagging
  <2> SUFFICES ASSUME LearningInv, NEW c \in Learn!Capabilities
               PROVE  /\ Earned(known[c]) /\ Len(told[c].given) <= MaxIntroductions
                      /\ \A i \in 1..Len(told[c].given), d \in 0..MaxDays :
                           (told[c].dismissed = d /\ told[c].given[i] > d)
                             => told[c].given[i] >= d + DismissedFor
    BY DEF Learn!KnownIsEarned, Learn!NoNagging, Earned
  <2>1. Earned(known[c]) /\ Remembered(known[c], told[c])
    BY DEF LearningInv
  <2> QED
    BY <2>1, LearningNumbers DEF Remembered
<1>3. LearningInv => (part = "learning" => Learn!KnownIsEarned /\ Learn!NoNagging)
  BY <1>2
<1>4. LearningInv /\ [Learn!Next]_learningVars =>
        [\A l \in Learn!Ids :
           (tutorials'[l].status = "COMPLETED" /\ tutorials[l].status # "COMPLETED")
           => /\ tutorials'[l].completed
              /\ known'[Lessons[l].capability].uses > known[Lessons[l].capability].uses
              /\ \E a \in Attempts : attempts[a] = l]_(Learn!vars)
  BY PassingCompletes
<1> QED
  BY <1>1, <1>3, <1>4, LearningStarts, LearningStep, OnePartSteps, PTL
     DEF Spec, allVars, LessonsAreEarned, Learn!CompletedWasDone
-------------------------------------------------------------------------------
(* Conversation: what a word settles, and what is left in memory.            *)

Places == {"new", "reading", "working", "waiting", "announcing", "writing", "noting", "forgetting",
           "done"}
Said == [at : Places, kind : Convo!Kinds, waits : BOOLEAN, asks : Nat, left : 0..2,
         doomed : SUBSET Convo!Memories, heard : {"approval", "offer", "none"} \X Nat]
Requests == [state : {"pending", "approved", "rejected", "expired"}, due : BOOLEAN, told : BOOLEAN]
Offered == {"open", "accepted", "declined", "lapsed"}

Settled == {i \in DOMAIN approvals : approvals[i].state \in {"approved", "rejected"}}
Taken == {i \in DOMAIN offers : offers[i] \in {"accepted", "declined"}}

ConvoTypes ==
  /\ turns \in [Convo!Spoken -> Said] /\ approvals \in Seq(Requests) /\ offers \in Seq(Offered)
  /\ memories \subseteq Convo!Memories /\ suppressed \in BOOLEAN /\ promised \in BOOLEAN
  /\ DOMAIN answers \subseteq Convo!Spoken

\* No more was settled than was said.
Counted == Cardinality(Settled) + Cardinality(Taken) <= Cardinality(DOMAIN answers)

\* A word that is still to be understood has settled nothing; who waits or goes on stands by an
\* approval, and whoever goes on by one that was granted and will stay so; once memory is suppressed
\* only turns that raced with that still write, and what the suppressing turn has still to remove
\* is all that should not be there.
Stands(t) ==
  /\ turns[t].at \in {"new", "reading"} => turns[t].asks = 0
  /\ (turns[t].at = "new" \/ (turns[t].at = "reading" /\ turns[t].kind \in {"yes", "no"}))
       => t \notin DOMAIN answers
  /\ turns[t].at \in {"waiting", "announcing"} => turns[t].asks \in DOMAIN approvals
  /\ turns[t].at = "announcing" => approvals[turns[t].asks].state # "pending"
  /\ turns[t].at = "working" /\ turns[t].asks # 0 =>
       /\ turns[t].asks \in DOMAIN approvals
       /\ approvals[turns[t].asks].told /\ approvals[turns[t].asks].state = "approved"
  /\ suppressed /\ turns[t].at = "writing" => t \in racing
  /\ turns[t].at = "forgetting" =>
       suppressed /\ \A m \in memories : m \in turns[t].doomed \/ m.part = 0 \/ m.turn \in racing

ConvoInv ==
  /\ ConvoTypes /\ Counted
  /\ \A i \in DOMAIN approvals : approvals[i].told => approvals[i].state # "pending"
  /\ promised => suppressed /\ \A m \in memories : m.part = 0 \/ m.turn \in racing
  /\ \A t \in Convo!Spoken : Stands(t)

\* The instance counts as this module does.
LEMMA ConvoCounts == \A S : Convo!Cardinality(S) = Cardinality(S)
BY DEF Convo!Cardinality, Cardinality

\* Of numbers up to N there is a largest.
LEMMA Largest ==
  ASSUME NEW N \in Nat, NEW T \in SUBSET (0..N), T # {}
  PROVE  \E x \in T : \A y \in T : x >= y
<1> DEFINE R == {n \in 0..N : N - n \in T}
<1>1. PICK t \in T : TRUE
  OBVIOUS
<1>2. N - t \in R
  BY <1>1
<1>3. R \in SUBSET Nat /\ R # {}
  BY <1>2
<1>4. PICK n \in R : \A y \in R : ~(y < n)
  BY <1>3, Smallest
<1>5. ASSUME NEW y \in T PROVE N - n >= y
  <2>1. N - y \in R /\ y \in 0..N /\ n \in 0..N
    BY <1>4
  <2>2. ~(N - y < n)
    BY <1>4, <2>1
  <2> HIDE DEF R
  <2> QED
    BY <2>1, <2>2
<1> QED
  BY <1>4, <1>5

\* What Max and Min name.
LEMMA MaxMinOf ==
  ASSUME NEW N \in Nat, NEW T \in SUBSET (1..N), T # {}
  PROVE  Convo!Max(T) \in T /\ Convo!Min(T) \in T
<1>1. \E x \in T : \A y \in T : x >= y
  <2>1. T \in SUBSET (0..N)
    OBVIOUS
  <2> QED
    BY <2>1, Largest
<1>2. \E x \in T : \A y \in T : x <= y
  <2>1. T \in SUBSET Nat
    OBVIOUS
  <2>2. PICK x \in T : \A y \in T : ~(y < x)
    BY <2>1, Smallest
  <2> QED
    BY <2>1, <2>2
<1> QED
  BY <1>1, <1>2 DEF Convo!Max, Convo!Min

\* The approvals and offers that are open are some of those there are.
LEMMA OpenOnes ==
  ASSUME ConvoInv
  PROVE  /\ DOMAIN approvals = 1..Len(approvals) /\ Len(approvals) \in Nat
         /\ DOMAIN offers = 1..Len(offers) /\ Len(offers) \in Nat
         /\ Convo!open \subseteq DOMAIN approvals /\ Convo!openOffers \subseteq DOMAIN offers
         /\ Convo!open # {} => Convo!Min(Convo!open) \in Convo!open /\ Convo!Max(Convo!open) \in Convo!open
         /\ Convo!openOffers # {} => Convo!Max(Convo!openOffers) \in Convo!openOffers
<1>1. /\ DOMAIN approvals = 1..Len(approvals) /\ Len(approvals) \in Nat
      /\ DOMAIN offers = 1..Len(offers) /\ Len(offers) \in Nat
  BY LenProperties DEF ConvoInv, ConvoTypes
<1>2. Convo!open \subseteq DOMAIN approvals /\ Convo!openOffers \subseteq DOMAIN offers
  BY DEF Convo!open, Convo!openOffers
<1>3. Convo!open \in SUBSET (1..Len(approvals)) /\ Convo!openOffers \in SUBSET (1..Len(offers))
  BY <1>1, <1>2
<1>4. Convo!open # {} => Convo!Min(Convo!open) \in Convo!open /\ Convo!Max(Convo!open) \in Convo!open
  BY <1>1, <1>3, MaxMinOf
<1>5. Convo!openOffers # {} => Convo!Max(Convo!openOffers) \in Convo!openOffers
  BY <1>1, <1>3, MaxMinOf
<1> QED
  BY <1>1, <1>2, <1>4, <1>5

\* What was last asked is a question.
LEMMA LastAskedIs ==
  ConvoInv => Convo!lastAsked \in {"approval", "offer", "none"} \X Nat
<1> SUFFICES ASSUME ConvoInv PROVE Convo!lastAsked \in {"approval", "offer", "none"} \X Nat
  OBVIOUS
<1>1. Convo!open # {} => Convo!Max(Convo!open) \in Nat
  BY OpenOnes
<1>2. Convo!openOffers # {} => Convo!Max(Convo!openOffers) \in Nat
  BY OpenOnes
<1> QED
  BY <1>1, <1>2 DEF Convo!lastAsked, Convo!NoQuestion, Convo!None

\* What was settled can be counted.
LEMMA SettledCount ==
  ConvoInv => /\ IsFiniteSet(Settled) /\ Cardinality(Settled) \in Nat
              /\ IsFiniteSet(Taken) /\ Cardinality(Taken) \in Nat
              /\ IsFiniteSet(DOMAIN answers) /\ Cardinality(DOMAIN answers) \in Nat
<1> SUFFICES ASSUME ConvoInv
             PROVE  IsFiniteSet(Settled) /\ IsFiniteSet(Taken) /\ IsFiniteSet(DOMAIN answers)
  BY FS_CardinalityType
<1>1. Settled \subseteq 1..Len(approvals) /\ Taken \subseteq 1..Len(offers)
  BY OpenOnes DEF Settled, Taken
<1>2. DOMAIN answers \subseteq 1..MaxTurns /\ MaxTurns \in Nat
  BY OwnerAssumption DEF ConvoInv, ConvoTypes, Convo!Spoken
<1>3. IsFiniteSet(1..Len(approvals)) /\ IsFiniteSet(1..Len(offers)) /\ IsFiniteSet(1..MaxTurns)
  BY <1>2, OpenOnes, FS_Interval
<1> QED
  BY <1>1, <1>2, <1>3, FS_Subset

\* Approvals are added, and what was granted and announced, or decided, stays so.
ApprovalsGoOn ==
  /\ DOMAIN approvals \subseteq DOMAIN approvals'
  /\ \A i \in DOMAIN approvals :
       /\ approvals[i].told /\ approvals[i].state = "approved"
            => approvals'[i].told /\ approvals'[i].state = "approved"
       /\ approvals[i].state # "pending" => approvals'[i].state # "pending"

\* What memory and the words settled may do under the turns that did not move.
OthersMay(S) ==
  /\ ApprovalsGoOn
  /\ DOMAIN answers' \subseteq DOMAIN answers \cup S
  /\ racing \subseteq racing' /\ (suppressed => suppressed')
  /\ suppressed' => suppressed \/ \A u \in Convo!Spoken : turns[u].at = "writing" => u \in racing'
  /\ \A m \in memories' : m \in memories \/ m.part = 0 \/ (suppressed => m.turn \in racing')

\* A turn that did not move stands as it stood.
LEMMA UnmovedStands ==
  ASSUME ConvoInv, NEW S, OthersMay(S), NEW u \in Convo!Spoken, u \notin S, turns'[u] = turns[u]
  PROVE  Stands(u)'
<1>1. Stands(u)
  BY DEF ConvoInv
<1>2. /\ turns'[u].at = turns[u].at /\ turns'[u].asks = turns[u].asks
      /\ turns'[u].kind = turns[u].kind /\ turns'[u].doomed = turns[u].doomed
  OBVIOUS
<1>3. /\ turns'[u].at \in {"new", "reading"} => turns'[u].asks = 0
      /\ (turns'[u].at = "new" \/ (turns'[u].at = "reading" /\ turns'[u].kind \in {"yes", "no"}))
           => u \notin DOMAIN answers'
  BY <1>1, <1>2 DEF Stands, OthersMay
<1>4. /\ turns'[u].at \in {"waiting", "announcing"} => turns'[u].asks \in DOMAIN approvals'
      /\ turns'[u].at = "announcing" => approvals'[turns'[u].asks].state # "pending"
  BY <1>1, <1>2 DEF Stands, OthersMay, ApprovalsGoOn
<1>5. turns'[u].at = "working" /\ turns'[u].asks # 0 =>
        /\ turns'[u].asks \in DOMAIN approvals'
        /\ approvals'[turns'[u].asks].told /\ approvals'[turns'[u].asks].state = "approved"
  BY <1>1, <1>2 DEF Stands, OthersMay, ApprovalsGoOn
<1>6. suppressed' /\ turns'[u].at = "writing" => u \in racing'
  BY <1>1, <1>2 DEF Stands, OthersMay
<1>7. turns'[u].at = "forgetting" =>
        suppressed' /\ \A m \in memories' : m \in turns'[u].doomed \/ m.part = 0 \/ m.turn \in racing'
  BY <1>1, <1>2 DEF Stands, OthersMay
<1> QED
  BY <1>3, <1>4, <1>5, <1>6, <1>7 DEF Stands

\* One turn moves and stands where it went, and everything else may go on as it does.
LEMMA ConvoMoves ==
  ASSUME ConvoInv, NEW S, ConvoTypes', Counted', OthersMay(S),
         \A u \in Convo!Spoken : u \notin S => turns'[u] = turns[u],
         \A u \in Convo!Spoken : u \in S => Stands(u)',
         \A i \in DOMAIN approvals' : approvals'[i].told => approvals'[i].state # "pending",
         promised' => suppressed' /\ \A m \in memories' : m.part = 0 \/ m.turn \in racing'
  PROVE  ConvoInv'
<1>1. ASSUME NEW u \in Convo!Spoken PROVE Stands(u)'
  <2>1. CASE u \in S
    BY <2>1
  <2>2. CASE u \notin S
    BY <2>2, UnmovedStands
  <2> QED
    BY <2>1, <2>2
<1>2. Convo!Spoken' = Convo!Spoken
  BY DEF Convo!Spoken
<1> QED
  BY <1>1, <1>2 DEF ConvoInv

\* Nothing is settled: the count stands.
LEMMA CountStays ==
  ASSUME ConvoInv, Settled' \subseteq Settled, Taken' \subseteq Taken, answers' = answers
  PROVE  Counted'
<1> DEFINE N == Cardinality(Settled)
           M == Cardinality(Taken)
           A == Cardinality(DOMAIN answers)
           N2 == Cardinality(Settled')
           M2 == Cardinality(Taken')
<1>1. N \in Nat /\ M \in Nat /\ A \in Nat /\ N + M <= A
  BY SettledCount DEF ConvoInv, Counted
<1>2. N2 \in Nat /\ N2 <= N /\ M2 \in Nat /\ M2 <= M
  BY SettledCount, FS_Subset, FS_CardinalityType
<1>3. N2 + M2 <= A
  <2> HIDE DEF N, M, A, N2, M2
  <2> QED
    BY <1>1, <1>2
<1> QED
  BY <1>3 DEF Counted

\* One word settles at most one question more.
LEMMA CountGrows ==
  ASSUME ConvoInv, NEW t, t \notin DOMAIN answers, DOMAIN answers' = DOMAIN answers \cup {t}, NEW x,
         \/ Settled' \subseteq Settled \cup {x} /\ Taken' \subseteq Taken
         \/ Settled' \subseteq Settled /\ Taken' \subseteq Taken \cup {x}
  PROVE  Counted'
<1> DEFINE N == Cardinality(Settled)
           M == Cardinality(Taken)
           A == Cardinality(DOMAIN answers)
           N2 == Cardinality(Settled')
           M2 == Cardinality(Taken')
           NX == Cardinality(Settled \cup {x})
           MX == Cardinality(Taken \cup {x})
           A2 == Cardinality(DOMAIN answers \cup {t})
<1>1. N \in Nat /\ M \in Nat /\ A \in Nat /\ N + M <= A
  BY SettledCount DEF ConvoInv, Counted
<1>2. A2 = A + 1
  BY SettledCount, FS_AddElement
<1>3. /\ IsFiniteSet(Settled \cup {x}) /\ NX \in Nat /\ NX <= N + 1
      /\ IsFiniteSet(Taken \cup {x}) /\ MX \in Nat /\ MX <= M + 1
  <2>1. NX = N \/ NX = N + 1
    BY SettledCount, FS_AddElement
  <2>2. MX = M \/ MX = M + 1
    BY SettledCount, FS_AddElement
  <2>3. IsFiniteSet(Settled \cup {x}) /\ IsFiniteSet(Taken \cup {x})
    BY SettledCount, FS_AddElement
  <2> HIDE DEF N, M, NX, MX
  <2> QED
    BY <1>1, <2>1, <2>2, <2>3
<1>4. CASE Settled' \subseteq Settled \cup {x} /\ Taken' \subseteq Taken
  <2>1. N2 \in Nat /\ N2 <= NX /\ M2 \in Nat /\ M2 <= M
    BY <1>3, <1>4, SettledCount, FS_Subset, FS_CardinalityType
  <2>2. N2 + M2 <= A2
    <3> HIDE DEF N, M, A, N2, M2, NX, MX, A2
    <3> QED
      BY <1>1, <1>2, <1>3, <2>1
  <2> QED
    BY <2>2 DEF Counted
<1>5. CASE Settled' \subseteq Settled /\ Taken' \subseteq Taken \cup {x}
  <2>1. N2 \in Nat /\ N2 <= N /\ M2 \in Nat /\ M2 <= MX
    BY <1>3, <1>5, SettledCount, FS_Subset, FS_CardinalityType
  <2>2. N2 + M2 <= A2
    <3> HIDE DEF N, M, A, N2, M2, NX, MX, A2
    <3> QED
      BY <1>1, <1>2, <1>3, <2>1
  <2> QED
    BY <2>2 DEF Counted
<1> QED
  BY <1>4, <1>5

\* The values of a turn that moves are those of a turn.
LEMMA TurnMoves ==
  ASSUME ConvoInv, NEW t \in Convo!Spoken, NEW r \in Said, turns' = [turns EXCEPT ![t] = r]
  PROVE  /\ turns' \in [Convo!Spoken -> Said] /\ turns'[t] = r
         /\ \A u \in Convo!Spoken : u \notin {t} => turns'[u] = turns[u]
BY DEF ConvoInv, ConvoTypes

\* A turn that ends keeps nothing, and stands.
LEMMA EndsStands ==
  ASSUME ConvoInv, NEW t \in Convo!Spoken, Convo!Ends(t)
  PROVE  /\ turns' \in [Convo!Spoken -> Said]
         /\ \A u \in Convo!Spoken : u \notin {t} => turns'[u] = turns[u]
         /\ Stands(t)'
<1> DEFINE r == [Convo!Fresh EXCEPT !.at = "done"]
<1>1. r \in Said /\ r.at = "done"
  <2> DEFINE h == Convo!NoQuestion
  <2>1. h \in {"approval", "offer", "none"} \X Nat
    BY DEF Convo!NoQuestion, Convo!None
  <2> DEFINE f == Convo!Fresh
  <2>2. f = [at |-> "new", kind |-> "chat", waits |-> FALSE, asks |-> 0, left |-> 0,
             doomed |-> {}, heard |-> h]
    BY DEF Convo!Fresh, Convo!None
  <2>3. r = [f EXCEPT !.at = "done"]
    OBVIOUS
  <2> HIDE DEF r, h, f
  <2>4. f \in Said
    BY <2>1, <2>2 DEF Said, Places, Convo!Kinds
  <2> QED
    BY <2>3, <2>4 DEF Said, Places
<1>2. turns' = [turns EXCEPT ![t] = r]
  BY DEF Convo!Ends
<1> HIDE DEF r
<1>3. /\ turns' \in [Convo!Spoken -> Said] /\ turns'[t] = r
      /\ \A u \in Convo!Spoken : u \notin {t} => turns'[u] = turns[u]
  BY <1>1, <1>2, TurnMoves
<1>4. Stands(t)'
  BY <1>1, <1>3 DEF Stands
<1> QED
  BY <1>3, <1>4

\* A turn that goes elsewhere keeps the rest of its values.
LEMMA GoesIs ==
  ASSUME ConvoInv, NEW t \in Convo!Spoken, NEW place \in Places, Convo!Goes(t, place)
  PROVE  /\ turns' \in [Convo!Spoken -> Said]
         /\ \A u \in Convo!Spoken : u \notin {t} => turns'[u] = turns[u]
         /\ turns'[t].at = place /\ turns'[t].kind = turns[t].kind
         /\ turns'[t].asks = turns[t].asks /\ turns'[t].doomed = turns[t].doomed
<1> DEFINE r == [turns[t] EXCEPT !.at = place]
<1>1. turns[t] \in Said
  BY DEF ConvoInv, ConvoTypes
<1>2. r \in Said /\ r.at = place /\ r.kind = turns[t].kind /\ r.asks = turns[t].asks
      /\ r.doomed = turns[t].doomed
  BY <1>1 DEF Said
<1>3. turns' = [turns EXCEPT ![t] = r]
  BY DEF Convo!Goes
<1> HIDE DEF r
<1>4. /\ turns' \in [Convo!Spoken -> Said] /\ turns'[t] = r
      /\ \A u \in Convo!Spoken : u \notin {t} => turns'[u] = turns[u]
  BY <1>2, <1>3, TurnMoves
<1> QED
  BY <1>2, <1>4

\* A turn that moves and touches nothing but itself has only itself to stand for.
LEMMA MovesAlone ==
  ASSUME ConvoInv, NEW t \in Convo!Spoken, turns' \in [Convo!Spoken -> Said],
         \A u \in Convo!Spoken : u \notin {t} => turns'[u] = turns[u],
         UNCHANGED <<approvals, offers, memories, suppressed, answers, racing, promised>>,
         Stands(t)'
  PROVE  ConvoInv'
<1>1. ConvoTypes'
  BY DEF ConvoInv, ConvoTypes, Convo!Spoken, Convo!Memories, Said, Places, Convo!Kinds, Requests, Offered
<1>2. Counted'
  BY DEF ConvoInv, Counted, Settled, Taken
<1>3. OthersMay({t})
  BY DEF OthersMay, ApprovalsGoOn
<1>4. \A i \in DOMAIN approvals' : approvals'[i].told => approvals'[i].state # "pending"
  BY DEF ConvoInv
<1>5. promised' => suppressed' /\ \A m \in memories' : m.part = 0 \/ m.turn \in racing'
  BY DEF ConvoInv
<1>6. \A u \in Convo!Spoken : u \in {t} => Stands(u)'
  <2> TAKE u \in Convo!Spoken
  <2> HAVE u \in {t}
  <2>1. u = t
    OBVIOUS
  <2> QED
    BY <2>1
<1> QED
  BY <1>1, <1>2, <1>3, <1>4, <1>5, <1>6, ConvoMoves

\* What is said is heard against what was last asked.
LEMMA SpeakStep ==
  ASSUME ConvoInv, NEW t \in Convo!Spoken, NEW kind \in Convo!Kinds, NEW waits \in BOOLEAN,
         Convo!Speak(t, kind, waits)
  PROVE  ConvoInv'
<1> DEFINE h == IF kind \in {"yes", "no"} THEN Convo!lastAsked ELSE Convo!NoQuestion
           r == [turns[t] EXCEPT !.at = "reading", !.kind = kind, !.waits = waits, !.heard = h]
<1>1. turns[t] \in Said /\ turns[t].at = "new" /\ Stands(t)
  BY DEF ConvoInv, ConvoTypes, Convo!Speak, Convo!At
<1>2. h \in {"approval", "offer", "none"} \X Nat
  BY LastAskedIs DEF Convo!NoQuestion, Convo!None
<1>3. turns' = [turns EXCEPT ![t] = r]
  BY DEF Convo!Speak
<1> HIDE DEF h
<1>4. r \in Said /\ r.at = "reading" /\ r.asks = turns[t].asks
  BY <1>1, <1>2 DEF Said, Places
<1> HIDE DEF r
<1>5. /\ turns' \in [Convo!Spoken -> Said] /\ turns'[t] = r
      /\ \A u \in Convo!Spoken : u \notin {t} => turns'[u] = turns[u]
  BY <1>3, <1>4, TurnMoves
<1>6. UNCHANGED <<approvals, offers, memories, suppressed, answers, racing, promised>>
  BY DEF Convo!Speak
<1>7. Stands(t)'
  BY <1>1, <1>4, <1>5, <1>6 DEF Stands
<1> QED
  BY <1>5, <1>6, <1>7, MovesAlone

\* Work begins only where nothing was asked yet, and the request was not an answer.
LEMMA BeginStep ==
  ASSUME ConvoInv, NEW t \in Convo!Spoken, Convo!Begin(t)
  PROVE  ConvoInv'
<1>1. Convo!Goes(t, "working") /\ turns[t].at = "reading" /\ Stands(t) /\ "working" \in Places
  BY DEF ConvoInv, Convo!Begin, Convo!At, Places
<1>2. /\ turns' \in [Convo!Spoken -> Said]
      /\ \A u \in Convo!Spoken : u \notin {t} => turns'[u] = turns[u]
      /\ turns'[t].at = "working" /\ turns'[t].asks = turns[t].asks
  BY <1>1, GoesIs
<1>3. UNCHANGED <<approvals, offers, memories, suppressed, answers, racing, promised>>
  BY DEF Convo!Begin
<1>4. Stands(t)'
  BY <1>1, <1>2 DEF Stands
<1> QED
  BY <1>2, <1>3, <1>4, MovesAlone

\* Whoever was told yes goes on, on an approval that is granted.
LEMMA WokenStep ==
  ASSUME ConvoInv, NEW t \in Convo!Spoken, Convo!Woken(t)
  PROVE  ConvoInv'
<1>1. UNCHANGED <<approvals, offers, memories, suppressed, answers, racing, promised>>
  BY DEF Convo!Woken
<1>2. CASE approvals[turns[t].asks].state = "approved"
  <2>1. /\ Convo!Goes(t, "working") /\ turns[t].at = "waiting" /\ Stands(t) /\ "working" \in Places
        /\ approvals[turns[t].asks].told
    BY <1>2 DEF ConvoInv, Convo!Woken, Convo!At, Places
  <2>2. /\ turns' \in [Convo!Spoken -> Said]
        /\ \A u \in Convo!Spoken : u \notin {t} => turns'[u] = turns[u]
        /\ turns'[t].at = "working" /\ turns'[t].asks = turns[t].asks
    BY <2>1, GoesIs
  <2>3. Stands(t)'
    BY <1>1, <1>2, <2>1, <2>2 DEF Stands
  <2> QED
    BY <1>1, <2>2, <2>3, MovesAlone
<1>3. CASE approvals[turns[t].asks].state # "approved"
  <2>1. Convo!Ends(t)
    BY <1>3 DEF Convo!Woken
  <2> QED
    BY <1>1, <2>1, EndsStands, MovesAlone
<1> QED
  BY <1>2, <1>3

\* A turn starts to write only while memory is not suppressed.
LEMMA WorkEndsStep ==
  ASSUME ConvoInv, NEW t \in Convo!Spoken, NEW n \in 0..2, Convo!WorkEnds(t, n)
  PROVE  ConvoInv'
<1>1. UNCHANGED <<approvals, offers, memories, suppressed, answers, racing, promised>>
  BY DEF Convo!WorkEnds
<1>2. CASE n = 0
  <2>1. Convo!Ends(t)
    BY <1>2 DEF Convo!WorkEnds
  <2> QED
    BY <1>1, <2>1, EndsStands, MovesAlone
<1>3. CASE n # 0
  <2> DEFINE r == [turns[t] EXCEPT !.at = "writing", !.left = n]
  <2>1. turns[t] \in Said /\ ~suppressed
    BY <1>3 DEF ConvoInv, ConvoTypes, Convo!WorkEnds
  <2>2. r \in Said /\ r.at = "writing"
    BY <2>1 DEF Said, Places
  <2>3. turns' = [turns EXCEPT ![t] = r]
    BY <1>3 DEF Convo!WorkEnds
  <2> HIDE DEF r
  <2>4. /\ turns' \in [Convo!Spoken -> Said] /\ turns'[t] = r
        /\ \A u \in Convo!Spoken : u \notin {t} => turns'[u] = turns[u]
    BY <2>2, <2>3, TurnMoves
  <2>5. Stands(t)'
    BY <1>1, <2>1, <2>2, <2>4 DEF Stands
  <2> QED
    BY <1>1, <2>4, <2>5, MovesAlone
<1> QED
  BY <1>2, <1>3

\* A note that is proposed is written later.
LEMMA NoteStep ==
  ASSUME ConvoInv, NEW t \in Convo!Spoken, Convo!Note(t)
  PROVE  ConvoInv'
<1>1. Convo!Goes(t, "noting") /\ "noting" \in Places
  BY DEF Convo!Note, Places
<1>2. /\ turns' \in [Convo!Spoken -> Said]
      /\ \A u \in Convo!Spoken : u \notin {t} => turns'[u] = turns[u]
      /\ turns'[t].at = "noting"
  BY <1>1, GoesIs
<1>3. UNCHANGED <<approvals, offers, memories, suppressed, answers, racing, promised>>
  BY DEF Convo!Note
<1>4. Stands(t)'
  BY <1>2 DEF Stands
<1> QED
  BY <1>2, <1>3, <1>4, MovesAlone

\* A turn that changes what is in memory, and neither approvals nor offers, stands by memory alone.
LEMMA MemoryMoves ==
  ASSUME ConvoInv, NEW t \in Convo!Spoken, turns' \in [Convo!Spoken -> Said],
         \A u \in Convo!Spoken : u \notin {t} => turns'[u] = turns[u],
         UNCHANGED <<approvals, offers, answers>>, Stands(t)',
         memories' \subseteq Convo!Memories, suppressed' \in BOOLEAN, promised' \in BOOLEAN,
         racing \subseteq racing', suppressed => suppressed',
         suppressed' => suppressed \/ \A u \in Convo!Spoken : turns[u].at = "writing" => u \in racing',
         \A m \in memories' : m \in memories \/ m.part = 0 \/ (suppressed => m.turn \in racing'),
         promised' => suppressed' /\ \A m \in memories' : m.part = 0 \/ m.turn \in racing'
  PROVE  ConvoInv'
<1>1. ConvoTypes'
  BY DEF ConvoInv, ConvoTypes, Convo!Spoken, Convo!Memories, Said, Places, Convo!Kinds, Requests, Offered
<1>2. Counted'
  BY DEF ConvoInv, Counted, Settled, Taken
<1>3. OthersMay({t})
  BY DEF OthersMay, ApprovalsGoOn
<1>4. \A i \in DOMAIN approvals' : approvals'[i].told => approvals'[i].state # "pending"
  BY DEF ConvoInv
<1>6. \A u \in Convo!Spoken : u \in {t} => Stands(u)'
  <2> TAKE u \in Convo!Spoken
  <2> HAVE u \in {t}
  <2>1. u = t
    OBVIOUS
  <2> QED
    BY <2>1
<1> QED
  BY <1>1, <1>2, <1>3, <1>4, <1>6, ConvoMoves

\* A record has come back, of a turn that was already writing.
LEMMA WrittenStep ==
  ASSUME ConvoInv, NEW t \in Convo!Spoken, NEW kept \in BOOLEAN, Convo!Written(t, kept)
  PROVE  ConvoInv'
<1> DEFINE m0 == [turn |-> t, part |-> turns[t].left]
<1>1. turns[t] \in Said /\ turns[t].at = "writing" /\ Stands(t)
  BY DEF ConvoInv, ConvoTypes, Convo!Written, Convo!At
<1>2. m0 \in Convo!Memories /\ m0.turn = t
  BY <1>1 DEF Said, Convo!Memories
<1>3. memories' = IF kept THEN memories \cup {m0} ELSE memories
  BY DEF Convo!Written
<1> HIDE DEF m0
<1>4. suppressed => t \in racing
  BY <1>1 DEF Stands
<1>5. /\ UNCHANGED <<approvals, offers, answers>>
      /\ suppressed' = suppressed /\ racing' = racing /\ promised' = promised
  BY DEF Convo!Written
<1>6. /\ memories' \subseteq Convo!Memories
      /\ \A m \in memories' : m \in memories \/ m = m0
  BY <1>2, <1>3 DEF ConvoInv, ConvoTypes
<1>7. \A m \in memories' : m \in memories \/ m.part = 0 \/ (suppressed => m.turn \in racing')
  BY <1>2, <1>4, <1>5, <1>6
<1>8. promised' => suppressed' /\ \A m \in memories' : m.part = 0 \/ m.turn \in racing'
  BY <1>2, <1>4, <1>5, <1>6 DEF ConvoInv
<1>9. /\ turns' \in [Convo!Spoken -> Said]
      /\ \A u \in Convo!Spoken : u \notin {t} => turns'[u] = turns[u]
      /\ Stands(t)'
  <2>1. CASE turns[t].left = 1
    <3>1. Convo!Ends(t)
      BY <2>1 DEF Convo!Written
    <3> QED
      BY <3>1, EndsStands
  <2>2. CASE turns[t].left # 1
    <3> DEFINE r == [turns[t] EXCEPT !.left = 1]
    <3>1. r \in Said /\ r.at = "writing"
      BY <1>1 DEF Said
    <3>2. turns' = [turns EXCEPT ![t] = r]
      BY <2>2 DEF Convo!Written
    <3> HIDE DEF r
    <3>3. /\ turns' \in [Convo!Spoken -> Said] /\ turns'[t] = r
          /\ \A u \in Convo!Spoken : u \notin {t} => turns'[u] = turns[u]
      BY <3>1, <3>2, TurnMoves
    <3>4. Stands(t)'
      BY <1>4, <1>5, <3>1, <3>3 DEF Stands
    <3> QED
      BY <3>3, <3>4
  <2> QED
    BY <2>1, <2>2
<1>10. suppressed' \in BOOLEAN /\ promised' \in BOOLEAN
  BY <1>5 DEF ConvoInv, ConvoTypes
<1> QED
  BY <1>5, <1>6, <1>7, <1>8, <1>9, <1>10, MemoryMoves

\* What the owner asked to be remembered is kept in any case.
LEMMA NotedStep ==
  ASSUME ConvoInv, NEW t \in Convo!Spoken, NEW kept \in BOOLEAN, Convo!Noted(t, kept)
  PROVE  ConvoInv'
<1> DEFINE m0 == [turn |-> t, part |-> 0]
<1>2. m0 \in Convo!Memories /\ m0.part = 0
  BY DEF Convo!Memories
<1>3. memories' = IF kept THEN memories \cup {m0} ELSE memories
  BY DEF Convo!Noted
<1> HIDE DEF m0
<1>5. /\ UNCHANGED <<approvals, offers, answers>>
      /\ suppressed' = suppressed /\ racing' = racing /\ promised' = promised
  BY DEF Convo!Noted
<1>6. /\ memories' \subseteq Convo!Memories
      /\ \A m \in memories' : m \in memories \/ m = m0
  BY <1>2, <1>3 DEF ConvoInv, ConvoTypes
<1>7. \A m \in memories' : m \in memories \/ m.part = 0 \/ (suppressed => m.turn \in racing')
  BY <1>2, <1>6
<1>8. promised' => suppressed' /\ \A m \in memories' : m.part = 0 \/ m.turn \in racing'
  BY <1>2, <1>5, <1>6 DEF ConvoInv
<1>9. Convo!Ends(t)
  BY DEF Convo!Noted
<1>10. suppressed' \in BOOLEAN /\ promised' \in BOOLEAN
  BY <1>5 DEF ConvoInv, ConvoTypes
<1> QED
  BY <1>5, <1>6, <1>7, <1>8, <1>9, <1>10, EndsStands, MemoryMoves

\* Whoever is writing when memory is suppressed races with it; all that is there is to go.
LEMMA SuppressStep ==
  ASSUME ConvoInv, NEW t \in Convo!Spoken, Convo!Suppress(t)
  PROVE  ConvoInv'
<1> DEFINE r == [turns[t] EXCEPT !.at = "forgetting", !.doomed = memories]
<1>1. turns[t] \in Said /\ memories \subseteq Convo!Memories
  BY DEF ConvoInv, ConvoTypes
<1>2. r \in Said /\ r.at = "forgetting" /\ r.doomed = memories
  BY <1>1 DEF Said, Places
<1>3. turns' = [turns EXCEPT ![t] = r]
  BY DEF Convo!Suppress
<1> HIDE DEF r
<1>4. /\ turns' \in [Convo!Spoken -> Said] /\ turns'[t] = r
      /\ \A u \in Convo!Spoken : u \notin {t} => turns'[u] = turns[u]
  BY <1>2, <1>3, TurnMoves
<1>5. /\ UNCHANGED <<approvals, offers, answers>>
      /\ suppressed' = TRUE /\ memories' = memories /\ promised' = promised
  BY DEF Convo!Suppress
<1>6. /\ racing \subseteq racing'
      /\ \A u \in Convo!Spoken : turns[u].at = "writing" => u \in racing'
  BY DEF Convo!Suppress, Convo!At
<1>7. Stands(t)'
  BY <1>2, <1>4, <1>5 DEF Stands
<1>8. promised' => suppressed' /\ \A m \in memories' : m.part = 0 \/ m.turn \in racing'
  BY <1>5, <1>6 DEF ConvoInv
<1>9. memories' \subseteq Convo!Memories /\ suppressed' \in BOOLEAN /\ promised' \in BOOLEAN
  BY <1>1, <1>5 DEF ConvoInv, ConvoTypes
<1>10. \A m \in memories' : m \in memories \/ m.part = 0 \/ (suppressed => m.turn \in racing')
  BY <1>5
<1> QED
  BY <1>4, <1>5, <1>6, <1>7, <1>8, <1>9, <1>10, MemoryMoves

\* One record goes; the rest of what should not be there is still to go.
LEMMA ForgetsStep ==
  ASSUME ConvoInv, NEW t \in Convo!Spoken, NEW m0 \in Convo!Memories, Convo!Forgets(t, m0)
  PROVE  ConvoInv'
<1> DEFINE d == turns[t].doomed \ {m0}
           r == [turns[t] EXCEPT !.doomed = d]
<1>1. turns[t] \in Said /\ turns[t].at = "forgetting" /\ Stands(t)
  BY DEF ConvoInv, ConvoTypes, Convo!Forgets, Convo!At
<1>2. d \in SUBSET Convo!Memories
  BY <1>1 DEF Said
<1>3. turns' = [turns EXCEPT ![t] = r]
  BY DEF Convo!Forgets
<1>4. \A m \in turns[t].doomed : m \in d \/ m = m0
  OBVIOUS
<1> HIDE DEF d
<1>5. r \in Said /\ r.at = "forgetting" /\ r.doomed = d
  BY <1>1, <1>2 DEF Said
<1> HIDE DEF r
<1>6. /\ turns' \in [Convo!Spoken -> Said] /\ turns'[t] = r
      /\ \A u \in Convo!Spoken : u \notin {t} => turns'[u] = turns[u]
  BY <1>3, <1>5, TurnMoves
<1>7. /\ UNCHANGED <<approvals, offers, answers>>
      /\ suppressed' = suppressed /\ racing' = racing /\ promised' = promised
      /\ memories' = memories \ {m0}
  BY DEF Convo!Forgets
<1>8. suppressed /\ \A m \in memories : m \in turns[t].doomed \/ m.part = 0 \/ m.turn \in racing
  BY <1>1 DEF Stands
<1>9. Stands(t)'
  <2>1. \A m \in memories' : m \in r.doomed \/ m.part = 0 \/ m.turn \in racing'
    BY <1>4, <1>5, <1>7, <1>8
  <2> QED
    BY <1>5, <1>6, <1>7, <1>8, <2>1 DEF Stands
<1>10. memories' \subseteq Convo!Memories /\ suppressed' \in BOOLEAN /\ promised' \in BOOLEAN
  BY <1>7 DEF ConvoInv, ConvoTypes
<1>11. promised' => suppressed' /\ \A m \in memories' : m.part = 0 \/ m.turn \in racing'
  BY <1>7 DEF ConvoInv
<1>12. \A m \in memories' : m \in memories
  BY <1>7
<1> QED
  BY <1>6, <1>7, <1>9, <1>10, <1>11, <1>12, MemoryMoves

\* It is promised only when nothing is left to remove.
LEMMA WillNotRememberStep ==
  ASSUME ConvoInv, NEW t \in Convo!Spoken, Convo!WillNotRemember(t)
  PROVE  ConvoInv'
<1>1. turns[t].at = "forgetting" /\ turns[t].doomed = {} /\ Stands(t) /\ Convo!Ends(t)
  BY DEF ConvoInv, Convo!WillNotRemember, Convo!At
<1>2. suppressed /\ \A m \in memories : m.part = 0 \/ m.turn \in racing
  BY <1>1 DEF Stands
<1>3. /\ UNCHANGED <<approvals, offers, answers>> /\ promised' = TRUE
      /\ suppressed' = suppressed /\ racing' = racing /\ memories' = memories
  BY DEF Convo!WillNotRemember
<1>4. memories' \subseteq Convo!Memories /\ suppressed' \in BOOLEAN /\ promised' \in BOOLEAN
  BY <1>3 DEF ConvoInv, ConvoTypes
<1> QED
  BY <1>1, <1>2, <1>3, <1>4, EndsStands, MemoryMoves

\* A turn that touches approvals and offers, and no memory.
LEMMA ApprovalsMove ==
  ASSUME ConvoInv, NEW S, S \subseteq Convo!Spoken, turns' \in [Convo!Spoken -> Said],
         \A u \in Convo!Spoken : u \notin S => turns'[u] = turns[u],
         approvals' \in Seq(Requests), offers' \in Seq(Offered), ApprovalsGoOn,
         DOMAIN answers' \subseteq DOMAIN answers \cup S, Counted',
         UNCHANGED <<memories, suppressed, racing, promised>>,
         \A i \in DOMAIN approvals' : approvals'[i].told => approvals'[i].state # "pending",
         \A u \in Convo!Spoken : u \in S => Stands(u)'
  PROVE  ConvoInv'
<1>1. ConvoTypes'
  BY DEF ConvoInv, ConvoTypes, Convo!Spoken, Convo!Memories, Said, Places, Convo!Kinds, Requests, Offered
<1>2. OthersMay(S)
  BY DEF OthersMay
<1>3. promised' => suppressed' /\ \A m \in memories' : m.part = 0 \/ m.turn \in racing'
  BY DEF ConvoInv
<1> QED
  BY <1>1, <1>2, <1>3, ConvoMoves

\* One turn is one of those that move.
LEMMA OneMoves ==
  ASSUME NEW t \in Convo!Spoken, Stands(t)'
  PROVE  {t} \subseteq Convo!Spoken /\ \A u \in Convo!Spoken : u \in {t} => Stands(u)'
<1>1. ASSUME NEW u \in Convo!Spoken, u \in {t} PROVE Stands(u)'
  <2>1. u = t
    BY <1>1
  <2> QED
    BY <2>1
<1> QED
  BY <1>1

\* What is overdue is marked, and nothing else.
LEMMA ListedIs ==
  ConvoInv =>
    /\ Convo!Listed \in Seq(Requests) /\ DOMAIN Convo!Listed = DOMAIN approvals
    /\ Len(Convo!Listed) = Len(approvals)
    /\ \A i \in DOMAIN approvals :
         /\ Convo!Listed[i] \in Requests /\ Convo!Listed[i].told = approvals[i].told
         /\ Convo!Listed[i].state = approvals[i].state
            \/ (approvals[i].state = "pending" /\ Convo!Listed[i].state = "expired")
<1> SUFFICES ASSUME ConvoInv
             PROVE  /\ Convo!Listed \in Seq(Requests) /\ DOMAIN Convo!Listed = DOMAIN approvals
                    /\ Len(Convo!Listed) = Len(approvals)
                    /\ \A i \in DOMAIN approvals :
                         /\ Convo!Listed[i] \in Requests /\ Convo!Listed[i].told = approvals[i].told
                         /\ Convo!Listed[i].state = approvals[i].state
                            \/ (approvals[i].state = "pending" /\ Convo!Listed[i].state = "expired")
  OBVIOUS
<1>1. DOMAIN approvals = 1..Len(approvals) /\ Len(approvals) \in Nat
  BY OpenOnes
<1>2. ASSUME NEW i \in DOMAIN approvals
      PROVE  /\ Convo!Listed[i] \in Requests /\ Convo!Listed[i].told = approvals[i].told
             /\ Convo!Listed[i].state = approvals[i].state
                \/ (approvals[i].state = "pending" /\ Convo!Listed[i].state = "expired")
  <2> DEFINE a == approvals[i]
             e == [a EXCEPT !.state = "expired"]
  <2>1. a \in Requests
    BY <1>1, ElementOfSeq DEF ConvoInv, ConvoTypes
  <2>2. Convo!Listed[i] = IF a.state = "pending" /\ a.due THEN e ELSE a
    BY DEF Convo!Listed
  <2> HIDE DEF a
  <2>3. e \in Requests /\ e.told = a.told /\ e.state = "expired"
    BY <2>1 DEF Requests
  <2> HIDE DEF e
  <2>4. /\ Convo!Listed[i] \in Requests /\ Convo!Listed[i].told = a.told
        /\ Convo!Listed[i].state = a.state
           \/ (a.state = "pending" /\ Convo!Listed[i].state = "expired")
    BY <2>1, <2>2, <2>3
  <2> QED
    BY <2>4 DEF a
<1>3. DOMAIN Convo!Listed = DOMAIN approvals
  BY DEF Convo!Listed
<1>4. Convo!Listed = [i \in 1..Len(approvals) |-> Convo!Listed[i]]
  BY <1>1 DEF Convo!Listed
<1> DEFINE l == Convo!Listed
<1> HIDE DEF l
<1>5. l \in Seq(Requests) /\ Len(l) = Len(approvals)
  BY <1>1, <1>2, <1>3, <1>4, IsASeq, LenProperties DEF l
<1> QED
  BY <1>2, <1>3, <1>5 DEF l

\* Marking what is overdue settles nothing.
LEMMA ListedGoesOn ==
  ASSUME ConvoInv, approvals' = Convo!Listed
  PROVE  /\ approvals' \in Seq(Requests) /\ ApprovalsGoOn /\ Settled' \subseteq Settled
         /\ \A i \in DOMAIN approvals' : approvals'[i].told => approvals'[i].state # "pending"
<1>1. ApprovalsGoOn
  BY ListedIs DEF ApprovalsGoOn, ConvoInv
<1>2. Settled' \subseteq Settled
  BY ListedIs DEF Settled
<1>3. \A i \in DOMAIN approvals' : approvals'[i].told => approvals'[i].state # "pending"
  BY ListedIs DEF ConvoInv
<1> QED
  BY <1>1, <1>2, <1>3, ListedIs

\* A word with nothing to answer only marks what is overdue.
LEMMA NothingAskedStep ==
  ASSUME ConvoInv, NEW t \in Convo!Spoken, Convo!NothingAsked(t)
  PROVE  ConvoInv'
<1>1. /\ approvals' = Convo!Listed /\ Convo!Ends(t)
      /\ offers' = offers /\ answers' = answers
      /\ UNCHANGED <<memories, suppressed, racing, promised>>
  BY DEF Convo!NothingAsked
<1>2. Taken' \subseteq Taken
  BY <1>1 DEF Taken
<1>3. Counted'
  BY <1>1, <1>2, ListedGoesOn, CountStays
<1>4. /\ turns' \in [Convo!Spoken -> Said]
      /\ \A u \in Convo!Spoken : u \notin {t} => turns'[u] = turns[u]
      /\ Stands(t)'
  BY <1>1, EndsStands
<1>5. {t} \subseteq Convo!Spoken /\ \A u \in Convo!Spoken : u \in {t} => Stands(u)'
  BY <1>4, OneMoves
<1>6. offers' \in Seq(Offered) /\ DOMAIN answers' \subseteq DOMAIN answers \cup {t}
  BY <1>1 DEF ConvoInv, ConvoTypes
<1> QED
  BY <1>1, <1>3, <1>4, <1>5, <1>6, ListedGoesOn, ApprovalsMove

\* One approval changes, and stays one.
LEMMA OneChanges ==
  ASSUME NEW s \in Seq(Requests), NEW i \in DOMAIN s, NEW e \in Requests
  PROVE  /\ [s EXCEPT ![i] = e] \in Seq(Requests) /\ DOMAIN [s EXCEPT ![i] = e] = DOMAIN s
         /\ [s EXCEPT ![i] = e][i] = e
         /\ \A j \in DOMAIN s : j # i => [s EXCEPT ![i] = e][j] = s[j]
<1>1. i \in 1..Len(s)
  BY LenProperties
<1>2. [s EXCEPT ![i] = e] \in Seq(Requests)
  BY <1>1, ExceptSeq
<1> QED
  BY <1>2

\* A word settles the first open approval, which was settled by no other.
LEMMA AnswerApprovalStep ==
  ASSUME ConvoInv, NEW t \in Convo!Spoken, Convo!AnswerApproval(t)
  PROVE  ConvoInv'
<1> DEFINE i == Convo!Min(Convo!open)
           word == IF turns[t].kind = "yes" THEN "approved" ELSE "rejected"
           l == Convo!Listed
           e == [l[i] EXCEPT !.state = word]
           r == [turns[t] EXCEPT !.at = "announcing", !.asks = i, !.heard = Convo!NoQuestion]
<1>1. /\ turns[t] \in Said /\ turns[t].at = "reading" /\ turns[t].kind \in {"yes", "no"}
      /\ Stands(t) /\ t \notin DOMAIN answers
  BY DEF ConvoInv, ConvoTypes, Convo!AnswerApproval, Convo!At, Stands
<1>2. i \in DOMAIN approvals /\ approvals[i].state = "pending" /\ i \in Nat
  <2>1. i \in Convo!open
    BY OpenOnes DEF Convo!AnswerApproval
  <2>2. i \in 1..Len(approvals) /\ Len(approvals) \in Nat
    BY <2>1, OpenOnes
  <2> HIDE DEF i
  <2> QED
    BY <2>1, <2>2, OpenOnes DEF Convo!open, Convo!Live
<1>3. approvals' = [l EXCEPT ![i] = e]
  BY DEF Convo!AnswerApproval
<1>4. turns' = [turns EXCEPT ![t] = r]
  BY DEF Convo!AnswerApproval
<1>5. word \in {"approved", "rejected"}
  OBVIOUS
<1>6. Convo!NoQuestion \in {"approval", "offer", "none"} \X Nat
  BY DEF Convo!NoQuestion, Convo!None
<1>7. /\ l \in Seq(Requests) /\ DOMAIN l = DOMAIN approvals
      /\ \A j \in DOMAIN approvals :
           /\ l[j] \in Requests /\ l[j].told = approvals[j].told
           /\ l[j].state = approvals[j].state
              \/ (approvals[j].state = "pending" /\ l[j].state = "expired")
  BY ListedIs
<1>8. ~approvals[i].told
  BY <1>2 DEF ConvoInv
<1> HIDE DEF i, word, l
<1>9. r \in Said /\ r.at = "announcing" /\ r.asks = i
  BY <1>1, <1>2, <1>6 DEF Said, Places
<1>10. e \in Requests /\ e.state = word /\ e.told = approvals[i].told
  BY <1>2, <1>5, <1>7 DEF Requests
<1> HIDE DEF e, r
<1>11. /\ turns' \in [Convo!Spoken -> Said] /\ turns'[t] = r
       /\ \A u \in Convo!Spoken : u \notin {t} => turns'[u] = turns[u]
  BY <1>4, <1>9, TurnMoves
<1>12. /\ approvals' \in Seq(Requests) /\ DOMAIN approvals' = DOMAIN approvals
       /\ approvals'[i] = e /\ \A j \in DOMAIN approvals : j # i => approvals'[j] = l[j]
  BY <1>2, <1>3, <1>7, <1>10, OneChanges
<1>13. /\ offers' = offers /\ UNCHANGED <<memories, suppressed, racing, promised>>
       /\ DOMAIN answers' = DOMAIN answers \cup {t}
  BY DEF Convo!AnswerApproval, Convo!Settles
<1>14. ApprovalsGoOn
  BY <1>2, <1>5, <1>7, <1>8, <1>10, <1>12 DEF ApprovalsGoOn
<1>15. \A j \in DOMAIN approvals' : approvals'[j].told => approvals'[j].state # "pending"
  BY <1>2, <1>5, <1>7, <1>10, <1>12 DEF ConvoInv
<1>16. Settled' \subseteq Settled \cup {i} /\ Taken' \subseteq Taken
  <2>1. Settled' \subseteq Settled \cup {i}
    BY <1>7, <1>12 DEF Settled
  <2> QED
    BY <2>1, <1>13 DEF Taken
<1>17. Counted'
  BY <1>1, <1>13, <1>16, CountGrows
<1>18. Stands(t)'
  BY <1>2, <1>5, <1>9, <1>10, <1>11, <1>12 DEF Stands
<1>19. {t} \subseteq Convo!Spoken /\ \A u \in Convo!Spoken : u \in {t} => Stands(u)'
  BY <1>18, OneMoves
<1>20. offers' \in Seq(Offered) /\ DOMAIN answers' \subseteq DOMAIN answers \cup {t}
  BY <1>13 DEF ConvoInv, ConvoTypes
<1> QED
  BY <1>11, <1>12, <1>13, <1>14, <1>15, <1>17, <1>19, <1>20, ApprovalsMove

\* The word goes to the latest offer when no approval is open.
LEMMA AnswerOfferStep ==
  ASSUME ConvoInv, NEW t \in Convo!Spoken, NEW place \in {"done", "working", "reading"},
         NEW kind \in Convo!Kinds, Convo!AnswerOffer(t, place, kind)
  PROVE  ConvoInv'
<1> DEFINE o == Convo!Max(Convo!openOffers)
           word == IF turns[t].kind = "yes" THEN "accepted" ELSE "declined"
<1>1. /\ turns[t] \in Said /\ turns[t].at = "reading" /\ turns[t].kind \in {"yes", "no"}
      /\ Stands(t) /\ t \notin DOMAIN answers
  BY DEF ConvoInv, ConvoTypes, Convo!AnswerOffer, Convo!At, Stands
<1>2. /\ approvals' = Convo!Listed /\ offers' = [offers EXCEPT ![o] = word]
      /\ UNCHANGED <<memories, suppressed, racing, promised>>
      /\ DOMAIN answers' = DOMAIN answers \cup {t}
  BY DEF Convo!AnswerOffer, Convo!Settles
<1>3. o \in 1..Len(offers) /\ DOMAIN offers = 1..Len(offers) /\ offers \in Seq(Offered)
  BY OpenOnes DEF Convo!AnswerOffer, ConvoInv, ConvoTypes
<1>4. word \in Offered
  BY DEF Offered
<1>5. Convo!Ends(t)
      \/ (place \in {"working", "reading"} /\ (place = "reading" => kind \in {"work", "chat"})
          /\ turns' = [turns EXCEPT ![t].at = place, ![t].kind = kind, ![t].heard = Convo!NoQuestion])
  BY DEF Convo!AnswerOffer
<1> HIDE DEF o, word
<1>6. offers' \in Seq(Offered)
  BY <1>2, <1>3, <1>4, ExceptSeq
<1>7. Taken' \subseteq Taken \cup {o}
  BY <1>2, <1>3 DEF Taken
<1>8. Counted'
  BY <1>1, <1>2, <1>7, ListedGoesOn, CountGrows
<1>9. /\ turns' \in [Convo!Spoken -> Said]
      /\ \A u \in Convo!Spoken : u \notin {t} => turns'[u] = turns[u]
      /\ Stands(t)'
  <2>1. CASE Convo!Ends(t)
    BY <2>1, EndsStands
  <2>2. CASE ~Convo!Ends(t)
    <3> DEFINE r == [turns[t] EXCEPT !.at = place, !.kind = kind, !.heard = Convo!NoQuestion]
    <3>1. Convo!NoQuestion \in {"approval", "offer", "none"} \X Nat
      BY DEF Convo!NoQuestion, Convo!None
    <3>2. turns' = [turns EXCEPT ![t] = r]
      BY <1>5, <2>2
    <3>3. r \in Said /\ r.at = place /\ r.kind = kind /\ r.asks = turns[t].asks
      BY <1>1, <3>1 DEF Said, Places
    <3> HIDE DEF r
    <3>4. /\ turns' \in [Convo!Spoken -> Said] /\ turns'[t] = r
          /\ \A u \in Convo!Spoken : u \notin {t} => turns'[u] = turns[u]
      BY <3>2, <3>3, TurnMoves
    <3>5. turns[t].asks = 0 /\ place \in {"working", "reading"}
          /\ (place = "reading" => kind \in {"work", "chat"})
      BY <1>1, <1>5, <2>2 DEF Stands
    <3>6. Stands(t)'
      BY <3>3, <3>4, <3>5 DEF Stands
    <3> QED
      BY <3>4, <3>6
  <2> QED
    BY <2>1, <2>2
<1>10. {t} \subseteq Convo!Spoken /\ \A u \in Convo!Spoken : u \in {t} => Stands(u)'
  BY <1>9, OneMoves
<1>11. DOMAIN answers' \subseteq DOMAIN answers \cup {t}
  BY <1>2
<1> QED
  BY <1>2, <1>6, <1>8, <1>9, <1>10, <1>11, ListedGoesOn, ApprovalsMove

\* What was decided is told to whoever waits for it.
LEMMA AnnouncedStep ==
  ASSUME ConvoInv, NEW t \in Convo!Spoken, Convo!Announced(t)
  PROVE  ConvoInv'
<1> DEFINE i == turns[t].asks
           e == [approvals[i] EXCEPT !.told = TRUE]
<1>1. turns[t].at = "announcing" /\ Stands(t) /\ Convo!Ends(t)
  BY DEF ConvoInv, Convo!Announced, Convo!At
<1>2. /\ approvals' = [approvals EXCEPT ![i] = e] /\ offers' = offers /\ answers' = answers
      /\ UNCHANGED <<memories, suppressed, racing, promised>>
  BY DEF Convo!Announced
<1>3. i \in DOMAIN approvals /\ approvals[i].state # "pending" /\ approvals \in Seq(Requests)
  BY <1>1 DEF Stands, ConvoInv, ConvoTypes
<1>4. approvals[i] \in Requests
  BY <1>3, OpenOnes, ElementOfSeq
<1> HIDE DEF i
<1>5. e \in Requests /\ e.state = approvals[i].state
  BY <1>4 DEF Requests
<1> HIDE DEF e
<1>6. /\ approvals' \in Seq(Requests) /\ DOMAIN approvals' = DOMAIN approvals /\ approvals'[i] = e
      /\ \A j \in DOMAIN approvals : j # i => approvals'[j] = approvals[j]
  BY <1>2, <1>3, <1>5, OneChanges
<1>7. ApprovalsGoOn
  <2>1. e.told
    BY <1>4 DEF e, Requests
  <2> QED
    BY <1>3, <1>5, <1>6, <2>1 DEF ApprovalsGoOn
<1>8. \A j \in DOMAIN approvals' : approvals'[j].told => approvals'[j].state # "pending"
  BY <1>3, <1>5, <1>6 DEF ConvoInv
<1>9. Settled' \subseteq Settled /\ Taken' \subseteq Taken
  BY <1>2, <1>5, <1>6 DEF Settled, Taken
<1>10. Counted'
  BY <1>2, <1>9, CountStays
<1>11. /\ turns' \in [Convo!Spoken -> Said]
       /\ \A u \in Convo!Spoken : u \notin {t} => turns'[u] = turns[u]
       /\ Stands(t)'
  BY <1>1, EndsStands
<1>12. {t} \subseteq Convo!Spoken /\ \A u \in Convo!Spoken : u \in {t} => Stands(u)'
  BY <1>11, OneMoves
<1>13. offers' \in Seq(Offered) /\ DOMAIN answers' \subseteq DOMAIN answers \cup {t}
  BY <1>2 DEF ConvoInv, ConvoTypes
<1> QED
  BY <1>2, <1>6, <1>7, <1>8, <1>10, <1>11, <1>12, <1>13, ApprovalsMove

\* A deadline that passes takes back what was decided and not yet announced, and nothing else.
LEMMA TimesOutStep ==
  ASSUME ConvoInv, NEW t \in Convo!Spoken, Convo!TimesOut(t)
  PROVE  ConvoInv'
<1> DEFINE i == turns[t].asks
           e == [approvals[i] EXCEPT !.state = "expired"]
<1>1. turns[t].at = "waiting" /\ Stands(t) /\ Convo!Ends(t) /\ ~approvals[i].told
  BY DEF ConvoInv, Convo!TimesOut, Convo!At
<1>2. /\ approvals' = [approvals EXCEPT ![i] = e] /\ offers' = offers /\ answers' = answers
      /\ UNCHANGED <<memories, suppressed, racing, promised>>
  BY DEF Convo!TimesOut
<1>3. i \in DOMAIN approvals /\ approvals \in Seq(Requests)
  BY <1>1 DEF Stands, ConvoInv, ConvoTypes
<1>4. approvals[i] \in Requests
  BY <1>3, OpenOnes, ElementOfSeq
<1> HIDE DEF i
<1>5. e \in Requests /\ e.state = "expired" /\ e.told = approvals[i].told
  BY <1>4 DEF Requests
<1> HIDE DEF e
<1>6. /\ approvals' \in Seq(Requests) /\ DOMAIN approvals' = DOMAIN approvals /\ approvals'[i] = e
      /\ \A j \in DOMAIN approvals : j # i => approvals'[j] = approvals[j]
  BY <1>2, <1>3, <1>5, OneChanges
<1>7. ApprovalsGoOn
  BY <1>1, <1>3, <1>5, <1>6 DEF ApprovalsGoOn, i
<1>8. \A j \in DOMAIN approvals' : approvals'[j].told => approvals'[j].state # "pending"
  BY <1>3, <1>5, <1>6 DEF ConvoInv
<1>9. Settled' \subseteq Settled /\ Taken' \subseteq Taken
  BY <1>2, <1>5, <1>6 DEF Settled, Taken
<1>10. Counted'
  BY <1>2, <1>9, CountStays
<1>11. /\ turns' \in [Convo!Spoken -> Said]
       /\ \A u \in Convo!Spoken : u \notin {t} => turns'[u] = turns[u]
       /\ Stands(t)'
  BY <1>1, EndsStands
<1>12. {t} \subseteq Convo!Spoken /\ \A u \in Convo!Spoken : u \in {t} => Stands(u)'
  BY <1>11, OneMoves
<1>13. offers' \in Seq(Offered) /\ DOMAIN answers' \subseteq DOMAIN answers \cup {t}
  BY <1>2 DEF ConvoInv, ConvoTypes
<1> QED
  BY <1>2, <1>6, <1>7, <1>8, <1>10, <1>11, <1>12, <1>13, ApprovalsMove

\* A step that needs the owner asks for one approval more.
LEMMA AskStep ==
  ASSUME ConvoInv, NEW t \in Convo!Spoken, Convo!Ask(t)
  PROVE  ConvoInv'
<1> DEFINE e == [state |-> "pending", due |-> FALSE, told |-> FALSE]
           n == Len(approvals) + 1
           more == Append(approvals, e)
<1>1. turns[t] \in Said /\ approvals \in Seq(Requests)
  BY DEF ConvoInv, ConvoTypes
<1>2. /\ approvals' = more /\ offers' = offers /\ answers' = answers
      /\ UNCHANGED <<memories, suppressed, racing, promised>>
  BY DEF Convo!Ask
<1>3. e \in Requests /\ e.state = "pending" /\ ~e.told
  BY DEF Requests
<1> HIDE DEF e
<1>4. /\ more \in Seq(Requests) /\ Len(more) = Len(approvals) + 1
      /\ \A j \in 1..Len(approvals) : more[j] = approvals[j]
      /\ more[Len(approvals) + 1] = e
  BY <1>1, <1>3, AppendProperties
<1>5. DOMAIN approvals = 1..Len(approvals) /\ Len(approvals) \in Nat
  BY OpenOnes
<1>6. DOMAIN more = 1..(Len(approvals) + 1)
  BY <1>4, LenProperties
<1>7. /\ n \in Nat /\ n \in DOMAIN more /\ DOMAIN approvals \subseteq DOMAIN more
      /\ \A j \in DOMAIN more : j \in DOMAIN approvals \/ j = n
      /\ \A j \in DOMAIN approvals : more[j] = approvals[j]
      /\ more[n] = e
  <2> HIDE DEF more
  <2> QED
    BY <1>4, <1>5, <1>6
<1> HIDE DEF more, n
<1>8. ApprovalsGoOn
  BY <1>2, <1>7 DEF ApprovalsGoOn
<1>9. \A j \in DOMAIN approvals' : approvals'[j].told => approvals'[j].state # "pending"
  BY <1>2, <1>3, <1>7 DEF ConvoInv
<1>10. Settled' \subseteq Settled /\ Taken' \subseteq Taken
  BY <1>2, <1>3, <1>7 DEF Settled, Taken
<1>11. Counted'
  BY <1>2, <1>10, CountStays
<1>12. /\ turns' \in [Convo!Spoken -> Said]
       /\ \A u \in Convo!Spoken : u \notin {t} => turns'[u] = turns[u]
       /\ Stands(t)'
  <2>1. CASE turns[t].waits
    <3> DEFINE r == [turns[t] EXCEPT !.at = "waiting", !.asks = n]
    <3>1. turns' = [turns EXCEPT ![t] = r]
      BY <2>1 DEF Convo!Ask, n
    <3>2. r \in Said /\ r.at = "waiting" /\ r.asks = n
      BY <1>1, <1>7 DEF Said, Places
    <3> HIDE DEF r
    <3>3. /\ turns' \in [Convo!Spoken -> Said] /\ turns'[t] = r
          /\ \A u \in Convo!Spoken : u \notin {t} => turns'[u] = turns[u]
      BY <3>1, <3>2, TurnMoves
    <3>4. Stands(t)'
      BY <1>2, <1>7, <3>2, <3>3 DEF Stands
    <3> QED
      BY <3>3, <3>4
  <2>2. CASE ~turns[t].waits
    <3>1. Convo!Ends(t)
      BY <2>2 DEF Convo!Ask
    <3> QED
      BY <3>1, EndsStands
  <2> QED
    BY <2>1, <2>2
<1>13. {t} \subseteq Convo!Spoken /\ \A u \in Convo!Spoken : u \in {t} => Stands(u)'
  BY <1>12, OneMoves
<1>14. offers' \in Seq(Offered) /\ DOMAIN answers' \subseteq DOMAIN answers \cup {t}
  BY <1>2 DEF ConvoInv, ConvoTypes
<1>15. approvals' \in Seq(Requests)
  BY <1>2, <1>4 DEF more
<1> QED
  BY <1>2, <1>8, <1>9, <1>11, <1>12, <1>13, <1>14, <1>15, ApprovalsMove

\* Time passes over an approval without deciding it.
LEMMA TimePassesStep ==
  ASSUME ConvoInv, NEW i, Convo!TimePasses(i)
  PROVE  ConvoInv'
<1> DEFINE e == [approvals[i] EXCEPT !.due = TRUE]
<1>1. i \in DOMAIN approvals /\ approvals \in Seq(Requests)
  BY DEF Convo!TimePasses, ConvoInv, ConvoTypes
<1>2. /\ approvals' = [approvals EXCEPT ![i] = e] /\ turns' = turns
      /\ offers' = offers /\ answers' = answers
      /\ UNCHANGED <<memories, suppressed, racing, promised>>
  BY DEF Convo!TimePasses
<1>3. approvals[i] \in Requests
  BY <1>1, OpenOnes, ElementOfSeq
<1>4. e \in Requests /\ e.state = approvals[i].state /\ e.told = approvals[i].told
  BY <1>3 DEF Requests
<1> HIDE DEF e
<1>5. /\ approvals' \in Seq(Requests) /\ DOMAIN approvals' = DOMAIN approvals /\ approvals'[i] = e
      /\ \A j \in DOMAIN approvals : j # i => approvals'[j] = approvals[j]
  BY <1>1, <1>2, <1>4, OneChanges
<1>6. ApprovalsGoOn
  BY <1>1, <1>4, <1>5 DEF ApprovalsGoOn
<1>7. \A j \in DOMAIN approvals' : approvals'[j].told => approvals'[j].state # "pending"
  BY <1>1, <1>4, <1>5 DEF ConvoInv
<1>8. Settled' \subseteq Settled /\ Taken' \subseteq Taken
  BY <1>2, <1>4, <1>5 DEF Settled, Taken
<1>9. Counted'
  BY <1>2, <1>8, CountStays
<1>10. /\ turns' \in [Convo!Spoken -> Said] /\ offers' \in Seq(Offered)
  BY <1>2 DEF ConvoInv, ConvoTypes
<1> DEFINE S == {}
<1>11. /\ S \subseteq Convo!Spoken /\ \A u \in Convo!Spoken : u \notin S => turns'[u] = turns[u]
       /\ \A u \in Convo!Spoken : u \in S => Stands(u)'
       /\ DOMAIN answers' \subseteq DOMAIN answers \cup S
  BY <1>2
<1> HIDE DEF S
<1> QED
  BY <1>2, <1>5, <1>6, <1>7, <1>9, <1>10, <1>11, ApprovalsMove

\* Offers are made and lapse unsettled.
LEMMA OffersStep ==
  ASSUME ConvoInv, Convo!OfferMade \/ \E i \in Convo!openOffers : Convo!OfferLapses(i)
  PROVE  ConvoInv'
<1>1. UNCHANGED <<turns, approvals, memories, suppressed, answers, racing, promised>>
  BY DEF Convo!OfferMade, Convo!OfferLapses
<1>2. offers \in Seq(Offered) /\ DOMAIN offers = 1..Len(offers) /\ Len(offers) \in Nat
  BY OpenOnes DEF ConvoInv, ConvoTypes
<1>3. offers' \in Seq(Offered) /\ Taken' \subseteq Taken
  <2>1. CASE Convo!OfferMade
    <3> DEFINE more == Append(offers, "open")
    <3>1. offers' = more
      BY <2>1 DEF Convo!OfferMade
    <3>2. /\ more \in Seq(Offered) /\ Len(more) = Len(offers) + 1
          /\ \A j \in 1..Len(offers) : more[j] = offers[j]
          /\ more[Len(offers) + 1] = "open"
      BY <1>2, AppendProperties DEF Offered
    <3>3. DOMAIN more = 1..(Len(offers) + 1)
      BY <3>2, LenProperties
    <3>4. \A j \in DOMAIN more : (j \in DOMAIN offers /\ more[j] = offers[j]) \/ more[j] = "open"
      <4> HIDE DEF more
      <4> QED
        BY <1>2, <3>2, <3>3
    <3> HIDE DEF more
    <3> QED
      BY <3>1, <3>2, <3>4 DEF Taken
  <2>2. CASE \E i \in Convo!openOffers : Convo!OfferLapses(i)
    <3>1. PICK i \in Convo!openOffers : offers' = [offers EXCEPT ![i] = "lapsed"]
      BY <2>2 DEF Convo!OfferLapses
    <3>2. i \in 1..Len(offers)
      BY <1>2, OpenOnes
    <3>3. offers' \in Seq(Offered)
      BY <1>2, <3>1, <3>2, ExceptSeq DEF Offered
    <3>4. Taken' \subseteq Taken
      BY <1>2, <3>1, <3>2 DEF Taken
    <3> QED
      BY <3>3, <3>4
  <2> QED
    BY <2>1, <2>2
<1>4. Settled' \subseteq Settled
  BY <1>1 DEF Settled
<1>5. Counted'
  BY <1>1, <1>3, <1>4, CountStays
<1>6. /\ turns' \in [Convo!Spoken -> Said] /\ approvals' \in Seq(Requests)
      /\ \A j \in DOMAIN approvals' : approvals'[j].told => approvals'[j].state # "pending"
  BY <1>1 DEF ConvoInv, ConvoTypes
<1>7. ApprovalsGoOn
  BY <1>1 DEF ApprovalsGoOn
<1> DEFINE S == {}
<1>8. /\ S \subseteq Convo!Spoken /\ \A u \in Convo!Spoken : u \notin S => turns'[u] = turns[u]
      /\ \A u \in Convo!Spoken : u \in S => Stands(u)'
      /\ DOMAIN answers' \subseteq DOMAIN answers \cup S
  BY <1>1
<1> HIDE DEF S
<1> QED
  BY <1>1, <1>3, <1>5, <1>6, <1>7, <1>8, ApprovalsMove

\* Every step of the conversation keeps the invariant.
LEMMA ConvoStep == ConvoInv /\ [Convo!Next]_conversationVars => ConvoInv'
<1> SUFFICES ASSUME ConvoInv, [Convo!Next]_conversationVars PROVE ConvoInv'
  OBVIOUS
<1>1. CASE UNCHANGED conversationVars
  BY <1>1 DEF conversationVars, ConvoInv, ConvoTypes, Counted, Settled, Taken, Stands, Convo!Spoken,
              Convo!Memories, Said, Places, Convo!Kinds, Requests, Offered
<1>2. ASSUME NEW t \in Convo!Spoken,
             \/ \E kind \in Convo!Kinds, waits \in BOOLEAN : Convo!Speak(t, kind, waits)
             \/ Convo!Begin(t) \/ Convo!Woken(t) \/ \E n \in 0..2 : Convo!WorkEnds(t, n)
             \/ Convo!Note(t)
      PROVE  ConvoInv'
  BY <1>2, SpeakStep, BeginStep, WokenStep, WorkEndsStep, NoteStep
<1>3. ASSUME NEW t \in Convo!Spoken,
             \/ Convo!AnswerApproval(t) \/ Convo!Announced(t) \/ Convo!NothingAsked(t)
             \/ Convo!Ask(t) \/ Convo!TimesOut(t)
             \/ \E place \in {"done", "working", "reading"}, kind \in Convo!Kinds :
                  Convo!AnswerOffer(t, place, kind)
      PROVE  ConvoInv'
  BY <1>3, AnswerApprovalStep, AnnouncedStep, NothingAskedStep, AskStep, TimesOutStep, AnswerOfferStep
<1>4. ASSUME NEW t \in Convo!Spoken,
             \/ \E kept \in BOOLEAN : Convo!Written(t, kept) \/ Convo!Noted(t, kept)
             \/ Convo!Suppress(t) \/ \E m \in Convo!Memories : Convo!Forgets(t, m)
             \/ Convo!WillNotRemember(t)
      PROVE  ConvoInv'
  BY <1>4, WrittenStep, NotedStep, SuppressStep, ForgetsStep, WillNotRememberStep
<1>5. ASSUME \/ \E i \in 1..MaxTurns : Convo!TimePasses(i)
             \/ Convo!OfferMade \/ \E i \in Convo!openOffers : Convo!OfferLapses(i)
      PROVE  ConvoInv'
  BY <1>5, TimePassesStep, OffersStep
<1> QED
  BY <1>1, <1>2, <1>3, <1>4, <1>5 DEF Convo!Next

\* At first nothing was said.
LEMMA ConvoStarts == Convo!Init => ConvoInv
<1> SUFFICES ASSUME Convo!Init PROVE ConvoInv
  OBVIOUS
<1>1. Convo!Fresh \in Said /\ Convo!Fresh.at = "new" /\ Convo!Fresh.asks = 0
  <2> DEFINE h == Convo!NoQuestion
             f == Convo!Fresh
  <2>1. h \in {"approval", "offer", "none"} \X Nat
    BY DEF Convo!NoQuestion, Convo!None
  <2>2. f = [at |-> "new", kind |-> "chat", waits |-> FALSE, asks |-> 0, left |-> 0,
             doomed |-> {}, heard |-> h]
    BY DEF Convo!Fresh, Convo!None
  <2> HIDE DEF f, h
  <2>3. f \in Said /\ f.at = "new" /\ f.asks = 0
    BY <2>1, <2>2 DEF Said, Places, Convo!Kinds
  <2> QED
    BY <2>3 DEF f
<1>2. turns = [t \in Convo!Spoken |-> Convo!Fresh]
  BY DEF Convo!Init
<1>3. /\ approvals = <<>> /\ offers = <<>> /\ memories = {} /\ ~suppressed /\ suppressed \in BOOLEAN
      /\ answers = <<>> /\ ~promised /\ promised \in BOOLEAN
  BY DEF Convo!Init
<1>4. DOMAIN approvals = {} /\ DOMAIN offers = {} /\ DOMAIN answers = {}
      /\ approvals \in Seq(Requests) /\ offers \in Seq(Offered)
  BY <1>3
<1>5. ConvoTypes
  BY <1>1, <1>2, <1>3, <1>4 DEF ConvoTypes
<1>6. Counted
  <2>1. Settled = {} /\ Taken = {}
    BY <1>4 DEF Settled, Taken
  <2> QED
    BY <1>4, <2>1, FS_EmptySet DEF Counted
<1>7. \A t \in Convo!Spoken : Stands(t)
  BY <1>1, <1>2, <1>3, <1>4 DEF Stands
<1> QED
  BY <1>3, <1>4, <1>5, <1>6, <1>7 DEF ConvoInv

\* One word answers one question, however many turns of the conversation run at once, and once "I
\* will not remember" was answered memory holds only what was asked for in words and what was being
\* written at that moment (core/engine.py, security/approvals.py).
THEOREM ConversationIsHeld == Spec => []ConversationHolds
<1>1. Init => ConvoInv
  BY ConvoStarts DEF Init
<1>2. ConvoInv /\ [Next]_allVars => ConvoInv'
  BY OnePartSteps, ConvoStep
<1>3. ConvoInv => ConversationHolds
  <2> SUFFICES ASSUME ConvoInv PROVE Convo!OneWordOneQuestion /\ Convo!SuppressionHolds
    BY DEF ConversationHolds
  <2>1. Convo!OneWordOneQuestion
    <3>1. Convo!Cardinality(Settled) + Convo!Cardinality(Taken) <= Convo!Cardinality(DOMAIN answers)
      BY ConvoCounts DEF ConvoInv, Counted
    <3>2. \A t \in Convo!Spoken :
            Convo!At(t, "working") /\ turns[t].asks # Convo!None
              => approvals[turns[t].asks].state = "approved"
      BY DEF ConvoInv, Stands, Convo!At, Convo!None
    <3> QED
      BY <3>1, <3>2 DEF Convo!OneWordOneQuestion, Settled, Taken
  <2>2. Convo!SuppressionHolds
    BY DEF ConvoInv, Convo!SuppressionHolds
  <2> QED
    BY <2>1, <2>2
<1> QED
  BY <1>1, <1>2, <1>3, PTL DEF Spec, allVars

-------------------------------------------------------------------------------
(* Canvas: what is drawn, what it is numbered as, and the rule it becomes.   *)

\* A list without repetition is as long as it has members.
LEMMA OnceCounted ==
  ASSUME NEW T, NEW s \in Seq(T), \A i, j \in 1..Len(s) : s[i] = s[j] => i = j,
         NEW R, \A x : x \in R <=> \E i \in 1..Len(s) : s[i] = x
  PROVE  IsFiniteSet(R) /\ Cardinality(R) = Len(s)
<1>1. Len(s) \in Nat /\ s \in [1..Len(s) -> R]
  BY LenProperties
<1>2. s \in Surjection(1..Len(s), R) /\ s \in Injection(1..Len(s), R)
  BY <1>1 DEF Surjection, Injection, IsInjective
<1>3. IsFiniteSet(1..Len(s)) /\ Cardinality(1..Len(s)) = Len(s)
  BY <1>1, FS_Interval
<1> QED
  BY <1>2, <1>3, FS_Surjection

Drawings == [boxes : Seq(Builder!Box), order : Seq(Builder!Ids), split : Builder!Ids]

\* A box that acts has this number.
ActsAs(g, x) == \E j \in 1..Len(g.boxes) : g.boxes[j].kind = "action" /\ g.boxes[j].id = x

\* No two boxes of a kind share a number, and the order lists every box that acts, once.
WellDrawn(g) ==
  /\ g \in Drawings /\ Len(g.boxes) <= MaxBoxes
  /\ \A i, j \in 1..Len(g.boxes) :
       g.boxes[i].kind = g.boxes[j].kind /\ g.boxes[i].id = g.boxes[j].id => i = j
  /\ \A i, j \in 1..Len(g.order) : g.order[i] = g.order[j] => i = j
  /\ \A x : (\E i \in 1..Len(g.order) : g.order[i] = x) <=> ActsAs(g, x)

\* The canvas's copies of the library's operators.
LEMMA CanvasCopies ==
  /\ \A s, S : Builder!Chosen(s, S) = Chosen(s, S)
  /\ \A f : Builder!Range(f) = {f[x] : x \in DOMAIN f}
  /\ \A S : Builder!Cardinality(S) = Cardinality(S)
<1>1. \A s, S : Builder!Chosen(s, S) = Chosen(s, S)
  BY DEF Builder!Chosen, Chosen
<1>2. \A f : Builder!Range(f) = {f[x] : x \in DOMAIN f}
  BY DEF Builder!Range
<1>3. \A S : Builder!Cardinality(S) = Cardinality(S)
  BY DEF Builder!Cardinality, Cardinality
<1> QED
  BY <1>1, <1>2, <1>3

\* A number, its box and its kind.
LEMMA BoxesAre ==
  /\ \A b \in Builder!Box : /\ b.kind \in {"trigger", "action"} /\ b.id \in Builder!Ids
                            /\ b.does \in Settings \cup {NotSet}
  /\ Builder!Ids = 0..MaxBoxes /\ MaxBoxes \in Nat /\ NotSet \notin Settings
BY CanvasAssumption DEF Builder!Box, Builder!Ids

\* The boxes of a kind, in the order in which they were drawn.
LEMMA OfKind ==
  ASSUME NEW g, WellDrawn(g), NEW kind, NEW o, o = Builder!Of(g, kind)
  PROVE  /\ o \in Seq(Builder!Box) /\ Len(o) <= Len(g.boxes)
         /\ \A x : (\E i \in 1..Len(o) : o[i] = x)
                     <=> x.kind = kind /\ \E j \in 1..Len(g.boxes) : g.boxes[j] = x
         /\ \A i, j \in 1..Len(o) : o[i].id = o[j].id => i = j
<1> DEFINE s == g.boxes
           S == {b \in Builder!Range(g.boxes) : b.kind = kind}
<1>1. s \in Seq(Builder!Box) /\ DOMAIN s = 1..Len(s)
  BY DEF WellDrawn, Drawings
<1>2. \A x : x \in S <=> x.kind = kind /\ \E j \in 1..Len(s) : s[j] = x
  BY <1>1, CanvasCopies
<1>3. o = Chosen(s, S)
  BY CanvasCopies DEF Builder!Of
<1>4. \A i, j \in 1..Len(s) : s[i].kind = s[j].kind /\ s[i].id = s[j].id => i = j
  BY DEF WellDrawn
<1> HIDE DEF s, S
<1>5. /\ o \in Seq(Builder!Box) /\ Len(o) <= Len(s)
      /\ \A x : (\E i \in 1..Len(o) : o[i] = x) <=> x \in S /\ \E j \in 1..Len(s) : s[j] = x
  BY <1>1, <1>3, ChosenIs
<1>6. \A i, j \in 1..Len(s) : s[i] = s[j] => i = j
  BY <1>4
<1>7. \A i, j \in 1..Len(o) : o[i] = o[j] => i = j
  BY <1>1, <1>3, <1>6, ChosenOnce
<1>8. ASSUME NEW i \in 1..Len(o), NEW j \in 1..Len(o), o[i].id = o[j].id
      PROVE  i = j
  <2>0. \A m \in 1..Len(o) : \E a \in 1..Len(s) : s[a] = o[m] /\ s[a].kind = kind
    BY <1>2, <1>5
  <2>1. PICK a \in 1..Len(s) : s[a] = o[i] /\ s[a].kind = kind
    BY <2>0
  <2>2. PICK b \in 1..Len(s) : s[b] = o[j] /\ s[b].kind = kind
    BY <2>0
  <2>3. a = b
    BY <1>4, <1>8, <2>1, <2>2
  <2> QED
    BY <1>7, <2>1, <2>2, <2>3
<1>9. \A x : (\E i \in 1..Len(o) : o[i] = x) <=> x.kind = kind /\ \E j \in 1..Len(s) : s[j] = x
  BY <1>2, <1>5
<1> QED
  BY <1>5, <1>8, <1>9 DEF s

\* The numbers of a kind: as many as its boxes.
LEMMA NamedAre ==
  ASSUME NEW g, WellDrawn(g), NEW kind
  PROVE  /\ \A x : x \in Builder!named(g, kind)
                     <=> \E j \in 1..Len(g.boxes) : g.boxes[j].kind = kind /\ g.boxes[j].id = x
         /\ IsFiniteSet(Builder!named(g, kind))
         /\ Cardinality(Builder!named(g, kind)) = Len(Builder!Of(g, kind))
         /\ Len(Builder!Of(g, kind)) <= Len(g.boxes)
<1> DEFINE o == Builder!Of(g, kind)
           N == Builder!named(g, kind)
           ids == [i \in 1..Len(o) |-> o[i].id]
<1>1. /\ o \in Seq(Builder!Box) /\ Len(o) <= Len(g.boxes)
      /\ \A x : (\E i \in 1..Len(o) : o[i] = x)
                  <=> x.kind = kind /\ \E j \in 1..Len(g.boxes) : g.boxes[j] = x
      /\ \A i, j \in 1..Len(o) : o[i].id = o[j].id => i = j
  BY OfKind
<1>2. \A x : x \in N <=> \E i \in 1..Len(o) : o[i].id = x
  <2>1. N = {b.id : b \in {o[i] : i \in DOMAIN o}} /\ DOMAIN o = 1..Len(o)
    BY <1>1, CanvasCopies DEF Builder!named
  <2> HIDE DEF N, o
  <2> QED
    BY <2>1
<1> HIDE DEF o, N
<1>3. ids \in Seq(Builder!Ids) /\ Len(ids) = Len(o) /\ \A i \in 1..Len(o) : ids[i] = o[i].id
  <2>1. \A i \in 1..Len(o) : o[i].id \in Builder!Ids
    BY <1>1, BoxesAre
  <2>2. Len(o) \in Nat
    BY <1>1
  <2> QED
    BY <2>1, <2>2
<1> HIDE DEF ids
<1>4. /\ \A i, j \in 1..Len(ids) : ids[i] = ids[j] => i = j
      /\ \A x : x \in N <=> \E i \in 1..Len(ids) : ids[i] = x
  BY <1>1, <1>2, <1>3
<1>5. IsFiniteSet(N) /\ Cardinality(N) = Len(o)
  BY <1>3, <1>4, OnceCounted
<1>6. \A x : x \in N <=> \E j \in 1..Len(g.boxes) : g.boxes[j].kind = kind /\ g.boxes[j].id = x
  <2>1. ASSUME NEW x, x \in N
        PROVE  \E j \in 1..Len(g.boxes) : g.boxes[j].kind = kind /\ g.boxes[j].id = x
    <3>1. PICK i \in 1..Len(o) : o[i].id = x
      BY <1>2, <2>1
    <3> QED
      BY <1>1, <3>1
  <2>2. ASSUME NEW j \in 1..Len(g.boxes), g.boxes[j].kind = kind
        PROVE  g.boxes[j].id \in N
    <3>1. PICK i \in 1..Len(o) : o[i] = g.boxes[j]
      BY <1>1, <2>2
    <3> QED
      BY <1>2, <3>1
  <2> QED
    BY <2>1, <2>2
<1> QED
  BY <1>1, <1>5, <1>6 DEF o, N

\* The box of a number.
LEMMA BoxOfIs ==
  ASSUME NEW g, WellDrawn(g), NEW x, ActsAs(g, x)
  PROVE  /\ Builder!BoxOf(g, x).kind = "action" /\ Builder!BoxOf(g, x).id = x
         /\ \E j \in 1..Len(g.boxes) : g.boxes[j] = Builder!BoxOf(g, x)
<1> DEFINE o == Builder!Actions(g)
           I == {i \in 1..Len(o) : o[i].id = x}
<1>1. /\ o \in Seq(Builder!Box)
      /\ \A b : (\E i \in 1..Len(o) : o[i] = b)
                  <=> b.kind = "action" /\ \E j \in 1..Len(g.boxes) : g.boxes[j] = b
      /\ \A i, j \in 1..Len(o) : o[i].id = o[j].id => i = j
  BY OfKind DEF Builder!Actions
<1>2. Builder!BoxOf(g, x) = o[IF I # {} THEN Builder!Max(I) ELSE 0]
  BY DEF Builder!BoxOf, Builder!SelectLastInSeq
<1> HIDE DEF o
<1>3. PICK j \in 1..Len(g.boxes) : g.boxes[j].kind = "action" /\ g.boxes[j].id = x
  BY DEF ActsAs
<1>4. PICK k \in 1..Len(o) : o[k] = g.boxes[j]
  BY <1>1, <1>3
<1>5. k \in I /\ \A i \in I : i = k
  BY <1>1, <1>3, <1>4
<1>6. k \in Int /\ k >= k
  BY <1>1
<1> HIDE DEF I
<1>7. Builder!Max(I) = k
  BY <1>5, <1>6 DEF Builder!Max
<1>8. Builder!BoxOf(g, x) = g.boxes[j]
  BY <1>2, <1>4, <1>5, <1>7
<1> QED
  BY <1>3, <1>8

\* The recursion that takes the numbers from the dictionary has a solution.
LEMMA PoppedUnfolds ==
  ASSUME NEW g, g.order \in Seq(Builder!Ids)
  PROVE  \E f : /\ Builder!popped(g) = f[Len(g.order)]
                /\ f[0] = <<>>
                /\ \A n \in 1..Len(g.order) :
                     f[n] = IF g.order[n] \in Builder!named(g, "action") \ Builder!Range(f[n - 1])
                            THEN Append(f[n - 1], g.order[n]) ELSE f[n - 1]
<1> DEFINE Body(f, n) == IF n = 0 THEN <<>>
                         ELSE IF g.order[n] \in Builder!named(g, "action") \ Builder!Range(f[n - 1])
                              THEN Append(f[n - 1], g.order[n]) ELSE f[n - 1]
           A == { N \in Nat : \E f : f = [n \in 0..N |-> Body(f, n)] }
<1>0. Len(g.order) \in Nat
  OBVIOUS
<1>1. 0 \in A
  <2> DEFINE f == [n \in 0..0 |-> <<>>]
  <2>1. f = [n \in 0..0 |-> Body(f, n)]
    OBVIOUS
  <2> QED
    BY <2>1
<1>2. ASSUME NEW N \in Nat, N \in A PROVE N + 1 \in A
  <2>1. PICK f : f = [n \in 0..N |-> Body(f, n)]
    BY <1>2
  <2> DEFINE h == [n \in 0..(N + 1) |-> IF n = N + 1 THEN Body(f, N + 1) ELSE f[n]]
  <2>2. ASSUME NEW n \in 0..(N + 1) PROVE h[n] = Body(h, n)
    <3>1. CASE n = N + 1
      BY <3>1
    <3>2. CASE n \in 0..N
      <4>1. f[n] = Body(f, n)
        BY <2>1, <3>2
      <4>2. n = 0 \/ h[n - 1] = f[n - 1]
        BY <3>2
      <4> QED
        BY <3>2, <4>1, <4>2
    <3> QED
      BY <3>1, <3>2
  <2>3. h = [n \in 0..(N + 1) |-> h[n]]
    OBVIOUS
  <2> HIDE DEF h
  <2>4. h = [n \in 0..(N + 1) |-> Body(h, n)]
    BY <2>2, <2>3
  <2> QED
    BY <2>4, SMTT(60)
<1>3. Len(g.order) \in A
  <2> HIDE DEF A
  <2>1. 0..Len(g.order) \subseteq A
    BY <1>0, <1>1, <1>2, UpTo
  <2> QED
    BY <1>0, <2>1
<1> DEFINE upTo == CHOOSE f : f = [n \in 0..Len(g.order) |-> Body(f, n)]
<1>4. upTo = [n \in 0..Len(g.order) |-> Body(upTo, n)]
  BY <1>3
<1>5. Builder!popped(g) = upTo[Len(g.order)]
  BY DEF Builder!popped
<1> HIDE DEF upTo
<1>6. \A n \in 0..Len(g.order) : upTo[n] = Body(upTo, n)
  BY <1>4
<1>7. 0 \in 0..Len(g.order) /\ \A n \in 1..Len(g.order) : n \in 0..Len(g.order) /\ n # 0
  BY <1>0
<1> QED
  BY <1>5, <1>6, <1>7

\* The server takes every number of the order, and the client too.
LEMMA OrderIsTaken ==
  ASSUME NEW g, WellDrawn(g)
  PROVE  Builder!popped(g) = g.order /\ Chosen(g.order, Builder!named(g, "action")) = g.order
<1> DEFINE s == g.order
           N == Builder!named(g, "action")
<1>1. s \in Seq(Builder!Ids) /\ Len(s) \in Nat /\ \A i \in 1..Len(s) : s[i] \in Builder!Ids
  BY DEF WellDrawn, Drawings
<1>2. \A i, j \in 1..Len(s) : s[i] = s[j] => i = j
  BY DEF WellDrawn
<1>3. \A i \in 1..Len(s) : s[i] \in N
  <2>1. \A i \in 1..Len(s) : ActsAs(g, s[i])
    BY DEF WellDrawn
  <2> QED
    BY <2>1, NamedAre DEF ActsAs
<1>4. PICK f : /\ Builder!popped(g) = f[Len(s)]
               /\ f[0] = <<>>
               /\ \A n \in 1..Len(s) :
                    f[n] = IF s[n] \in N \ Builder!Range(f[n - 1])
                           THEN Append(f[n - 1], s[n]) ELSE f[n - 1]
  BY <1>1, PoppedUnfolds
<1> HIDE DEF s, N
<1> DEFINE P(n) == f[n] \in Seq(Builder!Ids) /\ Len(f[n]) = n /\ \A i \in 1..n : f[n][i] = s[i]
           C == { n \in 0..Len(s) : P(n) }
<1>5. P(0)
  BY <1>4
<1>6. ASSUME NEW n \in 0..Len(s), n < Len(s), P(n) PROVE P(n + 1)
  <2>0. n \in Nat /\ n + 1 \in 1..Len(s) /\ (n + 1) - 1 = n
    BY <1>1, <1>6
  <2>1. s[n + 1] \notin Builder!Range(f[n])
    <3>1. DOMAIN f[n] = 1..n /\ \A i \in 1..n : f[n][i] = s[i]
      BY <1>6
    <3>2. \A i \in 1..n : i \in 1..Len(s) /\ i # n + 1
      BY <1>1, <2>0
    <3> QED
      BY <1>2, <2>0, <3>1, <3>2, CanvasCopies
  <2>2. f[n + 1] = Append(f[n], s[n + 1]) /\ s[n + 1] \in Builder!Ids
    BY <1>1, <1>3, <1>4, <2>0, <2>1
  <2>3. /\ f[n + 1] \in Seq(Builder!Ids) /\ Len(f[n + 1]) = n + 1 /\ f[n + 1][n + 1] = s[n + 1]
        /\ \A i \in 1..n : f[n + 1][i] = f[n][i]
    BY <1>6, <2>2, AppendProperties
  <2> QED
    BY <1>6, <2>0, <2>3
<1>7. P(Len(s))
  <2>1. 0 \in C /\ \A n \in 0..Len(s) : n < Len(s) /\ n \in C => n + 1 \in C
    <3> HIDE DEF P
    <3>1. 0 \in 0..Len(s) /\ \A n \in 0..Len(s) : n < Len(s) => n + 1 \in 0..Len(s)
      BY <1>1
    <3> QED
      BY <1>5, <1>6, <3>1
  <2> HIDE DEF C
  <2>2. 0..Len(s) \subseteq C
    BY <1>1, <2>1, UpTo
  <2>3. Len(s) \in C
    BY <1>1, <2>2
  <2> HIDE DEF P
  <2> QED
    BY <2>3 DEF C
<1>8. /\ Builder!popped(g) \in Seq(Builder!Ids) /\ Len(Builder!popped(g)) = Len(s)
      /\ \A i \in 1..Len(Builder!popped(g)) : Builder!popped(g)[i] = s[i]
  BY <1>4, <1>7
<1> HIDE DEF P, C
<1>9. Builder!popped(g) = s
  BY <1>1, <1>8, SeqEqual
<1>10. Chosen(s, N) = s
  BY <1>1, <1>3, ChosenAll
<1> QED
  BY <1>9, <1>10 DEF s, N

\* Both sides number the boxes that act, all of them, as the order has them.
LEMMA NumberedAlike ==
  ASSUME NEW g, WellDrawn(g), NEW a, a = Builder!actions(g)
  PROVE  /\ Builder!orderedActions(g) = a
         /\ a \in Seq(Builder!Box) /\ Len(a) = Len(Builder!Actions(g)) /\ Len(a) = Len(g.order)
         /\ \A i \in 1..Len(a) : a[i] = Builder!BoxOf(g, g.order[i])
<1> DEFINE o == Builder!Actions(g)
           b == [i \in DOMAIN g.order |-> Builder!BoxOf(g, g.order[i])]
           rest == Builder!Chosen(o, Builder!NotAmong(g, g.order))
<1>1. a = b \o rest /\ Builder!orderedActions(g) = b \o rest
  BY OrderIsTaken, CanvasCopies DEF Builder!actions, Builder!orderedActions
<1>2. /\ g.order \in Seq(Builder!Ids) /\ Len(g.order) \in Nat /\ DOMAIN g.order = 1..Len(g.order)
      /\ \A i, j \in 1..Len(g.order) : g.order[i] = g.order[j] => i = j
      /\ \A x : (\E i \in 1..Len(g.order) : g.order[i] = x) <=> ActsAs(g, x)
  BY DEF WellDrawn, Drawings
<1>3. /\ o \in Seq(Builder!Box)
      /\ \A x : (\E i \in 1..Len(o) : o[i] = x)
                  <=> x.kind = "action" /\ \E j \in 1..Len(g.boxes) : g.boxes[j] = x
  BY OfKind DEF Builder!Actions
<1>4. \A x : x \in Builder!named(g, "action") <=> ActsAs(g, x)
  BY NamedAre DEF ActsAs
<1>5. Len(g.order) = Len(o)
  <2>1. Cardinality(Builder!named(g, "action")) = Len(o)
    BY NamedAre DEF Builder!Actions
  <2> HIDE DEF o
  <2>2. \A x : x \in Builder!named(g, "action") <=> \E i \in 1..Len(g.order) : g.order[i] = x
    BY <1>2, <1>4
  <2>3. Cardinality(Builder!named(g, "action")) = Len(g.order)
    BY <1>2, <2>2, OnceCounted
  <2> QED
    BY <2>1, <2>3
<1>6. rest = <<>>
  <2>1. ASSUME NEW x, x \in Builder!NotAmong(g, g.order) PROVE FALSE
    <3>1. (\E i \in 1..Len(o) : o[i] = x) /\ \A i \in 1..Len(g.order) : g.order[i] # x.id
      <4>1. x \in {o[i] : i \in DOMAIN o} /\ x.id \notin {g.order[i] : i \in DOMAIN g.order}
        BY <2>1, CanvasCopies DEF Builder!NotAmong
      <4> HIDE DEF o
      <4> QED
        BY <1>2, <1>3, <4>1
    <3>2. ActsAs(g, x.id)
      BY <1>3, <3>1 DEF ActsAs
    <3> QED
      BY <1>2, <3>1, <3>2
  <2> DEFINE c == Chosen(o, Builder!NotAmong(g, g.order))
  <2> HIDE DEF o
  <2>2. /\ c \in Seq(Builder!Box)
        /\ \A x : (\E i \in 1..Len(c) : c[i] = x)
                    <=> x \in Builder!NotAmong(g, g.order) /\ \E i \in 1..Len(o) : o[i] = x
    BY <1>3, ChosenIs
  <2>3. rest = c
    BY CanvasCopies
  <2> HIDE DEF c, rest
  <2>4. ~\E i \in 1..Len(c) : TRUE
    BY <2>1, <2>2
  <2>5. Len(c) = 0
    BY <2>2, <2>4
  <2> QED
    BY <2>2, <2>3, <2>5, EmptySeq
<1> HIDE DEF rest, o
<1>7. b \in Seq(Builder!Box) /\ Len(b) = Len(g.order)
      /\ \A i \in 1..Len(b) : b[i] = Builder!BoxOf(g, g.order[i])
  <2>1. \A i \in 1..Len(g.order) : Builder!BoxOf(g, g.order[i]) \in Builder!Box
    <3>1. \A j \in 1..Len(g.boxes) : g.boxes[j] \in Builder!Box
      BY DEF WellDrawn, Drawings
    <3> QED
      BY <1>2, <3>1, BoxOfIs
  <2> QED
    BY <1>2, <2>1
<1> HIDE DEF b
<1>8. b \o rest = b
  BY <1>6, <1>7, ConcatEmptySeq
<1> QED
  BY <1>1, <1>5, <1>7, <1>8 DEF o

\* A rule that a drawing can show.
Sound(r) == r \in Builder!Rule /\ r.actions # <<>> /\ Len(r.actions) + Len(r.followUps) < MaxBoxes

\* What a complete drawing becomes: a rule that does what the boxes were numbered.
LEMMA RuleOf ==
  ASSUME NEW g, WellDrawn(g), Builder!valid(g), NEW e \in BOOLEAN, NEW r, r = Builder!toRule(g, e)
  PROVE  /\ Sound(r) /\ r.enabled = e /\ r.kept
         /\ Builder!does(Builder!orderedActions(g)) = r.actions \o r.followUps
         /\ Len(r.actions) = Builder!follows(g)
         /\ NotSet \notin Builder!Range(Builder!does(Builder!orderedActions(g))) \cup {r.trigger}
<1> DEFINE a == Builder!actions(g)
           all == Builder!does(a)
           split == IF g.split = 0 THEN Len(all) ELSE g.split
           t == Builder!Of(g, "trigger")
           o == Builder!Actions(g)
<1>1. /\ Builder!orderedActions(g) = a /\ a \in Seq(Builder!Box)
      /\ Len(a) = Len(o) /\ Len(a) = Len(g.order)
      /\ \A i \in 1..Len(a) : a[i] = Builder!BoxOf(g, g.order[i])
  BY NumberedAlike
<1>2. /\ Len(t) = 1 /\ o # <<>> /\ g.split \in 0..Len(a)
      /\ \A i \in DOMAIN g.boxes : g.boxes[i].does # NotSet
  BY DEF Builder!valid, Builder!localProblems
<1>3. /\ r.trigger = t[1].does /\ r.enabled = e /\ r.kept = TRUE
      /\ r.actions = SubSeq(all, 1, split) /\ r.followUps = SubSeq(all, split + 1, Len(all))
      /\ r = [trigger |-> r.trigger, enabled |-> e, kept |-> TRUE,
              actions |-> r.actions, followUps |-> r.followUps]
  BY DEF Builder!toRule, Builder!None
<1>4. \A j \in 1..Len(g.boxes) : g.boxes[j] \in Builder!Box /\ g.boxes[j].does \in Settings
  BY <1>2, BoxesAre DEF WellDrawn, Drawings
<1>5. \A i \in 1..Len(a) : a[i].does \in Settings
  <2>1. \A i \in 1..Len(a) : ActsAs(g, g.order[i])
    BY <1>1 DEF WellDrawn
  <2>2. ASSUME NEW i \in 1..Len(a)
        PROVE  \E j \in 1..Len(g.boxes) : g.boxes[j] = a[i]
    <3>1. a[i] = Builder!BoxOf(g, g.order[i])
      BY <1>1
    <3> HIDE DEF a
    <3>2. \E j \in 1..Len(g.boxes) : g.boxes[j] = Builder!BoxOf(g, g.order[i])
      BY <2>1, BoxOfIs
    <3> QED
      BY <3>1, <3>2
  <2> QED
    BY <1>4, <2>2
<1>6. /\ t \in Seq(Builder!Box) /\ o \in Seq(Builder!Box)
      /\ \A x : (\E i \in 1..Len(t) : t[i] = x)
                  => x.kind = "trigger" /\ \E j \in 1..Len(g.boxes) : g.boxes[j] = x
  BY OfKind DEF Builder!Actions
<1>7. Len(t) + Len(o) <= Len(g.boxes)
  <2> DEFINE T == {b \in Builder!Range(g.boxes) : b.kind = "trigger"}
             A == {b \in Builder!Range(g.boxes) : b.kind = "action"}
  <2>1. t = Chosen(g.boxes, T) /\ o = Chosen(g.boxes, A)
    BY CanvasCopies DEF Builder!Of, Builder!Actions
  <2>2. g.boxes \in Seq(Builder!Box) /\ \A x : ~(x \in T /\ x \in A)
    BY DEF WellDrawn, Drawings
  <2> HIDE DEF T, A, t, o
  <2> QED
    BY <2>1, <2>2, ChosenApart
<1> HIDE DEF t, o
<1>8. r.trigger \in Settings
  BY <1>2, <1>3, <1>4, <1>6
<1>9. all \in Seq(Settings) /\ Len(all) = Len(a) /\ \A i \in 1..Len(all) : all[i] = a[i].does
  <2>1. all = [i \in 1..Len(a) |-> a[i].does] /\ Len(a) \in Nat
    BY <1>1 DEF Builder!does
  <2> HIDE DEF a, all
  <2> QED
    BY <1>5, <2>1
<1>10. Len(all) \in Nat /\ Len(all) > 0 /\ Len(all) < MaxBoxes
  <2>1. Len(o) \in Nat /\ Len(o) # 0
    BY <1>2, <1>6, EmptySeq
  <2>2. Len(g.boxes) <= MaxBoxes /\ Len(g.boxes) \in Nat
    BY DEF WellDrawn, Drawings
  <2> HIDE DEF a, all
  <2> QED
    BY <1>1, <1>2, <1>7, <1>9, <2>1, <2>2, BoxesAre
<1>11. Builder!does(Builder!orderedActions(g)) = all
  BY <1>1
<1>12. NotSet \notin Builder!Range(all)
  <2>1. DOMAIN all = 1..Len(all) /\ \A i \in 1..Len(all) : all[i] \in Settings
    BY <1>9
  <2> HIDE DEF all
  <2> QED
    BY <2>1, CanvasCopies, BoxesAre
<1> HIDE DEF a, all
<1>13. split \in 1..Len(all)
  BY <1>2, <1>9, <1>10
<1>14. Builder!follows(g) = split
  BY <1>1, <1>9 DEF Builder!follows, Builder!None, o
<1> HIDE DEF split
<1>15. /\ r.actions \in Seq(Settings) /\ Len(r.actions) = split
       /\ r.followUps \in Seq(Settings) /\ Len(r.followUps) = Len(all) - split
       /\ r.actions \o r.followUps = all
  BY <1>3, <1>9, <1>13, InTwo
<1>16. r.actions # <<>> /\ Len(r.actions) + Len(r.followUps) < MaxBoxes
  BY <1>10, <1>13, <1>15, BoxesAre
<1>17. r \in Builder!Rule
  BY <1>3, <1>8, <1>15 DEF Builder!Rule
<1> QED
  BY <1>3, <1>8, <1>11, <1>12, <1>14, <1>15, <1>16, <1>17, BoxesAre DEF Sound

\* A rule opened in the builder is drawn as it is, and saving the drawing gives it back.
LEMMA OpenedIs ==
  ASSUME NEW r, Sound(r), NEW g, g = Builder!toGraph(r)
  PROVE  /\ WellDrawn(g) /\ Builder!valid(g)
         /\ Builder!toRule(g, r.enabled) = [r EXCEPT !.kept = TRUE]
<1> DEFINE all == r.actions \o r.followUps
           n == Len(all)
           p == Len(r.actions)
           q == Len(r.followUps)
           t == [kind |-> "trigger", id |-> 0, does |-> r.trigger]
           act(i) == [kind |-> "action", id |-> i - 1, does |-> all[i]]
           B == [i \in DOMAIN all |-> act(i)]
<1>1. /\ r.trigger \in Settings /\ r.enabled \in BOOLEAN
      /\ r.actions \in Seq(Settings) /\ r.followUps \in Seq(Settings)
      /\ Len(r.actions) \in Nat /\ Len(r.followUps) \in Nat /\ Len(r.actions) # 0
      /\ Len(r.actions) + Len(r.followUps) < MaxBoxes
  <2>1. r.actions # <<>> /\ r.actions \in Seq(Settings)
    BY DEF Sound, Builder!Rule
  <2>2. Len(r.actions) # 0
    BY <2>1, EmptySeq
  <2> QED
    BY <2>1, <2>2 DEF Sound, Builder!Rule
<1>2. all \in Seq(Settings) /\ n = p + q
  BY <1>1, ConcatProperties
<1>22. p \in Nat /\ q \in Nat /\ p # 0 /\ p + q < MaxBoxes /\ MaxBoxes \in Nat
  BY <1>1, BoxesAre
<1>21. DOMAIN all = 1..n /\ \A i \in 1..n : all[i] \in Settings
  <2>1. all \in Seq(Settings)
    BY <1>2
  <2> HIDE DEF all
  <2> QED
    BY <2>1
<1> HIDE DEF n, p, q
<1>0. n \in Nat /\ n > 0 /\ n < MaxBoxes /\ MaxBoxes \in Nat
  BY <1>2, <1>22
<1>3. /\ g.boxes = <<t>> \o B /\ g.order = [i \in DOMAIN all |-> i - 1]
      /\ g.split = IF r.followUps = <<>> THEN 0 ELSE Len(r.actions)
      /\ g = [boxes |-> g.boxes, order |-> g.order, split |-> g.split]
  BY DEF Builder!toGraph, Builder!None
<1> HIDE DEF all
<1>20. /\ \A i \in 1..n : i - 1 \in 0..MaxBoxes /\ i + 1 \in 1..(n + 1)
       /\ 0 \in 0..MaxBoxes /\ 1 \in 1..(n + 1) /\ n + 1 <= MaxBoxes
  BY <1>0
<1>4. /\ t \in Builder!Box /\ <<t>> \in Seq(Builder!Box) /\ Len(<<t>>) = 1 /\ <<t>>[1] = t
      /\ t.kind = "trigger" /\ t.id = 0 /\ t.does = r.trigger
  BY <1>1, BoxesAre DEF Builder!Box
<1>5. \A i \in 1..n : /\ act(i) \in Builder!Box /\ act(i).kind = "action"
                      /\ act(i).id = i - 1 /\ act(i).does = all[i]
  <2>1. \A i \in 1..n : i - 1 \in Builder!Ids /\ all[i] \in Settings \cup {NotSet}
    BY <1>21, <1>20, BoxesAre
  <2> QED
    BY <2>1 DEF Builder!Box
<1> HIDE DEF t, act
<1>6. B \in Seq(Builder!Box) /\ Len(B) = n /\ \A i \in 1..n : B[i] = act(i)
  <2>1. DOMAIN all = 1..n /\ n \in Nat
    BY <1>0, <1>21
  <2>2. B = [i \in 1..n |-> act(i)]
    BY <2>1
  <2> QED
    BY <1>5, <2>1, <2>2
<1> HIDE DEF B
<1>7. /\ g.boxes \in Seq(Builder!Box) /\ Len(g.boxes) = n + 1 /\ g.boxes[1] = t
      /\ \A i \in 1..n : g.boxes[i + 1] = act(i)
  <2>1. /\ g.boxes \in Seq(Builder!Box) /\ Len(g.boxes) = 1 + n
        /\ \A i \in 1..(1 + n) : g.boxes[i] = IF i <= 1 THEN <<t>>[i] ELSE B[i - 1]
    <3>1. Len(<<t>>) + Len(B) = 1 + n
      BY <1>4, <1>6
    <3> QED
      BY <1>3, <1>4, <1>6, <3>1, ConcatProperties
  <2>2. 1 \in 1..(1 + n) /\ \A i \in 1..n : i + 1 \in 1..(1 + n) /\ ~(i + 1 <= 1) /\ (i + 1) - 1 = i
    BY <1>0
  <2> QED
    BY <1>0, <1>21, <1>4, <1>6, <2>1, <2>2
<1>8. /\ g.order \in Seq(Builder!Ids) /\ Len(g.order) = n /\ \A i \in 1..n : g.order[i] = i - 1
  <2>1. \A i \in 1..n : i - 1 \in Builder!Ids
    BY <1>20, BoxesAre
  <2>2. g.order = [i \in 1..n |-> i - 1] /\ n \in Nat
    BY <1>0, <1>3, <1>21
  <2> QED
    BY <2>1, <2>2
<1>9. g.split \in 0..n /\ g.split \in Builder!Ids
  <2>1. g.split = 0 \/ g.split = p
    BY <1>3 DEF p
  <2>2. 0 \in 0..n /\ p \in 0..n /\ 0 \in 0..MaxBoxes /\ p \in 0..MaxBoxes
    BY <1>0, <1>2, <1>22
  <2> QED
    BY <2>1, <2>2, BoxesAre
<1>10. \A j \in 1..Len(g.boxes) : \/ j = 1 /\ g.boxes[j] = t
                                  \/ j - 1 \in 1..n /\ g.boxes[j] = act(j - 1)
  <2>1. \A j \in 1..(n + 1) : j = 1 \/ (j - 1 \in 1..n /\ (j - 1) + 1 = j)
    BY <1>0
  <2> QED
    BY <1>7, <2>1
<1>11. WellDrawn(g)
  <2>1. g \in Drawings /\ Len(g.boxes) <= MaxBoxes
    BY <1>3, <1>7, <1>8, <1>9, <1>20 DEF Drawings
  <2>2. ASSUME NEW i \in 1..Len(g.boxes), NEW j \in 1..Len(g.boxes),
               g.boxes[i].kind = g.boxes[j].kind, g.boxes[i].id = g.boxes[j].id
        PROVE  i = j
    <3>1. CASE i = 1 /\ j = 1
      BY <3>1
    <3>2. CASE i = 1 /\ j - 1 \in 1..n /\ g.boxes[j] = act(j - 1)
      BY <1>4, <1>5, <1>7, <2>2, <3>2
    <3>3. CASE j = 1 /\ i - 1 \in 1..n /\ g.boxes[i] = act(i - 1)
      BY <1>4, <1>5, <1>7, <2>2, <3>3
    <3>4. CASE /\ i - 1 \in 1..n /\ g.boxes[i] = act(i - 1)
               /\ j - 1 \in 1..n /\ g.boxes[j] = act(j - 1)
      <4>1. (i - 1) - 1 = (j - 1) - 1
        BY <1>5, <2>2, <3>4
      <4> QED
        BY <4>1, <3>4, <1>0
    <3> QED
      BY <1>10, <3>1, <3>2, <3>3, <3>4
  <2>3. \A i, j \in 1..Len(g.order) : g.order[i] = g.order[j] => i = j
    <3>1. \A i, j \in 1..n : i - 1 = j - 1 => i = j
      BY <1>0
    <3> QED
      BY <1>8, <3>1
  <2>4. ASSUME NEW i \in 1..Len(g.order) PROVE ActsAs(g, g.order[i])
    <3>1. i + 1 \in 1..Len(g.boxes) /\ g.boxes[i + 1] = act(i)
      BY <1>7, <1>8, <1>20
    <3> QED
      BY <1>5, <1>8, <3>1 DEF ActsAs
  <2>5. ASSUME NEW j \in 1..Len(g.boxes), g.boxes[j].kind = "action"
        PROVE  \E i \in 1..Len(g.order) : g.order[i] = g.boxes[j].id
    <3>1. j - 1 \in 1..n /\ g.boxes[j] = act(j - 1)
      BY <1>0, <1>4, <1>10, <2>5
    <3> QED
      BY <1>5, <1>8, <3>1
  <2>6. \A x : (\E i \in 1..Len(g.order) : g.order[i] = x) <=> ActsAs(g, x)
    <3>1. ASSUME NEW x, NEW i \in 1..Len(g.order), g.order[i] = x PROVE ActsAs(g, x)
      BY <2>4, <3>1
    <3>2. ASSUME NEW x, ActsAs(g, x) PROVE \E i \in 1..Len(g.order) : g.order[i] = x
      <4>1. PICK j \in 1..Len(g.boxes) : g.boxes[j].kind = "action" /\ g.boxes[j].id = x
        BY <3>2 DEF ActsAs
      <4> QED
        BY <2>5, <4>1
    <3> QED
      BY <3>1, <3>2
  <2> QED
    BY <2>1, <2>2, <2>3, <2>6 DEF WellDrawn

<1>12. ASSUME NEW i \in 1..n
       PROVE  ActsAs(g, g.order[i]) /\ Builder!BoxOf(g, g.order[i]) = act(i)
  <2>1. ActsAs(g, g.order[i]) /\ g.order[i] = i - 1
    BY <1>8, <1>11 DEF WellDrawn
  <2>2. PICK j \in 1..Len(g.boxes) : g.boxes[j] = Builder!BoxOf(g, g.order[i])
    BY <1>11, <2>1, BoxOfIs
  <2>3. g.boxes[j].kind = "action" /\ g.boxes[j].id = i - 1
    BY <1>11, <2>1, <2>2, BoxOfIs
  <2>4. j - 1 \in 1..n /\ g.boxes[j] = act(j - 1)
    BY <1>4, <1>10, <2>3
  <2>5. (j - 1) - 1 = i - 1
    BY <1>5, <2>3, <2>4
  <2>6. j - 1 = i
    BY <1>0, <1>2, <2>4, <2>5
  <2> QED
    BY <2>1, <2>2, <2>4, <2>6
<1>13. Builder!does(Builder!actions(g)) = all /\ Len(Builder!actions(g)) = n
       /\ Len(Builder!Actions(g)) = n /\ Builder!Actions(g) \in Seq(Builder!Box)
  <2> DEFINE a == Builder!actions(g)
  <2>1. /\ a \in Seq(Builder!Box) /\ Len(a) = n /\ Len(Builder!Actions(g)) = n
        /\ \A i \in 1..n : a[i] = Builder!BoxOf(g, g.order[i])
    BY <1>8, <1>11, NumberedAlike
  <2>2. Builder!does(a) = [i \in DOMAIN a |-> a[i].does] /\ DOMAIN a = 1..n
    BY <2>1 DEF Builder!does
  <2> HIDE DEF a
  <2>3. \A i \in 1..n : a[i].does = all[i]
    BY <1>5, <1>12, <2>1
  <2>4. Builder!does(a) \in Seq(Settings) /\ Len(Builder!does(a)) = n
        /\ \A i \in 1..n : Builder!does(a)[i] = all[i]
    <3>1. Builder!does(a) = [i \in 1..n |-> all[i]] /\ n \in Nat
      BY <1>0, <2>2, <2>3
    <3> QED
      BY <1>21, <3>1
  <2>5. Builder!does(a) = all
    BY <1>0, <1>2, <2>4, SeqEqual DEF n
  <2>6. Builder!Actions(g) \in Seq(Builder!Box)
    BY <1>11, OfKind DEF Builder!Actions
  <2> QED
    BY <2>1, <2>5, <2>6 DEF a
<1>14. Len(Builder!Of(g, "trigger")) = 1 /\ Builder!Of(g, "trigger")[1] = t
  <2> DEFINE o == Builder!Of(g, "trigger")
  <2>1. /\ o \in Seq(Builder!Box)
        /\ \A x : (\E i \in 1..Len(o) : o[i] = x)
                    <=> x.kind = "trigger" /\ \E j \in 1..Len(g.boxes) : g.boxes[j] = x
        /\ \A i, j \in 1..Len(o) : o[i].id = o[j].id => i = j
    BY <1>11, OfKind
  <2> HIDE DEF o
  <2>2. \A i \in 1..Len(o) : o[i] = t
    <3>1. \A i \in 1..Len(o) : o[i].kind = "trigger" /\ \E j \in 1..Len(g.boxes) : g.boxes[j] = o[i]
      BY <2>1
    <3>2. \A k \in 1..n : act(k).kind # "trigger"
      BY <1>5
    <3> QED
      BY <1>10, <3>1, <3>2
  <2>3. PICK i \in 1..Len(o) : o[i] = t
    <3>1. 1 \in 1..Len(g.boxes)
      BY <1>7, <1>20
    <3> QED
      BY <1>4, <1>7, <2>1, <3>1
  <2>4. \A k \in 1..Len(o) : k = i
    BY <2>1, <2>2, <2>3
  <2>5. Len(o) \in Nat
    BY <2>1
  <2>6. Len(o) = 1
    <3>1. 1 \in 1..Len(o) /\ Len(o) \in 1..Len(o)
      BY <2>3, <2>5
    <3> QED
      BY <2>4, <3>1
  <2> QED
    BY <2>2, <2>6 DEF o
<1>15. Builder!valid(g)
  <2>1. Builder!Actions(g) # <<>>
    BY <1>0, <1>13, EmptySeq
  <2>2. \A j \in 1..Len(g.boxes) : g.boxes[j].does \in Settings
    BY <1>1, <1>21, <1>4, <1>5, <1>10
  <2>3. DOMAIN g.boxes = 1..Len(g.boxes)
    BY <1>7
  <2> QED
    BY <1>9, <1>13, <1>14, <2>1, <2>2, <2>3, BoxesAre DEF Builder!valid, Builder!localProblems
<1>16. r.actions = SubSeq(all, 1, IF g.split = 0 THEN n ELSE g.split)
       /\ r.followUps = SubSeq(all, (IF g.split = 0 THEN n ELSE g.split) + 1, n)
  <2>1. CASE r.followUps = <<>>
    <3>1. all = r.actions
      BY <1>1, <2>1, ConcatEmptySeq DEF all
    <3>2. SubSeq(all, 1, n) = r.actions
      BY <1>1, <3>1, SubSeqFull DEF n
    <3>3. SubSeq(all, n + 1, n) = <<>>
      BY <1>0, <1>2, SubSeqEmpty
    <3> QED
      BY <1>3, <2>1, <3>2, <3>3
  <2>2. CASE r.followUps # <<>>
    <3> DEFINE k == Len(r.actions)
               m == Len(r.followUps)
    <3>1. m # 0 /\ g.split = k /\ k # 0
      BY <1>1, <1>3, <2>2, EmptySeq
    <3>4. k \in Nat /\ m \in Nat /\ n = k + m
      BY <1>2, <1>22 DEF p, q
    <3> HIDE DEF k, m
    <3>5. /\ k + 1 \in (k + 1)..(k + m) /\ k + m \in (k + 1)..(k + m)
          /\ (k + 1) - k = 1 /\ (k + m) - k = m /\ 1 \in 1..k /\ k \in 1..k
      BY <3>1, <3>4
    <3>2. SubSeq(all, 1, k) = r.actions
      <4>1. SubSeq(all, 1, k) = SubSeq(r.actions, 1, k)
        BY <1>1, <3>5, SubSeqOfConcat1 DEF all, k
      <4> QED
        BY <1>1, <4>1, SubSeqFull DEF k
    <3>3. SubSeq(all, k + 1, n) = r.followUps
      <4>1. SubSeq(all, k + 1, k + m) = SubSeq(r.followUps, (k + 1) - k, (k + m) - k)
        BY <1>1, <3>5, SubSeqOfConcat2 DEF all, k, m
      <4>2. SubSeq(r.followUps, 1, m) = r.followUps
        BY <1>1, SubSeqFull DEF m
      <4> QED
        BY <3>4, <3>5, <4>1, <4>2
    <3> QED
      BY <3>1, <3>2, <3>3
  <2> QED
    BY <2>1, <2>2
<1>17. Builder!toRule(g, r.enabled) = [r EXCEPT !.kept = TRUE]
  <2> DEFINE new == Builder!toRule(g, r.enabled)
  <2>1. new = [trigger |-> r.trigger, enabled |-> r.enabled, kept |-> TRUE,
               actions |-> r.actions, followUps |-> r.followUps]
    BY <1>4, <1>13, <1>14, <1>16 DEF Builder!toRule, Builder!None, n
  <2> DEFINE opened == [r EXCEPT !.kept = TRUE]
  <2>2. /\ opened \in Builder!Rule /\ opened.trigger = r.trigger /\ opened.enabled = r.enabled
        /\ opened.kept = TRUE /\ opened.actions = r.actions /\ opened.followUps = r.followUps
    BY DEF Sound, Builder!Rule
  <2> HIDE DEF opened
  <2>3. opened = [trigger |-> opened.trigger, actions |-> opened.actions, followUps |-> opened.followUps,
                enabled |-> opened.enabled, kept |-> opened.kept]
    BY <2>2 DEF Builder!Rule
  <2>4. new = opened
    BY <2>1, <2>2, <2>3
  <2> QED
    BY <2>4 DEF opened
<1> QED
  BY <1>11, <1>15, <1>17

\* The number of a new box is free, and there is one as long as the canvas has room.
LEMMA NextIdIsFree ==
  ASSUME NEW g, WellDrawn(g), NEW kind, Len(g.boxes) < MaxBoxes
  PROVE  Builder!nextId(g, kind) \in Builder!Ids \ Builder!named(g, kind)
<1> DEFINE N == Builder!named(g, kind)
           free == (1..(MaxBoxes + 1)) \ N
           Next1(n) == n \notin N /\ \A m \in 1..(n - 1) : m \in N
           len == Len(g.boxes)
<1>1. IsFiniteSet(N) /\ Cardinality(N) \in Nat /\ Cardinality(N) <= len /\ len \in Nat
  <2>1. Len(Builder!Of(g, kind)) \in Nat
    BY OfKind
  <2> QED
    BY <2>1, NamedAre DEF WellDrawn, Drawings
<1>2. MaxBoxes \in Nat /\ len < MaxBoxes
  BY BoxesAre
<1> HIDE DEF N, len
<1>3. \A n \in 0..(MaxBoxes + 1) : 1..n \subseteq N => n < MaxBoxes
  <2> SUFFICES ASSUME NEW n \in 0..(MaxBoxes + 1), 1..n \subseteq N PROVE n < MaxBoxes
    OBVIOUS
  <2>1. n \in Nat
    BY <1>2
  <2>2. Cardinality(1..n) = n
    BY <2>1, FS_Interval
  <2>3. Cardinality(1..n) <= Cardinality(N)
    BY <1>1, FS_Subset
  <2> QED
    BY <1>1, <1>2, <2>1, <2>2, <2>3
<1>4. free # {} /\ free \in SUBSET Nat
  <2>1. MaxBoxes + 1 \in 0..(MaxBoxes + 1) /\ ~(MaxBoxes + 1 < MaxBoxes)
    BY <1>2
  <2>2. ~(1..(MaxBoxes + 1) \subseteq N)
    BY <1>3, <2>1
  <2> QED
    BY <1>2, <2>2
<1>5. PICK n \in free : \A m \in free : ~(m < n)
  <2> HIDE DEF free
  <2> QED
    BY <1>4, Smallest
<1>6. n \in 1..(MaxBoxes + 1) /\ Next1(n)
  <2>1. n \in 1..(MaxBoxes + 1) /\ n \notin N
    BY <1>5
  <2>2. \A m \in 1..(n - 1) : m \in 1..(MaxBoxes + 1) /\ m < n
    BY <1>2, <2>1
  <2> QED
    BY <1>5, <2>1, <2>2
<1>7. Builder!nextId(g, kind) = CHOOSE k \in 1..(MaxBoxes + 1) : Next1(k)
  BY DEF Builder!nextId, N
<1> DEFINE k == Builder!nextId(g, kind)
<1>8. k \in 1..(MaxBoxes + 1) /\ Next1(k)
  BY <1>6, <1>7
<1> HIDE DEF k
<1>9. k \in 0..MaxBoxes
  <2>1. k - 1 \in 0..(MaxBoxes + 1) /\ 1..(k - 1) \subseteq N
    BY <1>2, <1>8
  <2>2. k - 1 < MaxBoxes
    BY <1>3, <2>1
  <2> QED
    BY <1>2, <1>8, <2>2
<1> QED
  BY <1>8, <1>9, BoxesAre DEF k, N

\* A drawing is its boxes, their order and the split.
LEMMA DrawnBy ==
  ASSUME NEW g, g \in Drawings
  PROVE  /\ g.boxes \in Seq(Builder!Box) /\ Len(g.boxes) \in Nat /\ DOMAIN g.boxes = 1..Len(g.boxes)
         /\ \A j \in 1..Len(g.boxes) : g.boxes[j] \in Builder!Box
         /\ g.order \in Seq(Builder!Ids) /\ Len(g.order) \in Nat /\ DOMAIN g.order = 1..Len(g.order)
         /\ \A j \in 1..Len(g.order) : g.order[j] \in Builder!Ids
         /\ g.split \in Builder!Ids
BY DEF Drawings

\* A new box is drawn well.
LEMMA AddedIs ==
  ASSUME NEW g, WellDrawn(g), Len(g.boxes) < MaxBoxes,
         NEW kind \in {"trigger", "action"}, NEW what \in Settings \cup {NotSet},
         NEW h, h = Builder!addNode(g, kind, what)
  PROVE  WellDrawn(h)
<1> DEFINE id == Builder!nextId(g, kind)
           b == [kind |-> kind, id |-> id, does |-> what]
           n == Len(g.boxes)
           m == Len(g.order)
<1>1. id \in Builder!Ids /\ id \notin Builder!named(g, kind)
  BY NextIdIsFree
<1>2. \A j \in 1..n : g.boxes[j].kind = kind => g.boxes[j].id # id
  BY <1>1, NamedAre
<1> HIDE DEF id
<1>3. b \in Builder!Box /\ b.kind = kind /\ b.id = id
  BY <1>1 DEF Builder!Box
<1> HIDE DEF b
<1>4. g \in Drawings /\ n <= MaxBoxes
  BY DEF WellDrawn
<1>5. /\ h.boxes = Append(g.boxes, b) /\ h.split = g.split
      /\ h.order = IF kind = "action" THEN Append(g.order, id) ELSE g.order
      /\ h = [boxes |-> h.boxes, order |-> h.order, split |-> h.split]
  BY <1>4 DEF Builder!addNode, Drawings, b, id
<1>6. /\ h.boxes \in Seq(Builder!Box) /\ Len(h.boxes) = n + 1 /\ h.boxes[n + 1] = b
      /\ \A j \in 1..n : h.boxes[j] = g.boxes[j]
  BY <1>3, <1>4, <1>5, DrawnBy, AppendProperties
<1>7. /\ n \in Nat /\ m \in Nat /\ n + 1 <= MaxBoxes /\ n + 1 \in 1..(n + 1)
      /\ \A j \in 1..(n + 1) : j \in 1..n \/ j = n + 1
      /\ \A j \in 1..n : j \in 1..(n + 1)
      /\ \A j \in 1..m : j \in 1..(m + 1)
      /\ \A j \in 1..(m + 1) : j \in 1..m \/ j = m + 1
      /\ m + 1 \in 1..(m + 1)
  <2>1. n \in Nat /\ m \in Nat /\ MaxBoxes \in Nat /\ n < MaxBoxes
    BY <1>4, DrawnBy, BoxesAre
  <2> HIDE DEF n, m
  <2> QED
    BY <2>1
<1>8. \A i, j \in 1..Len(h.boxes) :
        h.boxes[i].kind = h.boxes[j].kind /\ h.boxes[i].id = h.boxes[j].id => i = j
  <2>1. \A i, j \in 1..n : g.boxes[i].kind = g.boxes[j].kind /\ g.boxes[i].id = g.boxes[j].id => i = j
    BY DEF WellDrawn
  <2> HIDE DEF n
  <2>2. ASSUME NEW i \in 1..(n + 1), NEW j \in 1..(n + 1),
               h.boxes[i].kind = h.boxes[j].kind, h.boxes[i].id = h.boxes[j].id
        PROVE  i = j
    <3>1. CASE i \in 1..n /\ j \in 1..n
      BY <1>6, <2>1, <2>2, <3>1
    <3>2. CASE i \in 1..n /\ j = n + 1
      BY <1>2, <1>3, <1>6, <2>2, <3>2
    <3>3. CASE i = n + 1 /\ j \in 1..n
      BY <1>2, <1>3, <1>6, <2>2, <3>3
    <3> QED
      BY <1>7, <3>1, <3>2, <3>3
  <2> QED
    BY <1>6, <2>2
<1>9. /\ \A i, j \in 1..m : g.order[i] = g.order[j] => i = j
      /\ \A x : (\E i \in 1..m : g.order[i] = x) <=> ActsAs(g, x)
  BY DEF WellDrawn
<1>10. \A x : ActsAs(h, x) <=> ActsAs(g, x) \/ (kind = "action" /\ x = id)
  <2> HIDE DEF n
  <2>1. ASSUME NEW x, NEW j \in 1..(n + 1), h.boxes[j].kind = "action", h.boxes[j].id = x
        PROVE  (\E i \in 1..n : g.boxes[i].kind = "action" /\ g.boxes[i].id = x)
                 \/ (kind = "action" /\ x = id)
    BY <1>3, <1>6, <1>7, <2>1
  <2>2. ASSUME NEW j \in 1..n, g.boxes[j].kind = "action"
        PROVE  \E i \in 1..(n + 1) : h.boxes[i].kind = "action" /\ h.boxes[i].id = g.boxes[j].id
    BY <1>6, <1>7, <2>2
  <2>3. kind = "action" => \E i \in 1..(n + 1) : h.boxes[i].kind = "action" /\ h.boxes[i].id = id
    BY <1>3, <1>6, <1>7
  <2> QED
    BY <1>6, <2>1, <2>2, <2>3 DEF ActsAs, n
<1>11. CASE kind = "trigger"
  <2>1. h.order = g.order /\ \A x : ActsAs(h, x) <=> ActsAs(g, x)
    BY <1>5, <1>10, <1>11
  <2>2. h \in Drawings
    BY <1>4, <1>5, <1>6, <2>1, DrawnBy DEF Drawings
  <2> QED
    BY <1>6, <1>7, <1>8, <1>9, <2>1, <2>2 DEF WellDrawn
<1>12. CASE kind = "action"
  <2>1. h.order = Append(g.order, id) /\ \A x : ActsAs(h, x) <=> ActsAs(g, x) \/ x = id
    BY <1>5, <1>10, <1>12
  <2>2. /\ h.order \in Seq(Builder!Ids) /\ Len(h.order) = m + 1 /\ h.order[m + 1] = id
        /\ \A j \in 1..m : h.order[j] = g.order[j]
    BY <1>1, <1>4, <2>1, DrawnBy, AppendProperties
  <2>3. h \in Drawings
    BY <1>4, <1>5, <1>6, <2>2, DrawnBy DEF Drawings
  <2>4. \A j \in 1..m : g.order[j] # id
    <3>1. ~ActsAs(g, id)
      BY <1>2, <1>12 DEF ActsAs
    <3> QED
      BY <1>9, <3>1
  <2> HIDE DEF m
  <2>5. \A i, j \in 1..(m + 1) : h.order[i] = h.order[j] => i = j
    BY <1>7, <1>9, <2>2, <2>4
  <2>6. \A x : (\E i \in 1..(m + 1) : h.order[i] = x) <=> ActsAs(h, x)
    <3>1. ASSUME NEW x, NEW i \in 1..(m + 1), h.order[i] = x PROVE ActsAs(h, x)
      BY <1>7, <1>9, <2>1, <2>2, <3>1
    <3>2. ASSUME NEW x, ActsAs(h, x) PROVE \E i \in 1..(m + 1) : h.order[i] = x
      <4>1. CASE x = id
        BY <1>7, <2>2, <4>1
      <4>2. CASE ActsAs(g, x)
        <5>1. PICK i \in 1..m : g.order[i] = x
          BY <1>9, <4>2
        <5> QED
          BY <1>7, <2>2, <5>1
      <4> QED
        BY <2>1, <3>2, <4>1, <4>2
    <3> QED
      BY <3>1, <3>2
  <2> QED
    BY <1>6, <1>7, <1>8, <2>2, <2>3, <2>5, <2>6 DEF WellDrawn
<1> QED
  BY <1>11, <1>12

\* What is left after a box is taken away is drawn well.
LEMMA RemovedIs ==
  ASSUME NEW g, WellDrawn(g), NEW d \in 1..Len(g.boxes), NEW b, b = g.boxes[d],
         NEW h, h = Builder!removeNode(g, b)
  PROVE  WellDrawn(h)
<1> DEFINE s == g.boxes
           S == Builder!Range(g.boxes) \ {b}
           o == g.order
           O == Builder!Range(g.order) \ {b.id}
           without == [g EXCEPT !.boxes = Chosen(s, S)]
<1>1. g \in Drawings /\ Len(s) <= MaxBoxes
  BY DEF WellDrawn
<1>2. /\ \A i, j \in 1..Len(s) : s[i].kind = s[j].kind /\ s[i].id = s[j].id => i = j
      /\ \A i, j \in 1..Len(o) : o[i] = o[j] => i = j
      /\ \A x : (\E i \in 1..Len(o) : o[i] = x)
                  <=> \E j \in 1..Len(s) : s[j].kind = "action" /\ s[j].id = x
  BY DEF WellDrawn, ActsAs
<1>3. /\ without \in Drawings => without.order = g.order /\ without.split = g.split
      /\ without.order = g.order /\ without.split = g.split /\ without.boxes = Chosen(s, S)
  BY <1>1 DEF Drawings
<1>4. h = [[without EXCEPT !.order = IF b.kind = "action" THEN Chosen(@, Builder!Range(@) \ {b.id}) ELSE @]
             EXCEPT !.split = IF @ <= Len(Builder!Actions(without)) THEN @ ELSE 0]
  <2>1. Builder!Chosen(g.boxes, Builder!Range(g.boxes) \ {b}) = Chosen(s, S)
    BY CanvasCopies
  <2>2. \A q, Q : Builder!Chosen(q, Q) = Chosen(q, Q)
    BY CanvasCopies
  <2> QED
    BY <2>1, <2>2 DEF Builder!removeNode, Builder!None
<1>5. \A x : x \in S <=> x # b /\ \E j \in 1..Len(s) : s[j] = x
  BY <1>1, CanvasCopies, DrawnBy
<1>6. \A x : x \in O <=> x # b.id /\ \E j \in 1..Len(o) : o[j] = x
  BY <1>1, CanvasCopies, DrawnBy
<1>7. /\ s \in Seq(Builder!Box) /\ Len(s) \in Nat /\ o \in Seq(Builder!Ids) /\ Len(o) \in Nat
      /\ g.split \in Builder!Ids
  BY <1>1, DrawnBy
<1> DEFINE hb == Chosen(s, S)
           ho == IF b.kind = "action" THEN Chosen(o, O) ELSE o
<1>8. without \in [boxes : Seq(Builder!Box), order : Seq(Builder!Ids), split : Builder!Ids]
  <2>1. Chosen(s, S) \in Seq(Builder!Box)
    BY <1>7, ChosenIs
  <2> QED
    BY <1>1, <2>1 DEF Drawings
<1>19. b = s[d] /\ d \in 1..Len(s)
  OBVIOUS
<1> HIDE DEF without, S, O, s, o
<1>9. /\ h.boxes = hb /\ h.order = ho /\ h.split \in {g.split, 0}
      /\ h = [boxes |-> h.boxes, order |-> h.order, split |-> h.split]
  BY <1>3, <1>4, <1>8 DEF O, o
<1>10. /\ hb \in Seq(Builder!Box) /\ Len(hb) <= Len(s)
       /\ \A x : (\E i \in 1..Len(hb) : hb[i] = x) <=> x \in S /\ \E j \in 1..Len(s) : s[j] = x
  <2>1. hb = Chosen(s, S)
    OBVIOUS
  <2> HIDE DEF hb
  <2> QED
    BY <1>7, <2>1, ChosenIs
<1>11. \A i, j \in 1..Len(hb) : hb[i] = hb[j] => i = j
  <2>1. \A i, j \in 1..Len(s) : s[i] = s[j] => i = j
    BY <1>2
  <2> QED
    BY <1>7, <2>1, ChosenOnce
<1>12. /\ ho \in Seq(Builder!Ids)
       /\ \A x : (\E i \in 1..Len(ho) : ho[i] = x)
                   <=> /\ b.kind = "action" => x # b.id
                       /\ \E j \in 1..Len(o) : o[j] = x
       /\ \A i, j \in 1..Len(ho) : ho[i] = ho[j] => i = j
  <2>1. CASE b.kind = "action"
    <3> DEFINE c == Chosen(o, O)
    <3>1. /\ c \in Seq(Builder!Ids)
          /\ \A x : (\E i \in 1..Len(c) : c[i] = x) <=> x \in O /\ \E j \in 1..Len(o) : o[j] = x
      BY <1>7, ChosenIs
    <3>2. \A i, j \in 1..Len(c) : c[i] = c[j] => i = j
      BY <1>2, <1>7, ChosenOnce
    <3>3. ho = c
      BY <2>1
    <3> HIDE DEF c, ho
    <3> QED
      BY <1>6, <2>1, <3>1, <3>2, <3>3
  <2>2. CASE b.kind # "action"
    BY <1>2, <1>7, <2>2
  <2> QED
    BY <2>1, <2>2
<1> HIDE DEF hb, ho
<1>13. \A i \in 1..Len(hb) : hb[i] # b /\ \E j \in 1..Len(s) : s[j] = hb[i]
  BY <1>5, <1>10
<1>14. ASSUME NEW i \in 1..Len(hb), NEW j \in 1..Len(hb), hb[i].kind = hb[j].kind, hb[i].id = hb[j].id
       PROVE  i = j
  <2>1. PICK k \in 1..Len(s) : s[k] = hb[i]
    BY <1>13
  <2>2. PICK l \in 1..Len(s) : s[l] = hb[j]
    BY <1>13
  <2>3. k = l
    BY <1>2, <1>14, <2>1, <2>2
  <2> QED
    BY <1>11, <2>1, <2>2, <2>3
<1>15. ASSUME NEW x
       PROVE  (\E i \in 1..Len(hb) : hb[i].kind = "action" /\ hb[i].id = x)
                <=> (b.kind = "action" => x # b.id)
                      /\ \E j \in 1..Len(s) : s[j].kind = "action" /\ s[j].id = x
  <2>1. ASSUME NEW i \in 1..Len(hb), hb[i].kind = "action", hb[i].id = x
        PROVE  (b.kind = "action" => x # b.id)
                 /\ \E j \in 1..Len(s) : s[j].kind = "action" /\ s[j].id = x
    <3>1. PICK j \in 1..Len(s) : s[j] = hb[i]
      BY <1>13
    <3>2. j # d
      BY <1>13, <1>19, <3>1
    <3>3. b.kind = "action" => x # b.id
      BY <1>2, <1>19, <2>1, <3>1, <3>2
    <3> QED
      BY <2>1, <3>1, <3>3
  <2>2. ASSUME b.kind = "action" => x # b.id,
               NEW j \in 1..Len(s), s[j].kind = "action", s[j].id = x
        PROVE  \E i \in 1..Len(hb) : hb[i].kind = "action" /\ hb[i].id = x
    <3>1. s[j] # b
      BY <2>2
    <3>2. PICK i \in 1..Len(hb) : hb[i] = s[j]
      BY <1>5, <1>10, <3>1
    <3> QED
      BY <2>2, <3>2
  <2> QED
    BY <2>1, <2>2
<1>16. h \in Drawings
  BY <1>7, <1>9, <1>10, <1>12, BoxesAre DEF Drawings
<1>17. Len(hb) <= MaxBoxes
  BY <1>1, <1>7, <1>10, BoxesAre
<1>18. ASSUME NEW x PROVE (\E i \in 1..Len(ho) : ho[i] = x) <=> ActsAs(h, x)
  <2>1. ActsAs(h, x) <=> \E i \in 1..Len(hb) : hb[i].kind = "action" /\ hb[i].id = x
    BY <1>9 DEF ActsAs
  <2>2. (\E i \in 1..Len(ho) : ho[i] = x)
          <=> (b.kind = "action" => x # b.id) /\ \E j \in 1..Len(o) : o[j] = x
    BY <1>12
  <2>3. (\E j \in 1..Len(o) : o[j] = x) <=> \E j \in 1..Len(s) : s[j].kind = "action" /\ s[j].id = x
    BY <1>2
  <2> QED
    BY <1>15, <2>1, <2>2, <2>3
<1> QED
  BY <1>9, <1>12, <1>14, <1>16, <1>17, <1>18 DEF WellDrawn

\* A box that was set, and two neighbours that changed places.
LEMMA SetIs ==
  ASSUME NEW g, WellDrawn(g), NEW d \in 1..Len(g.boxes), NEW what \in Settings \cup {NotSet},
         NEW h, h = Builder!setNode(g, d, what)
  PROVE  WellDrawn(h)
<1> DEFINE b == [g.boxes[d] EXCEPT !.does = what]
<1>1. /\ g \in Drawings /\ g.boxes[d] \in Builder!Box /\ Len(g.boxes) <= MaxBoxes
      /\ \A i, j \in 1..Len(g.boxes) :
           g.boxes[i].kind = g.boxes[j].kind /\ g.boxes[i].id = g.boxes[j].id => i = j
      /\ \A i, j \in 1..Len(g.order) : g.order[i] = g.order[j] => i = j
      /\ \A x : (\E i \in 1..Len(g.order) : g.order[i] = x) <=> ActsAs(g, x)
  BY DrawnBy DEF WellDrawn
<1>2. b \in Builder!Box /\ b.kind = g.boxes[d].kind /\ b.id = g.boxes[d].id
  BY <1>1 DEF Builder!Box
<1>3. /\ h.boxes = [g.boxes EXCEPT ![d] = b] /\ h.order = g.order /\ h.split = g.split
      /\ h = [boxes |-> h.boxes, order |-> h.order, split |-> h.split]
  BY <1>1 DEF Builder!setNode, Drawings
<1> HIDE DEF b
<1>4. /\ h.boxes \in Seq(Builder!Box) /\ Len(h.boxes) = Len(g.boxes)
      /\ \A i \in 1..Len(g.boxes) : h.boxes[i].kind = g.boxes[i].kind /\ h.boxes[i].id = g.boxes[i].id
  BY <1>1, <1>2, <1>3, DrawnBy, ExceptSeq
<1>5. h \in Drawings
  BY <1>1, <1>3, <1>4, DrawnBy DEF Drawings
<1>6. \A x : ActsAs(h, x) <=> ActsAs(g, x)
  BY <1>4 DEF ActsAs
<1>7. \A i, j \in 1..Len(h.boxes) :
        h.boxes[i].kind = h.boxes[j].kind /\ h.boxes[i].id = h.boxes[j].id => i = j
  BY <1>1, <1>4
<1> QED
  BY <1>1, <1>3, <1>4, <1>5, <1>6, <1>7 DEF WellDrawn

\* Two neighbours of the order are swapped: it still lists every acting box once.
LEMMA ReorderedIs ==
  ASSUME NEW g, WellDrawn(g), NEW d \in 1..(Len(g.order) - 1), NEW h, h = Builder!reorder(g, d)
  PROVE  WellDrawn(h)
<1> DEFINE o == g.order
           n == Len(g.order)
<1>1. /\ g \in Drawings /\ Len(g.boxes) <= MaxBoxes
      /\ \A i, j \in 1..n : o[i] = o[j] => i = j
      /\ \A x : (\E i \in 1..n : o[i] = x) <=> ActsAs(g, x)
  BY DEF WellDrawn
<1>2. n \in Nat /\ o \in Seq(Builder!Ids) /\ \A i \in 1..n : o[i] \in Builder!Ids
  BY <1>1, DrawnBy
<1>3. d \in 1..n /\ d + 1 \in 1..n /\ d # d + 1
  BY <1>2
<1>4. /\ h.boxes = g.boxes /\ h.split = g.split
      /\ h.order = [o EXCEPT ![d] = o[d + 1], ![d + 1] = o[d]]
      /\ h = [boxes |-> h.boxes, order |-> h.order, split |-> h.split]
  BY <1>1 DEF Builder!reorder, Drawings
<1> HIDE DEF o
<1>5. /\ h.order \in Seq(Builder!Ids) /\ Len(h.order) = n
      /\ \A i \in 1..n : h.order[i] = IF i = d THEN o[d + 1] ELSE IF i = d + 1 THEN o[d] ELSE o[i]
  BY <1>2, <1>3, <1>4 DEF o
<1> HIDE DEF n
<1>6. h \in Drawings
  BY <1>1, <1>4, <1>5, DrawnBy DEF Drawings
<1>7. \A i, j \in 1..n : h.order[i] = h.order[j] => i = j
  BY <1>1, <1>3, <1>5
<1>8. \A x : (\E i \in 1..n : h.order[i] = x) <=> (\E i \in 1..n : o[i] = x)
  BY <1>3, <1>5
<1>9. \A x : ActsAs(h, x) <=> ActsAs(g, x)
  BY <1>4 DEF ActsAs
<1>10. \A x : (\E i \in 1..n : h.order[i] = x) <=> ActsAs(h, x)
  BY <1>1, <1>8, <1>9
<1>11. \A i, j \in 1..Len(h.boxes) :
         h.boxes[i].kind = h.boxes[j].kind /\ h.boxes[i].id = h.boxes[j].id => i = j
  BY <1>4 DEF WellDrawn
<1> QED
  BY <1>1, <1>4, <1>5, <1>6, <1>7, <1>10, <1>11 DEF WellDrawn

\* A rule and the drawing it was saved from: it does what the boxes were numbered.
Pictured(r, g) ==
  /\ Sound(r) /\ WellDrawn(g)
  /\ Builder!does(Builder!orderedActions(g)) = r.actions \o r.followUps
  /\ Len(r.actions) = Builder!follows(g)
  /\ NotSet \notin Builder!Range(Builder!does(Builder!orderedActions(g))) \cup {r.trigger}

SaveRecs == [graph : Drawings, rule : Nat, at : {"sent", "answered"}, here : BOOLEAN]

CanvasTypes ==
  /\ {editing, mine} \subseteq 0..Len(rules) /\ report \in {"none", "valid", "errors"}
  /\ due \in BOOLEAN /\ acts \in 0..MaxActs
  /\ saves \in Seq(SaveRecs) /\ listed \in Seq(Builder!Rule) /\ Len(listed) <= Len(rules)
  /\ rules \in Seq(Builder!Rule) /\ drawn \in Seq(Drawings)
  /\ Len(drawn) = Len(rules) /\ Len(rules) <= MaxRules

\* Whatever is drawn, sent, saved or listed is drawn well, and every rule is what was drawn.
CanvasInv ==
  /\ CanvasTypes /\ WellDrawn(graph)
  /\ \A i \in 1..Len(saves) : WellDrawn(saves[i].graph) /\ saves[i].rule <= Len(rules)
  /\ \A r \in 1..Len(rules) : Pictured(rules[r], drawn[r])
  /\ \A r \in 1..Len(listed) : Sound(listed[r])

\* A rule that is switched or deleted still does what was drawn.
LEMMA StaysPictured ==
  ASSUME NEW r, NEW g, Pictured(r, g), NEW q \in Builder!Rule,
         q.trigger = r.trigger, q.actions = r.actions, q.followUps = r.followUps
  PROVE  Pictured(q, g)
BY DEF Pictured, Sound

\* A drawing that is complete is pictured by the rule made of it.
LEMMA IsPictured ==
  ASSUME NEW g, WellDrawn(g), Builder!valid(g), NEW e \in BOOLEAN
  PROVE  /\ Pictured(Builder!toRule(g, e), g) /\ Builder!toRule(g, e) \in Builder!Rule
         /\ g \in Drawings
<1> DEFINE r == Builder!toRule(g, e)
<1>1. /\ Sound(r)
      /\ Builder!does(Builder!orderedActions(g)) = r.actions \o r.followUps
      /\ Len(r.actions) = Builder!follows(g)
      /\ NotSet \notin Builder!Range(Builder!does(Builder!orderedActions(g))) \cup {r.trigger}
  BY RuleOf
<1> HIDE DEF r
<1>2. Pictured(r, g) /\ r \in Builder!Rule /\ g \in Drawings
  BY <1>1 DEF Pictured, Sound, WellDrawn
<1> QED
  BY <1>2 DEF r

\* The drawing of a rule pictures it.
LEMMA OpenedIsPictured ==
  ASSUME NEW r, Sound(r)
  PROVE  Pictured(r, Builder!toGraph(r)) /\ WellDrawn(Builder!toGraph(r))
<1> DEFINE g == Builder!toGraph(r)
           q == Builder!toRule(g, r.enabled)
<1>1. /\ r \in Builder!Rule /\ r.enabled \in BOOLEAN
  BY DEF Sound, Builder!Rule
<1>2. WellDrawn(g) /\ Builder!valid(g) /\ q = [r EXCEPT !.kept = TRUE]
  BY OpenedIs
<1>3. r.trigger = q.trigger /\ r.actions = q.actions /\ r.followUps = q.followUps
  BY <1>1, <1>2 DEF Builder!Rule
<1>4. Pictured(q, g)
  BY <1>1, <1>2, IsPictured
<1> HIDE DEF g, q
<1>5. Pictured(r, g)
  BY <1>1, <1>3, <1>4, StaysPictured
<1> QED
  BY <1>2, <1>5 DEF g

\* An empty canvas is drawn well.
LEMMA EmptyIsDrawn == WellDrawn(Builder!Empty)
<1> DEFINE e == Builder!Empty
<1>1. e.boxes = <<>> /\ e.order = <<>> /\ e.split = 0
      /\ e = [boxes |-> e.boxes, order |-> e.order, split |-> e.split]
  BY DEF Builder!Empty, Builder!None
<1> HIDE DEF e
<1>2. Len(e.boxes) = 0 /\ Len(e.order) = 0
  BY <1>1
<1>3. 0 \in Builder!Ids /\ 0 <= MaxBoxes /\ <<>> \in Seq(Builder!Box) /\ <<>> \in Seq(Builder!Ids)
  BY BoxesAre
<1>4. e \in Drawings
  BY <1>1, <1>3 DEF Drawings
<1>5. \A x : ~ActsAs(e, x)
  BY <1>2 DEF ActsAs
<1>6. WellDrawn(e)
  BY <1>2, <1>3, <1>4, <1>5 DEF WellDrawn
<1> QED
  BY <1>6 DEF e

\* At first the canvas is empty, and the suggested rule is the only one.
LEMMA CanvasInit == Builder!Init => CanvasInv
<1> SUFFICES ASSUME Builder!Init PROVE CanvasInv
  OBVIOUS
<1> DEFINE r == [trigger |-> "a", actions |-> <<"a">>, followUps |-> <<"b">>,
                 enabled |-> FALSE, kept |-> TRUE]
<1>1. /\ graph = Builder!Empty /\ editing = 0 /\ report = "none" /\ saves = <<>>
      /\ rules = <<r>> /\ listed = <<>> /\ due = TRUE /\ drawn = <<Builder!toGraph(r)>>
      /\ mine = 0 /\ acts = 0
  BY DEF Builder!Init, Suggested, Builder!None
<1>2. r \in Builder!Rule /\ r.actions # <<>> /\ Len(r.actions) = 1 /\ Len(r.followUps) = 1
  <2>1. <<"a">> \in Seq(Settings) /\ <<"b">> \in Seq(Settings) /\ "a" \in Settings
    BY CanvasAssumption
  <2> QED
    BY <2>1 DEF Builder!Rule
<1> HIDE DEF r
<1>3. Sound(r)
  <2>1. 1 + 1 < MaxBoxes
    BY CanvasAssumption
  <2> QED
    BY <1>2, <2>1 DEF Sound
<1>4. Pictured(r, Builder!toGraph(r)) /\ WellDrawn(Builder!toGraph(r))
  BY <1>3, OpenedIsPictured
<1>5. /\ rules \in Seq(Builder!Rule) /\ Len(rules) = 1 /\ rules[1] = r
      /\ drawn \in Seq(Drawings) /\ Len(drawn) = 1 /\ drawn[1] = Builder!toGraph(r)
      /\ Len(saves) = 0 /\ Len(listed) = 0 /\ saves \in Seq(SaveRecs) /\ listed \in Seq(Builder!Rule)
  BY <1>1, <1>2, <1>4 DEF WellDrawn
<1>6. 1 <= MaxRules /\ MaxActs \in Nat
  BY CanvasAssumption
<1>7. CanvasTypes
  BY <1>1, <1>5, <1>6 DEF CanvasTypes
<1>8. \A k \in 1..Len(rules) : Pictured(rules[k], drawn[k])
  BY <1>4, <1>5
<1> QED
  BY <1>1, <1>5, <1>7, <1>8, EmptyIsDrawn DEF CanvasInv

\* What is left of a list when one of it is taken out.
LEMMA RemovedFrom ==
  ASSUME NEW T, NEW s \in Seq(T), NEW i \in 1..Len(s), NEW t, t = Builder!RemoveAt(s, i)
  PROVE  t \in Seq(T) /\ \A j \in 1..Len(t) : \E k \in 1..Len(s) : t[j] = s[k]
<1> DEFINE u == SubSeq(s, 1, i - 1)
           v == SubSeq(s, i + 1, Len(s))
<1>0. /\ Len(s) \in Nat /\ i - 1 \in Int /\ i + 1 \in Int /\ i \in Nat /\ 1 <= i /\ i <= Len(s)
      /\ \A k \in 1..Len(s) : s[k] \in T
  OBVIOUS
<1>1. /\ \A k \in 1..(i - 1) : k \in 1..Len(s)
      /\ \A k \in (i + 1)..Len(s) : k \in 1..Len(s)
  BY <1>0
<1>2. u \in Seq(T) /\ \A j \in 1..Len(u) : \E k \in 1..Len(s) : u[j] = s[k]
  <2>1. /\ u \in Seq(T) /\ Len(u) = IF 1 <= i - 1 THEN (i - 1) - 1 + 1 ELSE 0
        /\ \A j \in 1..((i - 1) - 1 + 1) : u[j] = s[1 + j - 1]
    BY <1>0, <1>1, SubSeqProperties
  <2> HIDE DEF u
  <2>2. \A j \in 1..Len(u) : j \in 1..((i - 1) - 1 + 1) /\ 1 + j - 1 \in 1..Len(s)
    BY <1>0, <2>1
  <2> QED
    BY <2>1, <2>2
<1>3. v \in Seq(T) /\ \A j \in 1..Len(v) : \E k \in 1..Len(s) : v[j] = s[k]
  <2>1. /\ v \in Seq(T) /\ Len(v) = IF i + 1 <= Len(s) THEN Len(s) - (i + 1) + 1 ELSE 0
        /\ \A j \in 1..(Len(s) - (i + 1) + 1) : v[j] = s[(i + 1) + j - 1]
    BY <1>0, <1>1, SubSeqProperties
  <2> HIDE DEF v
  <2>2. \A j \in 1..Len(v) : j \in 1..(Len(s) - (i + 1) + 1) /\ (i + 1) + j - 1 \in 1..Len(s)
    BY <1>0, <2>1
  <2> QED
    BY <2>1, <2>2
<1>4. t = u \o v
  BY DEF Builder!RemoveAt
<1> HIDE DEF u, v
<1>5. /\ t \in Seq(T) /\ Len(t) = Len(u) + Len(v)
      /\ \A j \in 1..(Len(u) + Len(v)) : t[j] = IF j <= Len(u) THEN u[j] ELSE v[j - Len(u)]
  BY <1>2, <1>3, <1>4, ConcatProperties
<1>6. Len(u) \in Nat /\ Len(v) \in Nat
  BY <1>2, <1>3
<1>7. \A j \in 1..Len(t) : \/ j \in 1..Len(u) /\ t[j] = u[j]
                           \/ j - Len(u) \in 1..Len(v) /\ t[j] = v[j - Len(u)]
  BY <1>5, <1>6
<1> QED
  BY <1>2, <1>3, <1>5, <1>7

\* Fields of a save.
LEMMA SaveFields ==
  ASSUME CanvasInv
  PROVE  /\ Len(saves) \in Nat /\ Len(rules) \in Nat /\ Len(listed) \in Nat /\ Len(drawn) = Len(rules)
         /\ DOMAIN saves = 1..Len(saves) /\ DOMAIN rules = 1..Len(rules)
         /\ DOMAIN listed = 1..Len(listed) /\ DOMAIN graph.boxes = 1..Len(graph.boxes)
         /\ \A i \in 1..Len(saves) : /\ saves[i] \in SaveRecs /\ WellDrawn(saves[i].graph)
                                     /\ saves[i].rule \in 0..Len(rules)
         /\ \A r \in 1..Len(rules) : rules[r] \in Builder!Rule /\ Pictured(rules[r], drawn[r])
         /\ \A r \in 1..Len(listed) : r \in 1..Len(rules) /\ Sound(listed[r])
<1>1. /\ saves \in Seq(SaveRecs) /\ rules \in Seq(Builder!Rule) /\ listed \in Seq(Builder!Rule)
      /\ Len(listed) <= Len(rules) /\ Len(drawn) = Len(rules) /\ graph \in Drawings
      /\ \A i \in 1..Len(saves) : WellDrawn(saves[i].graph) /\ saves[i].rule <= Len(rules)
      /\ \A r \in 1..Len(rules) : Pictured(rules[r], drawn[r])
      /\ \A r \in 1..Len(listed) : Sound(listed[r])
  BY DEF CanvasInv, CanvasTypes, WellDrawn
<1>2. Len(saves) \in Nat /\ Len(rules) \in Nat /\ Len(listed) \in Nat
  BY <1>1
<1>3. \A i \in 1..Len(saves) : saves[i] \in SaveRecs /\ saves[i].rule \in Nat
  <2>1. \A i \in 1..Len(saves) : saves[i] \in SaveRecs
    BY <1>1
  <2> QED
    BY <2>1 DEF SaveRecs
<1>4. /\ \A i \in 1..Len(saves) : saves[i].rule \in 0..Len(rules)
      /\ \A r \in 1..Len(listed) : r \in 1..Len(rules)
  <2>1. \A i \in 1..Len(saves) : saves[i].rule <= Len(rules)
    BY <1>1
  <2>2. Len(listed) <= Len(rules)
    BY <1>1
  <2> QED
    BY <1>2, <1>3, <2>1, <2>2
<1>5. /\ DOMAIN saves = 1..Len(saves) /\ DOMAIN rules = 1..Len(rules)
      /\ DOMAIN listed = 1..Len(listed) /\ DOMAIN graph.boxes = 1..Len(graph.boxes)
      /\ \A r \in 1..Len(rules) : rules[r] \in Builder!Rule
  BY <1>1, DrawnBy
<1> QED
  BY <1>1, <1>2, <1>3, <1>4, <1>5

\* The canvas shows something else that is drawn well; the saves under way are the same ones.
LEMMA ShowsAnother ==
  ASSUME CanvasInv, WellDrawn(graph'), report' \in {"none", "valid", "errors"},
         editing' \in 0..Len(rules), mine' \in 0..Len(rules), acts' \in 0..MaxActs,
         saves' = saves \/ saves' = Builder!left, UNCHANGED <<listed, due, rules, drawn>>
  PROVE  CanvasInv'
<1>1. saves' \in Seq(SaveRecs) /\ Len(saves') = Len(saves)
      /\ \A i \in 1..Len(saves) : saves'[i].graph = saves[i].graph /\ saves'[i].rule = saves[i].rule
  <2>1. CASE saves' = saves
    BY <2>1 DEF CanvasInv, CanvasTypes
  <2>2. CASE saves' = Builder!left
    <3> DEFINE elsewhere(i) == [saves[i] EXCEPT !.here = FALSE]
    <3>1. \A i \in 1..Len(saves) : /\ elsewhere(i) \in SaveRecs /\ elsewhere(i).graph = saves[i].graph
                                   /\ elsewhere(i).rule = saves[i].rule
      BY SaveFields DEF SaveRecs
    <3>2. saves' = [i \in 1..Len(saves) |-> elsewhere(i)] /\ Len(saves) \in Nat
      BY <2>2, SaveFields DEF Builder!left
    <3> HIDE DEF elsewhere
    <3> QED
      BY <3>1, <3>2
  <2> QED
    BY <2>1, <2>2
<1>2. CanvasTypes'
  BY <1>1 DEF CanvasInv, CanvasTypes
<1>3. \A i \in 1..Len(saves') : WellDrawn(saves'[i].graph) /\ saves'[i].rule <= Len(rules)
  BY <1>1, SaveFields DEF CanvasInv
<1> QED
  BY <1>2, <1>3 DEF CanvasInv

\* The saves change, and nothing is drawn or ruled.
LEMMA SavesChange ==
  ASSUME CanvasInv, saves' \in Seq(SaveRecs),
         \A i \in 1..Len(saves') : WellDrawn(saves'[i].graph) /\ saves'[i].rule <= Len(rules),
         editing' \in 0..Len(rules), mine' \in 0..Len(rules), acts' \in 0..MaxActs,
         due' \in BOOLEAN, UNCHANGED <<graph, report, listed, rules, drawn>>
  PROVE  CanvasInv'
BY DEF CanvasInv, CanvasTypes

\* The rules change, each with its drawing, and nothing else that matters.
LEMMA RulesChange ==
  ASSUME CanvasInv, rules' \in Seq(Builder!Rule), drawn' \in Seq(Drawings),
         Len(rules') = Len(rules), Len(drawn') = Len(rules),
         \A r \in 1..Len(rules) : Pictured(rules'[r], drawn'[r]),
         saves' \in Seq(SaveRecs),
         \A i \in 1..Len(saves') : WellDrawn(saves'[i].graph) /\ saves'[i].rule <= Len(rules),
         acts' \in 0..MaxActs, due' \in BOOLEAN, UNCHANGED <<graph, editing, report, listed, mine>>
  PROVE  CanvasInv'
BY DEF CanvasInv, CanvasTypes

\* What the owner does to the canvas.
LEMMA EditsStep ==
  ASSUME CanvasInv, Len(rules) \in Nat,
         \/ \E kind \in {"trigger", "action"}, setting \in Settings \cup {NotSet} : Builder!Add(kind, setting)
         \/ \E i \in DOMAIN graph.boxes : \/ Builder!Discard(i)
                                          \/ \E setting \in Settings \cup {NotSet} : Builder!Set(i, setting)
         \/ \E i \in 1..(Len(graph.order) - 1) : Builder!Reorder(i)
  PROVE  CanvasInv'
<1>1. ASSUME NEW g, Builder!Edit(g), WellDrawn(g) PROVE CanvasInv'
  <2>1. /\ graph' = g /\ report' = (IF g.boxes = <<>> THEN "none" ELSE report)
        /\ acts' = acts + 1 /\ acts < MaxActs /\ UNCHANGED <<editing, saves, listed, due, rules, drawn, mine>>
    BY <1>1 DEF Builder!Edit, Builder!Shows, Builder!Act
  <2>2. /\ report' \in {"none", "valid", "errors"} /\ editing' \in 0..Len(rules) /\ mine' \in 0..Len(rules)
        /\ acts' \in 0..MaxActs
    <3>1. acts \in 0..MaxActs /\ MaxActs \in Nat
      BY CanvasAssumption DEF CanvasInv, CanvasTypes
    <3>2. acts' \in 0..MaxActs
      BY <2>1, <3>1
    <3> QED
      BY <2>1, <3>2 DEF CanvasInv, CanvasTypes
  <2> QED
    BY <1>1, <2>1, <2>2, ShowsAnother
<1>2. WellDrawn(graph) /\ DOMAIN graph.boxes = 1..Len(graph.boxes)
  BY SaveFields DEF CanvasInv
<1>3. ASSUME NEW kind \in {"trigger", "action"}, NEW setting \in Settings \cup {NotSet},
             Builder!Add(kind, setting)
      PROVE  CanvasInv'
  <2>1. Len(graph.boxes) < MaxBoxes /\ Builder!Edit(Builder!addNode(graph, kind, setting))
    BY <1>3 DEF Builder!Add
  <2>2. WellDrawn(Builder!addNode(graph, kind, setting))
    BY <1>2, <2>1, AddedIs
  <2> QED
    BY <1>1, <2>1, <2>2
<1>4. ASSUME NEW i \in DOMAIN graph.boxes, Builder!Discard(i) PROVE CanvasInv'
  <2>1. Builder!Edit(Builder!removeNode(graph, graph.boxes[i]))
    BY <1>4 DEF Builder!Discard
  <2>2. WellDrawn(Builder!removeNode(graph, graph.boxes[i]))
    BY <1>2, RemovedIs
  <2> QED
    BY <1>1, <2>1, <2>2
<1>5. ASSUME NEW i \in DOMAIN graph.boxes, NEW setting \in Settings \cup {NotSet}, Builder!Set(i, setting)
      PROVE  CanvasInv'
  <2>1. Builder!Edit(Builder!setNode(graph, i, setting))
    BY <1>5 DEF Builder!Set
  <2>2. WellDrawn(Builder!setNode(graph, i, setting))
    BY <1>2, SetIs
  <2> QED
    BY <1>1, <2>1, <2>2
<1>6. ASSUME NEW i \in 1..(Len(graph.order) - 1), Builder!Reorder(i) PROVE CanvasInv'
  <2>1. Builder!Edit(Builder!reorder(graph, i))
    BY <1>6 DEF Builder!Reorder
  <2>2. WellDrawn(Builder!reorder(graph, i))
    BY <1>2, ReorderedIs
  <2> QED
    BY <1>1, <2>1, <2>2
<1> QED
  BY <1>3, <1>4, <1>5, <1>6

\* A drawing is replaced by another: opened from the list, or begun again.
LEMMA OpensStep ==
  ASSUME CanvasInv, (\E r \in DOMAIN listed : Builder!Open(r)) \/ Builder!StartAgain
  PROVE  CanvasInv'
<1>1. acts \in 0..MaxActs /\ MaxActs \in Nat /\ Len(rules) \in Nat /\ report \in {"none", "valid", "errors"}
  BY CanvasAssumption, SaveFields DEF CanvasInv, CanvasTypes
<1>2. ASSUME NEW g, WellDrawn(g), Builder!Act, Builder!Shows(g), NEW r \in 0..Len(rules), editing' = r,
             mine' = r, saves' = Builder!left, UNCHANGED <<listed, due, rules, drawn>>
      PROVE  CanvasInv'
  <2>1. graph' = g /\ report' \in {"none", "valid", "errors"} /\ acts' \in 0..MaxActs
    BY <1>1, <1>2 DEF Builder!Shows, Builder!Act
  <2> QED
    BY <1>2, <2>1, ShowsAnother
<1>3. ASSUME NEW r \in DOMAIN listed, Builder!Open(r) PROVE CanvasInv'
  <2>1. r \in 0..Len(rules) /\ Sound(listed[r])
    BY <1>1, SaveFields
  <2>2. WellDrawn(Builder!toGraph(listed[r]))
    BY <2>1, OpenedIsPictured
  <2> QED
    BY <1>2, <1>3, <2>1, <2>2 DEF Builder!Open
<1>4. ASSUME Builder!StartAgain PROVE CanvasInv'
  <2>1. 0 \in 0..Len(rules)
    BY <1>1
  <2> QED
    BY <1>2, <1>4, <2>1, EmptyIsDrawn DEF Builder!StartAgain, Builder!None
<1> QED
  BY <1>3, <1>4

\* A save is sent, answered or lost.
LEMMA SavesStep ==
  ASSUME CanvasInv, Builder!Save \/ \E i \in DOMAIN saves : Builder!SaveReturns(i) \/ Builder!SaveFails(i)
  PROVE  CanvasInv'
<1>1. /\ acts \in 0..MaxActs /\ MaxActs \in Nat /\ Len(rules) \in Nat /\ Len(saves) \in Nat
      /\ editing \in 0..Len(rules) /\ mine \in 0..Len(rules) /\ due \in BOOLEAN
      /\ saves \in Seq(SaveRecs)
      /\ \A i \in 1..Len(saves) : /\ saves[i] \in SaveRecs /\ WellDrawn(saves[i].graph)
                                  /\ saves[i].rule \in 0..Len(rules)
  BY CanvasAssumption, SaveFields DEF CanvasInv, CanvasTypes
<1>2. ASSUME Builder!Save PROVE CanvasInv'
  <2> DEFINE s == [graph |-> graph, rule |-> editing, at |-> "sent", here |-> TRUE]
  <2>1. s \in SaveRecs /\ s.graph = graph /\ s.rule = editing /\ WellDrawn(graph)
    <3>1. WellDrawn(graph) /\ graph \in Drawings /\ editing \in Nat
      BY <1>1 DEF CanvasInv, WellDrawn
    <3> QED
      BY <3>1 DEF SaveRecs
  <2>2. saves' = Append(saves, s) /\ acts' = acts + 1 /\ acts < MaxActs
        /\ UNCHANGED <<graph, editing, report, listed, due, rules, drawn, mine>>
    BY <1>2 DEF Builder!Save, Builder!Act
  <2> HIDE DEF s
  <2>3. /\ saves' \in Seq(SaveRecs) /\ Len(saves') = Len(saves) + 1
        /\ saves'[Len(saves) + 1] = s /\ \A i \in 1..Len(saves) : saves'[i] = saves[i]
    BY <1>1, <2>1, <2>2, AppendProperties
  <2>4. ASSUME NEW i \in 1..Len(saves') PROVE WellDrawn(saves'[i].graph) /\ saves'[i].rule <= Len(rules)
    <3>1. i \in 1..Len(saves) \/ i = Len(saves) + 1
      BY <1>1, <2>3
    <3>2. CASE i \in 1..Len(saves)
      BY <1>1, <2>3, <3>2
    <3>3. CASE i = Len(saves) + 1
      BY <1>1, <2>1, <2>3, <3>3
    <3> QED
      BY <3>1, <3>2, <3>3
  <2>5. acts' \in 0..MaxActs
    BY <1>1, <2>2
  <2> QED
    BY <1>1, <2>2, <2>3, <2>4, <2>5, SavesChange
<1>3. ASSUME NEW i \in 1..Len(saves), saves' = Builder!RemoveAt(saves, i)
      PROVE  /\ saves' \in Seq(SaveRecs)
             /\ \A j \in 1..Len(saves') : WellDrawn(saves'[j].graph) /\ saves'[j].rule <= Len(rules)
  <2>1. saves' \in Seq(SaveRecs) /\ \A j \in 1..Len(saves') : \E k \in 1..Len(saves) : saves'[j] = saves[k]
    BY <1>1, <1>3, RemovedFrom
  <2>2. \A k \in 1..Len(saves) : WellDrawn(saves[k].graph) /\ saves[k].rule <= Len(rules)
    BY <1>1
  <2> QED
    BY <2>1, <2>2
<1>4. ASSUME NEW i \in DOMAIN saves, Builder!SaveReturns(i) PROVE CanvasInv'
  <2>1. /\ i \in 1..Len(saves) /\ saves' = Builder!RemoveAt(saves, i) /\ editing' = saves[i].rule
        /\ due' = TRUE /\ mine' = (IF saves[i].here THEN saves[i].rule ELSE mine)
        /\ UNCHANGED <<graph, report, listed, rules, drawn, acts>>
    BY <1>4, SaveFields DEF Builder!SaveReturns, Builder!Over
  <2>2. editing' \in 0..Len(rules) /\ mine' \in 0..Len(rules) /\ acts' \in 0..MaxActs
    BY <1>1, <2>1
  <2> QED
    BY <1>3, <2>1, <2>2, SavesChange
<1>5. ASSUME NEW i \in DOMAIN saves, Builder!SaveFails(i) PROVE CanvasInv'
  <2>1. /\ i \in 1..Len(saves) /\ saves' = Builder!RemoveAt(saves, i)
        /\ UNCHANGED <<graph, editing, report, listed, due, rules, drawn, mine, acts>>
    BY <1>5, SaveFields DEF Builder!SaveFails, Builder!Over
  <2> QED
    BY <1>1, <1>3, <2>1, SavesChange
<1> QED
  BY <1>2, <1>4, <1>5

\* The server makes a rule of a drawing, or replaces one.
LEMMA ServerStep ==
  ASSUME CanvasInv, \E i \in DOMAIN saves : Builder!Create(i) \/ Builder!Update(i)
  PROVE  CanvasInv'
<1>1. /\ acts \in 0..MaxActs /\ Len(rules) \in Nat /\ Len(saves) \in Nat /\ Len(rules) <= MaxRules
      /\ editing \in 0..Len(rules) /\ mine \in 0..Len(rules) /\ due \in BOOLEAN
      /\ saves \in Seq(SaveRecs) /\ rules \in Seq(Builder!Rule) /\ drawn \in Seq(Drawings)
      /\ Len(drawn) = Len(rules) /\ Len(listed) <= Len(rules) /\ Len(listed) \in Nat
      /\ MaxRules \in Nat /\ DOMAIN saves = 1..Len(saves)
      /\ \A i \in 1..Len(saves) : /\ saves[i] \in SaveRecs /\ WellDrawn(saves[i].graph)
                                  /\ saves[i].rule \in 0..Len(rules)
      /\ \A r \in 1..Len(rules) : rules[r] \in Builder!Rule /\ Pictured(rules[r], drawn[r])
  BY CanvasAssumption, SaveFields DEF CanvasInv, CanvasTypes
<1>2. ASSUME NEW i \in 1..Len(saves), Builder!Create(i) PROVE CanvasInv'
  <2> DEFINE g == saves[i].graph
             q == Builder!toRule(g, FALSE)
             n == Len(rules)
             s == [saves[i] EXCEPT !.at = "answered", !.rule = n + 1]
  <2>1. /\ Builder!valid(g) /\ n < MaxRules /\ rules' = Append(rules, q) /\ drawn' = Append(drawn, g)
        /\ saves' = [saves EXCEPT ![i].at = "answered", ![i].rule = n + 1]
        /\ UNCHANGED <<graph, editing, report, listed, due, mine, acts>>
    BY <1>2 DEF Builder!Create
  <2>2. Pictured(q, g) /\ q \in Builder!Rule /\ g \in Drawings /\ WellDrawn(g)
    BY <1>1, <2>1, IsPictured
  <2>3. s \in SaveRecs /\ s.graph = g /\ s.rule = n + 1 /\ saves' = [saves EXCEPT ![i] = s]
    <3>1. saves[i] \in SaveRecs /\ n + 1 \in Nat
      BY <1>1
    <3>2. saves' = [saves EXCEPT ![i] = s]
      BY <2>1
    <3> HIDE DEF n
    <3>3. s \in SaveRecs /\ s.graph = saves[i].graph /\ s.rule = n + 1
      BY <3>1 DEF SaveRecs
    <3> QED
      BY <3>2, <3>3
  <2> HIDE DEF q, s
  <2>4. /\ rules' \in Seq(Builder!Rule) /\ Len(rules') = n + 1 /\ rules'[n + 1] = q
        /\ \A r \in 1..n : rules'[r] = rules[r]
    BY <1>1, <2>1, <2>2, AppendProperties
  <2>5. /\ drawn' \in Seq(Drawings) /\ Len(drawn') = n + 1 /\ drawn'[n + 1] = g
        /\ \A r \in 1..n : drawn'[r] = drawn[r]
    BY <1>1, <2>1, <2>2, AppendProperties
  <2>6. /\ saves' \in Seq(SaveRecs) /\ Len(saves') = Len(saves)
        /\ \A j \in 1..Len(saves) : saves'[j] = IF j = i THEN s ELSE saves[j]
    BY <1>1, <2>3, ExceptSeq
  <2> HIDE DEF n
  <2>7. /\ n \in Nat /\ n + 1 <= MaxRules /\ \A k \in 0..n : k \in 0..(n + 1) /\ k <= n + 1
        /\ \A r \in 1..(n + 1) : r \in 1..n \/ r = n + 1
    BY <1>1, <2>1 DEF n
  <2>8. \A j \in 1..Len(saves') : WellDrawn(saves'[j].graph) /\ saves'[j].rule <= n + 1
    BY <1>1, <2>2, <2>3, <2>6, <2>7 DEF n
  <2>9. \A r \in 1..(n + 1) : Pictured(rules'[r], drawn'[r])
    BY <1>1, <2>2, <2>4, <2>5, <2>7 DEF n
  <2>10. Len(listed') <= n + 1 /\ {editing', mine'} \subseteq 0..(n + 1)
    BY <1>1, <2>1, <2>7 DEF n
  <2>11. CanvasTypes'
    BY <2>1, <2>4, <2>5, <2>6, <2>7, <2>10 DEF CanvasInv, CanvasTypes
  <2> QED
    BY <2>1, <2>4, <2>8, <2>9, <2>11 DEF CanvasInv
<1>3. ASSUME NEW i \in 1..Len(saves), Builder!Update(i) PROVE CanvasInv'
  <2> DEFINE g == saves[i].graph
             r == saves[i].rule
             q == Builder!toRule(g, rules[r].enabled)
             s == [saves[i] EXCEPT !.at = "answered"]
  <2>1. /\ r # 0 /\ Builder!valid(g) /\ rules' = [rules EXCEPT ![r] = Builder!toRule(g, @.enabled)]
        /\ drawn' = [drawn EXCEPT ![r] = g] /\ saves' = [saves EXCEPT ![i].at = "answered"]
        /\ UNCHANGED <<graph, editing, report, listed, due, mine, acts>>
    BY <1>3 DEF Builder!Update, Builder!None
  <2>2. r \in 1..Len(rules)
    BY <1>1, <2>1
  <2>3. rules[r].enabled \in BOOLEAN
    BY <1>1, <2>2 DEF Builder!Rule
  <2>4. Pictured(q, g) /\ q \in Builder!Rule /\ g \in Drawings /\ WellDrawn(g)
    BY <1>1, <2>1, <2>3, IsPictured
  <2>5. s \in SaveRecs /\ s.graph = g /\ s.rule = r /\ saves' = [saves EXCEPT ![i] = s]
    BY <1>1, <2>1 DEF SaveRecs
  <2>6. rules' = [rules EXCEPT ![r] = q]
    BY <2>1
  <2> HIDE DEF q, s, r
  <2>7. /\ rules' \in Seq(Builder!Rule) /\ Len(rules') = Len(rules)
        /\ \A k \in 1..Len(rules) : rules'[k] = IF k = r THEN q ELSE rules[k]
    BY <1>1, <2>2, <2>4, <2>6, ExceptSeq
  <2>8. /\ drawn' \in Seq(Drawings) /\ Len(drawn') = Len(rules)
        /\ \A k \in 1..Len(rules) : drawn'[k] = IF k = r THEN g ELSE drawn[k]
    BY <1>1, <2>1, <2>2, <2>4, ExceptSeq
  <2>9. /\ saves' \in Seq(SaveRecs) /\ Len(saves') = Len(saves)
        /\ \A j \in 1..Len(saves) : saves'[j] = IF j = i THEN s ELSE saves[j]
    BY <1>1, <2>5, ExceptSeq
  <2>10. \A j \in 1..Len(saves') : WellDrawn(saves'[j].graph) /\ saves'[j].rule <= Len(rules)
    BY <1>1, <2>2, <2>4, <2>5, <2>9
  <2>11. \A k \in 1..Len(rules) : Pictured(rules'[k], drawn'[k])
    BY <1>1, <2>4, <2>7, <2>8
  <2> QED
    BY <1>1, <2>1, <2>7, <2>8, <2>9, <2>10, <2>11, RulesChange
<1> QED
  BY <1>1, <1>2, <1>3

\* The owner switches a rule, or deletes it.
LEMMA SwitchesStep ==
  ASSUME CanvasInv, \E r \in DOMAIN listed : Builder!Enable(r) \/ Builder!Delete(r)
  PROVE  CanvasInv'
<1>1. /\ acts \in 0..MaxActs /\ MaxActs \in Nat /\ Len(rules) \in Nat
      /\ rules \in Seq(Builder!Rule) /\ drawn \in Seq(Drawings) /\ saves \in Seq(SaveRecs)
      /\ Len(drawn) = Len(rules) /\ DOMAIN listed = 1..Len(listed)
      /\ \A i \in 1..Len(saves) : WellDrawn(saves[i].graph) /\ saves[i].rule <= Len(rules)
      /\ \A r \in 1..Len(rules) : rules[r] \in Builder!Rule /\ Pictured(rules[r], drawn[r])
      /\ \A r \in 1..Len(listed) : r \in 1..Len(rules) /\ listed[r] \in Builder!Rule
  BY CanvasAssumption, SaveFields DEF CanvasInv, CanvasTypes, Sound
<1>2. ASSUME NEW r \in 1..Len(rules), NEW q \in Builder!Rule, q.trigger = rules[r].trigger,
             q.actions = rules[r].actions, q.followUps = rules[r].followUps,
             rules' = [rules EXCEPT ![r] = q], Builder!Act, due' = TRUE,
             UNCHANGED <<graph, editing, report, saves, listed, drawn, mine>>
      PROVE  CanvasInv'
  <2>1. /\ rules' \in Seq(Builder!Rule) /\ Len(rules') = Len(rules)
        /\ \A k \in 1..Len(rules) : rules'[k] = IF k = r THEN q ELSE rules[k]
    BY <1>1, <1>2, ExceptSeq
  <2>2. Pictured(q, drawn[r])
    BY <1>1, <1>2, StaysPictured
  <2>3. \A k \in 1..Len(rules) : Pictured(rules'[k], drawn'[k])
    BY <1>1, <1>2, <2>1, <2>2
  <2>4. acts' \in 0..MaxActs
    BY <1>1, <1>2 DEF Builder!Act
  <2> QED
    BY <1>1, <1>2, <2>1, <2>3, <2>4, RulesChange
<1>3. ASSUME NEW r \in DOMAIN listed, Builder!Enable(r) PROVE CanvasInv'
  <2> DEFINE q == [rules[r] EXCEPT !.enabled = ~listed[r].enabled]
  <2>1. r \in 1..Len(rules) /\ rules[r] \in Builder!Rule
    BY <1>1
  <2>2. /\ q \in Builder!Rule /\ q.trigger = rules[r].trigger
        /\ q.actions = rules[r].actions /\ q.followUps = rules[r].followUps
    BY <2>1 DEF Builder!Rule
  <2>3. rules' = [rules EXCEPT ![r] = q]
    BY <1>3 DEF Builder!Enable
  <2> HIDE DEF q
  <2> QED
    BY <1>2, <1>3, <2>1, <2>2, <2>3 DEF Builder!Enable
<1>4. ASSUME NEW r \in DOMAIN listed, Builder!Delete(r) PROVE CanvasInv'
  <2> DEFINE q == [rules[r] EXCEPT !.kept = FALSE]
  <2>1. r \in 1..Len(rules) /\ rules[r] \in Builder!Rule
    BY <1>1
  <2>2. /\ q \in Builder!Rule /\ q.trigger = rules[r].trigger
        /\ q.actions = rules[r].actions /\ q.followUps = rules[r].followUps
    BY <2>1 DEF Builder!Rule
  <2>3. rules' = [rules EXCEPT ![r] = q]
    BY <1>4 DEF Builder!Delete
  <2> HIDE DEF q
  <2> QED
    BY <1>2, <1>4, <2>1, <2>2, <2>3 DEF Builder!Delete
<1> QED
  BY <1>3, <1>4

\* Every step keeps the invariant.
LEMMA CanvasStep == CanvasInv /\ [Builder!Next]_canvasVars => CanvasInv'
<1> SUFFICES ASSUME CanvasInv, [Builder!Next]_canvasVars PROVE CanvasInv'
  OBVIOUS
<1>1. CASE UNCHANGED canvasVars
  <2>1. UNCHANGED <<graph, editing, report, saves, listed, due, rules, drawn, mine, acts>>
    BY <1>1 DEF canvasVars
  <2> QED
    BY <2>1 DEF CanvasInv, CanvasTypes
<1>2. CASE Builder!PreviewReturns
  <2>1. /\ report' \in {"none", "valid", "errors"}
        /\ UNCHANGED <<graph, editing, saves, listed, due, rules, drawn, mine, acts>>
    BY <1>2 DEF Builder!PreviewReturns
  <2> QED
    BY <2>1 DEF CanvasInv, CanvasTypes
<1>3. CASE Builder!Refreshed
  <2>1. /\ due' = FALSE /\ listed' = rules
        /\ UNCHANGED <<graph, editing, report, saves, rules, drawn, mine, acts>>
    BY <1>3 DEF Builder!Refreshed
  <2>2. Len(rules) \in Nat /\ \A r \in 1..Len(rules) : Sound(rules[r])
    BY SaveFields DEF Pictured
  <2>3. Len(listed') <= Len(rules)
    BY <2>1, <2>2
  <2>4. CanvasTypes'
    BY <2>1, <2>3 DEF CanvasInv, CanvasTypes
  <2> QED
    BY <2>1, <2>2, <2>4 DEF CanvasInv
<1>4. Len(rules) \in Nat
  BY SaveFields
<1> QED
  BY <1>1, <1>2, <1>3, <1>4, EditsStep, OpensStep, SavesStep, ServerStep, SwitchesStep DEF Builder!Next

\* What the properties say of a state.
LEMMA CanvasInvSays ==
  CanvasInv =>
    Builder!PictureIsTheRule /\ Builder!OpeningChangesNothing /\ Builder!BoxesAreTold /\ Builder!TypeOK
<1> SUFFICES ASSUME CanvasInv
             PROVE  /\ Builder!PictureIsTheRule /\ Builder!OpeningChangesNothing
                    /\ Builder!BoxesAreTold /\ Builder!TypeOK
  OBVIOUS
<1>1. Builder!PictureIsTheRule
  <2>1. \A r \in DOMAIN rules : Pictured(rules[r], drawn[r])
    BY SaveFields
  <2> QED
    BY <2>1 DEF Pictured, Sound, Builder!PictureIsTheRule
<1>2. Builder!OpeningChangesNothing
  <2>1. \A r \in DOMAIN rules : Sound(rules[r])
    BY SaveFields DEF Pictured
  <2> QED
    BY <2>1, OpenedIs DEF Builder!OpeningChangesNothing
<1>3. Builder!BoxesAreTold
  <2>1. WellDrawn(graph)
    BY DEF CanvasInv
  <2> QED
    BY <2>1, NamedAre, CanvasCopies DEF Builder!BoxesAreTold
<1>4. Builder!TypeOK
  <2>1. graph \in Drawings /\ WellDrawn(graph)
    BY DEF CanvasInv, WellDrawn
  <2>2. /\ \A i \in DOMAIN graph.boxes : graph.boxes[i] \in Builder!Box
        /\ \A i \in DOMAIN graph.order : graph.order[i] \in Builder!Ids
        /\ graph.split \in 0..MaxBoxes
    BY <2>1, DrawnBy, BoxesAre
  <2>3. {editing, mine} \subseteq 0..MaxRules
    <3>1. {editing, mine} \subseteq 0..Len(rules) /\ Len(rules) <= MaxRules
      BY DEF CanvasInv, CanvasTypes
    <3>2. Len(rules) \in Nat /\ MaxRules \in Nat
      BY SaveFields, CanvasAssumption
    <3> QED
      BY <3>1, <3>2
  <2>4. \A i \in DOMAIN rules : rules[i] \in Builder!Rule
    BY SaveFields
  <2>5. DOMAIN drawn = DOMAIN rules
    <3>1. drawn \in Seq(Drawings) /\ Len(drawn) = Len(rules)
      BY DEF CanvasInv, CanvasTypes
    <3> QED
      BY <3>1, SaveFields
  <2>6. /\ report \in {"none", "valid", "errors"} /\ due \in BOOLEAN /\ acts \in 0..MaxActs
        /\ Len(listed) <= Len(rules)
    BY DEF CanvasInv, CanvasTypes
  <2> QED
    BY <2>2, <2>3, <2>4, <2>5, <2>6 DEF Builder!TypeOK
<1> QED
  BY <1>1, <1>2, <1>3, <1>4

\* THEOREM: what the owner drew is what a saved rule does, opening a rule and saving it again
\* changes nothing, and every box is told, however many boxes are drawn, taken away and ordered
\* anew and however late the saves return (lib/workflow.ts, automation/workflow.py,
\* routers/automations.py).
THEOREM DrawnAlwaysRuns == Spec => []DrawnIsRun
<1>1. Init => CanvasInv
  BY CanvasInit DEF Init
<1>2. CanvasInv /\ [Next]_allVars => CanvasInv'
  BY OnePartSteps, CanvasStep
<1>3. CanvasInv => DrawnIsRun
  BY CanvasInvSays DEF DrawnIsRun
<1> QED
  BY <1>1, <1>2, <1>3, PTL DEF Spec, allVars

-------------------------------------------------------------------------------
(* The types that the invariants above do not say of themselves: what Learning spends, and    *)
(* how much the conversation asks.                                                             *)

\* The operations spent and the day of the last tip are within their bounds.
LearningSpends == ops \in 0..MaxOps /\ lastTip \in Days

\* Learning never spends more than it has.
LEMMA SpendsStep ==
  LearningInv /\ LearningSpends /\ [Learn!Next]_learningVars => LearningSpends'
<1> SUFFICES ASSUME LearningInv, LearningSpends, [Learn!Next]_learningVars PROVE LearningSpends'
  OBVIOUS
<1>1. Days' = Days /\ MaxOps \in Nat
  BY OwnerAssumption DEF Days, Learn!Never
<1>2. Learn!Spend => ops' \in 0..MaxOps
  BY <1>1 DEF Learn!Spend, LearningSpends
<1>3. (lastTip' = lastTip \/ lastTip' = day) /\ (ops' = ops \/ Learn!Spend)
  BY DEF Learn!Next, learningVars, Learn!Start, Learn!Attempt, Learn!Passes, Learn!Fails, Learn!Skip,
     Learn!ResetTips, Learn!ResetTutorials, Learn!ResetAll, Learn!AfterUsing, Learn!Dismiss, Learn!NextDay
<1>4. lastTip' \in Days
  BY <1>3, LearningNumbers DEF LearningInv, LearningSpends
<1> QED
  BY <1>1, <1>2, <1>3, <1>4 DEF LearningSpends

\* The invariants give Learning its types.
LEMMA LearningIsTyped == LearningInv /\ LearningSpends => Learn!TypeOK
<1> SUFFICES ASSUME LearningInv, LearningSpends PROVE Learn!TypeOK
  OBVIOUS
<1>1. \A c \in Learn!Capabilities :
        known[c].level \in DOMAIN Learn!Levels /\ known[c].taught \in 0..Learn!Never
  <2>1. DOMAIN Learn!Levels = 1..5
    BY DEF Learn!Levels
  <2> QED
    BY <2>1 DEF LearningInv, Knowledge, Days
<1>2. \A l \in Learn!Ids :
        tutorials[l].status \in {"NOT_STARTED", "IN_PROGRESS", "COMPLETED", "SKIPPED"}
  BY DEF LearningInv, Progress
<1> QED
  BY <1>1, <1>2 DEF LearningInv, LearningSpends, Learn!TypeOK, Days

\* A turn that has moved past the point where it may ask.
IsPast(r) == r.at \notin {"new", "reading"} /\ ~(r.at = "working" /\ r.asks = 0)
Past == {t \in Convo!Spoken : IsPast(turns[t])}
Heard == Convo!Questions \cup {Convo!NoQuestion}
Bounded(r) == r.asks \in 0..MaxTurns /\ r.heard \in Heard
Replies == [question : Convo!Questions, heard : Heard]

\* Whatever was asked was asked by a turn of its own, so there are no more questions than turns
\* and offers.
ConvoBounds ==
  /\ Len(approvals) <= Cardinality(Past) /\ Len(offers) <= MaxOffers /\ racing \subseteq Convo!Spoken
  /\ \A t \in Convo!Spoken : Bounded(turns[t])
  /\ \A t \in DOMAIN answers : answers[t] \in Replies

\* There are no more approvals than turns.
LEMMA PastCounts ==
  ASSUME ConvoInv
  PROVE  /\ MaxTurns \in Nat /\ MaxOffers \in Nat /\ Past \subseteq Convo!Spoken /\ IsFiniteSet(Past)
         /\ Convo!Spoken = 1..MaxTurns
         /\ Cardinality(Past) \in Nat /\ Cardinality(Past) <= MaxTurns
         /\ \A P : P \subseteq Convo!Spoken =>
              IsFiniteSet(P) /\ Cardinality(P) \in Nat /\ Cardinality(P) <= MaxTurns
<1>1. MaxTurns \in Nat /\ MaxOffers \in Nat /\ Past \subseteq Convo!Spoken /\ Convo!Spoken = 1..MaxTurns
  BY OwnerAssumption DEF Past, Convo!Spoken
<1>2. IsFiniteSet(1..MaxTurns) /\ Cardinality(1..MaxTurns) = MaxTurns
  BY <1>1, FS_Interval
<1>3. \A P : P \subseteq Convo!Spoken =>
              IsFiniteSet(P) /\ Cardinality(P) \in Nat /\ Cardinality(P) <= MaxTurns
  BY <1>1, <1>2, FS_Subset, FS_CardinalityType
<1> QED
  BY <1>1, <1>3

\* What is asked has a number among the questions.
LEMMA AskedIs ==
  ASSUME ConvoInv, ConvoBounds
  PROVE  /\ \A i \in DOMAIN approvals : i \in 1..MaxTurns /\ <<"approval", i>> \in Convo!Questions
         /\ \A i \in DOMAIN offers : <<"offer", i>> \in Convo!Questions
         /\ Convo!lastAsked \in Heard
<1> DEFINE n == Len(approvals)
           m == Len(offers)
           c == Cardinality(Past)
<1>1. n \in Nat /\ m \in Nat /\ DOMAIN approvals = 1..n /\ DOMAIN offers = 1..m
  BY OpenOnes
<1>2. n <= c /\ m <= MaxOffers /\ c \in Nat /\ c <= MaxTurns /\ MaxTurns \in Nat /\ MaxOffers \in Nat
  BY PastCounts DEF ConvoBounds
<1> HIDE DEF n, m, c
<1>3. \A i \in 1..n : i \in 1..MaxTurns /\ i \in 1..(MaxTurns + MaxOffers)
  BY <1>1, <1>2
<1>4. \A i \in 1..m : i \in 1..(MaxTurns + MaxOffers)
  BY <1>1, <1>2
<1>5. \A i \in DOMAIN approvals : i \in 1..MaxTurns /\ <<"approval", i>> \in Convo!Questions
  BY <1>1, <1>3 DEF Convo!Questions
<1>6. \A i \in DOMAIN offers : <<"offer", i>> \in Convo!Questions
  BY <1>1, <1>4 DEF Convo!Questions
<1>7. Convo!lastAsked \in Heard
  BY <1>5, <1>6, OpenOnes DEF Convo!lastAsked, Heard
<1> QED
  BY <1>5, <1>6, <1>7

\* A turn moves, none comes back from its past, and nothing more is asked than by a turn that
\* moves into it.
LEMMA TurnBounds ==
  ASSUME ConvoInv, ConvoBounds, ConvoInv', NEW t \in Convo!Spoken,
         \A u \in Convo!Spoken : u # t => turns'[u] = turns[u],
         Bounded(turns'[t]), IsPast(turns[t]) => IsPast(turns'[t]),
         \/ Len(approvals') = Len(approvals)
         \/ Len(approvals') = Len(approvals) + 1 /\ ~IsPast(turns[t]) /\ IsPast(turns'[t]),
         Len(offers') = Len(offers), racing' \subseteq Convo!Spoken,
         \A u \in DOMAIN answers' : answers'[u] \in Replies
  PROVE  ConvoBounds'
<1>1. \A u \in Convo!Spoken : Bounded(turns'[u])
  BY DEF ConvoBounds
<1>2. Past \subseteq Past' /\ (~IsPast(turns[t]) /\ IsPast(turns'[t]) => t \notin Past /\ t \in Past')
  BY DEF Past, Convo!Spoken
<1>3. Past' \subseteq Convo!Spoken
  BY DEF Past, Convo!Spoken
<1>4. Len(approvals') <= Cardinality(Past')
  <2> DEFINE n == Len(approvals)
             n2 == Len(approvals')
             c == Cardinality(Past)
             c2 == Cardinality(Past')
             d == Cardinality(Past \cup {t})
  <2>1. n \in Nat /\ n2 \in Nat
    BY LenProperties DEF ConvoInv, ConvoTypes
  <2>2. c \in Nat /\ c2 \in Nat /\ n <= c /\ c <= c2
    BY <1>2, <1>3, PastCounts, FS_Subset DEF ConvoBounds
  <2>3. CASE n2 = n
    <3>1. n2 = n
      BY <2>3
    <3> HIDE DEF n, n2, c, c2, d
    <3>2. n2 <= c2
      BY <2>1, <2>2, <3>1
    <3> QED
      BY <3>2 DEF n2, c2
  <2>4. CASE n2 = n + 1 /\ ~IsPast(turns[t]) /\ IsPast(turns'[t])
    <3>1. d = c + 1
      BY <1>2, <2>4, PastCounts, FS_AddElement
    <3>2. Past \cup {t} \subseteq Past'
      BY <1>2, <2>4
    <3>3. d <= c2 /\ d \in Nat
      BY <1>3, <3>2, PastCounts, FS_Subset, FS_CardinalityType
    <3>4. n2 = n + 1
      BY <2>4
    <3> HIDE DEF n, n2, c, c2, d
    <3>5. n2 <= c2
      BY <2>1, <2>2, <3>1, <3>3, <3>4
    <3> QED
      BY <3>5 DEF n2, c2
  <2> QED
    BY <2>3, <2>4
<1> QED
  BY <1>1, <1>4 DEF ConvoBounds, Bounded, Heard, Replies, Convo!Questions, Convo!NoQuestion, Convo!None,
                    Convo!Spoken

\* A turn that ended is past asking.
LEMMA EndsBounded ==
  ASSUME ConvoInv, NEW t \in Convo!Spoken, Convo!Ends(t)
  PROVE  /\ Bounded(turns'[t]) /\ IsPast(turns'[t])
         /\ \A u \in Convo!Spoken : u # t => turns'[u] = turns[u]
<1> DEFINE h == Convo!NoQuestion
           f == Convo!Fresh
           r == [f EXCEPT !.at = "done"]
<1>1. h \in {"approval", "offer", "none"} \X Nat
  BY DEF Convo!NoQuestion, Convo!None
<1>2. f = [at |-> "new", kind |-> "chat", waits |-> FALSE, asks |-> 0, left |-> 0,
           doomed |-> {}, heard |-> h]
  BY DEF Convo!Fresh, Convo!None
<1>3. turns' = [turns EXCEPT ![t] = r] /\ turns \in [Convo!Spoken -> Said]
  BY DEF Convo!Ends, ConvoInv, ConvoTypes
<1>4. 0 \in 0..MaxTurns /\ h \in Heard
  BY PastCounts DEF Heard
<1> HIDE DEF f, h
<1>5. f \in Said /\ f.asks = 0 /\ f.heard = h
  BY <1>1, <1>2 DEF Said, Places, Convo!Kinds
<1>6. r.at = "done" /\ r.asks = 0 /\ r.heard = h
  BY <1>5 DEF Said
<1> HIDE DEF r
<1>7. Bounded(r) /\ IsPast(r)
  BY <1>4, <1>6 DEF Bounded, IsPast
<1> QED
  BY <1>3, <1>7

\* What a step that answers nothing leaves of the answers.
LEMMA AnswersStay ==
  ConvoBounds /\ answers' = answers => \A u \in DOMAIN answers' : answers'[u] \in Replies
BY DEF ConvoBounds

\* A turn that ends and answers nothing, with no more asked.
LEMMA EndingBounds ==
  ASSUME ConvoInv, ConvoBounds, ConvoInv', NEW t \in Convo!Spoken, Convo!Ends(t),
         Len(approvals') = Len(approvals), Len(offers') = Len(offers), racing' = racing,
         \A u \in DOMAIN answers' : answers'[u] \in Replies
  PROVE  ConvoBounds'
<1>1. racing' \subseteq Convo!Spoken
  BY DEF ConvoBounds
<1> QED
  BY <1>1, EndsBounded, TurnBounds

\* A turn that moves as it is told, asks nothing new and has no past to leave.
LEMMA MovingBounds ==
  ASSUME ConvoInv, ConvoBounds, ConvoInv', NEW t \in Convo!Spoken, NEW r \in Said,
         turns' = [turns EXCEPT ![t] = r], IsPast(turns[t]) => IsPast(r), Bounded(r),
         Len(approvals') = Len(approvals), Len(offers') = Len(offers), racing' \subseteq Convo!Spoken,
         \A u \in DOMAIN answers' : answers'[u] \in Replies
  PROVE  ConvoBounds'
<1>1. turns'[t] = r /\ \A u \in Convo!Spoken : u # t => turns'[u] = turns[u]
  BY TurnMoves
<1>2. Bounded(turns'[t]) /\ (IsPast(turns[t]) => IsPast(turns'[t]))
  BY <1>1
<1> QED
  BY <1>1, <1>2, TurnBounds

\* What the turn that moves was, and what it becomes with its place changed alone.
LEMMA PlaceMoves ==
  ASSUME ConvoInv, ConvoBounds, NEW t \in Convo!Spoken, NEW place \in Places
  PROVE  LET r == [turns[t] EXCEPT !.at = place]
         IN  r \in Said /\ r.at = place /\ r.asks = turns[t].asks /\ Bounded(r)
<1> DEFINE r == [turns[t] EXCEPT !.at = place]
<1>1. turns[t] \in Said /\ Bounded(turns[t])
  BY DEF ConvoInv, ConvoTypes, ConvoBounds
<1>2. r \in Said /\ r.at = place /\ r.asks = turns[t].asks /\ r.heard = turns[t].heard
  BY <1>1 DEF Said
<1> HIDE DEF r
<1>3. Bounded(r)
  BY <1>1, <1>2 DEF Bounded
<1> QED
  BY <1>2, <1>3 DEF r

\* A turn that only goes elsewhere.
LEMMA GoingBounds ==
  ASSUME ConvoInv, ConvoBounds, ConvoInv', NEW t \in Convo!Spoken, NEW place \in Places,
         Convo!Goes(t, place),
         \/ place \notin {"new", "reading", "working"} \/ ~IsPast(turns[t])
         \/ place = "working" /\ turns[t].asks # 0,
         UNCHANGED <<approvals, offers, racing, answers>>
  PROVE  ConvoBounds'
<1> DEFINE r == [turns[t] EXCEPT !.at = place]
<1>1. r \in Said /\ r.at = place /\ r.asks = turns[t].asks /\ Bounded(r)
  BY PlaceMoves
<1>2. turns' = [turns EXCEPT ![t] = r]
  BY DEF Convo!Goes
<1> HIDE DEF r
<1>3. IsPast(turns[t]) => IsPast(r)
  BY <1>1 DEF IsPast
<1>4. racing' \subseteq Convo!Spoken /\ \A u \in DOMAIN answers' : answers'[u] \in Replies
  BY DEF ConvoBounds
<1>5. Len(approvals') = Len(approvals) /\ Len(offers') = Len(offers)
  OBVIOUS
<1> QED
  BY <1>1, <1>2, <1>3, <1>4, <1>5, MovingBounds

\* What is said, begun and woken, and work that ends.
LEMMA SpeakingBounds ==
  ASSUME ConvoInv, ConvoBounds, ConvoInv', NEW t \in Convo!Spoken,
         \/ \E kind \in Convo!Kinds, waits \in BOOLEAN : Convo!Speak(t, kind, waits)
         \/ Convo!Begin(t) \/ Convo!Woken(t) \/ \E n \in 0..2 : Convo!WorkEnds(t, n)
         \/ Convo!Note(t)
  PROVE  ConvoBounds'
<1>1. UNCHANGED <<approvals, offers, racing, answers>>
  BY DEF Convo!Speak, Convo!Begin, Convo!Woken, Convo!WorkEnds, Convo!Note
<1>2. racing' = racing /\ racing' \subseteq Convo!Spoken
      /\ \A u \in DOMAIN answers' : answers'[u] \in Replies
  BY <1>1 DEF ConvoBounds
<1>3. Len(approvals') = Len(approvals) /\ Len(offers') = Len(offers)
  BY <1>1
<1>4. turns[t] \in Said /\ Bounded(turns[t]) /\ Stands(t)
  BY DEF ConvoInv, ConvoTypes, ConvoBounds
<1>5. ASSUME NEW kind \in Convo!Kinds, NEW waits \in BOOLEAN, Convo!Speak(t, kind, waits)
      PROVE  ConvoBounds'
  <2> DEFINE h == IF kind \in {"yes", "no"} THEN Convo!lastAsked ELSE Convo!NoQuestion
             r == [turns[t] EXCEPT !.at = "reading", !.kind = kind, !.waits = waits, !.heard = h]
  <2>1. h \in {"approval", "offer", "none"} \X Nat /\ h \in Heard
    BY LastAskedIs, AskedIs DEF Convo!NoQuestion, Convo!None, Heard
  <2>2. turns' = [turns EXCEPT ![t] = r] /\ ~IsPast(turns[t])
    BY <1>5 DEF Convo!Speak, Convo!At, IsPast
  <2> HIDE DEF h
  <2>3. r \in Said /\ r.asks = turns[t].asks /\ r.heard = h
    BY <1>4, <2>1 DEF Said, Places
  <2> HIDE DEF r
  <2>4. Bounded(r)
    BY <1>4, <2>1, <2>3 DEF Bounded
  <2> QED
    BY <1>2, <1>3, <2>2, <2>3, <2>4, MovingBounds
<1>6. CASE Convo!Begin(t)
  BY <1>1, <1>6, GoingBounds DEF Convo!Begin, Convo!At, IsPast, Places
<1>7. CASE Convo!Note(t)
  BY <1>1, <1>7, GoingBounds DEF Convo!Note, Convo!At, IsPast, Places
<1>8. CASE Convo!Woken(t)
  <2>1. turns[t].asks # 0
    BY <1>4, <1>8, OpenOnes DEF Convo!Woken, Convo!At, Stands
  <2>2. CASE Convo!Goes(t, "working")
    BY <1>1, <2>1, <2>2, GoingBounds DEF Places
  <2>3. CASE Convo!Ends(t)
    BY <1>2, <1>3, <2>3, EndingBounds
  <2> QED
    BY <1>8, <2>2, <2>3 DEF Convo!Woken
<1>9. ASSUME NEW n \in 0..2, Convo!WorkEnds(t, n) PROVE ConvoBounds'
  <2>1. CASE n = 0
    BY <1>2, <1>3, <1>9, <2>1, EndingBounds DEF Convo!WorkEnds
  <2>2. CASE n # 0
    <3> DEFINE r == [turns[t] EXCEPT !.at = "writing", !.left = n]
    <3>1. turns' = [turns EXCEPT ![t] = r]
      BY <1>9, <2>2 DEF Convo!WorkEnds
    <3>2. r \in Said /\ r.at = "writing" /\ r.asks = turns[t].asks /\ r.heard = turns[t].heard
      BY <1>4 DEF Said, Places
    <3> HIDE DEF r
    <3>3. Bounded(r) /\ IsPast(r)
      BY <1>4, <3>2 DEF Bounded, IsPast
    <3> QED
      BY <1>2, <1>3, <3>1, <3>2, <3>3, MovingBounds
  <2> QED
    BY <2>1, <2>2
<1> QED
  BY <1>5, <1>6, <1>7, <1>8, <1>9

\* Approvals that keep their numbers are as many as before.
LEMMA AsMany ==
  ASSUME ConvoInv, ConvoInv'
  PROVE  /\ DOMAIN approvals' = DOMAIN approvals => Len(approvals') = Len(approvals)
         /\ DOMAIN offers' = DOMAIN offers => Len(offers') = Len(offers)
BY LenProperties DEF ConvoInv, ConvoTypes

\* What one word has settled is a reply.
LEMMA SettlingReplies ==
  ASSUME ConvoInv, ConvoBounds, NEW t \in Convo!Spoken, NEW question \in Convo!Questions,
         Convo!Settles(t, question)
  PROVE  \A u \in DOMAIN answers' : answers'[u] \in Replies
<1> DEFINE h == turns[t].heard
           e == [question |-> question, heard |-> h]
           s == [u \in DOMAIN answers \cup {t} |-> IF u = t THEN e ELSE answers[u]]
<1>1. answers' = s
  BY DEF Convo!Settles
<1>2. h \in Heard
  BY DEF ConvoBounds, Bounded
<1> HIDE DEF h
<1>3. e \in Replies
  BY <1>2 DEF Replies
<1> HIDE DEF e
<1>4. \A u \in DOMAIN s : s[u] \in Replies
  BY <1>3 DEF ConvoBounds
<1> QED
  BY <1>1, <1>4

\* The answers to approvals and offers.
LEMMA AnsweringBounds ==
  ASSUME ConvoInv, ConvoBounds, ConvoInv', NEW t \in Convo!Spoken,
         \/ Convo!AnswerApproval(t) \/ Convo!Announced(t) \/ Convo!NothingAsked(t)
         \/ Convo!TimesOut(t)
         \/ \E place \in {"done", "working", "reading"}, kind \in Convo!Kinds :
              Convo!AnswerOffer(t, place, kind)
  PROVE  ConvoBounds'
<1>1. turns[t] \in Said /\ Bounded(turns[t])
  BY DEF ConvoInv, ConvoTypes, ConvoBounds
<1>2. racing' = racing /\ racing' \subseteq Convo!Spoken
  BY DEF Convo!AnswerApproval, Convo!Announced, Convo!NothingAsked, Convo!TimesOut,
         Convo!AnswerOffer, ConvoBounds
<1>3. Len(approvals') = Len(approvals) /\ Len(offers') = Len(offers)
  <2>1. DOMAIN approvals' = DOMAIN approvals
    BY ListedIs DEF Convo!AnswerApproval, Convo!Announced, Convo!NothingAsked, Convo!TimesOut,
                    Convo!AnswerOffer
  <2>2. DOMAIN offers' = DOMAIN offers
    BY DEF Convo!AnswerApproval, Convo!Announced, Convo!NothingAsked, Convo!TimesOut, Convo!AnswerOffer
  <2> QED
    BY <2>1, <2>2, AsMany
<1>4. CASE Convo!AnswerApproval(t)
  <2> DEFINE i == Convo!Min(Convo!open)
             h == Convo!NoQuestion
             r == [turns[t] EXCEPT !.at = "announcing", !.asks = i, !.heard = h]
  <2>1. i \in 1..MaxTurns /\ <<"approval", i>> \in Convo!Questions
    BY <1>4, OpenOnes, AskedIs DEF Convo!AnswerApproval
  <2>2. turns' = [turns EXCEPT ![t] = r] /\ Convo!Settles(t, <<"approval", i>>)
    BY <1>4 DEF Convo!AnswerApproval
  <2>3. \A u \in DOMAIN answers' : answers'[u] \in Replies
    BY <2>1, <2>2, SettlingReplies
  <2>4. h \in {"approval", "offer", "none"} \X Nat /\ h \in Heard
    BY DEF Convo!NoQuestion, Convo!None, Heard
  <2>5. i \in Nat /\ i \in 0..MaxTurns
    BY <2>1, PastCounts
  <2> HIDE DEF i, h
  <2>6. r \in Said /\ r.at = "announcing" /\ r.asks = i /\ r.heard = h
    BY <1>1, <2>4, <2>5 DEF Said, Places
  <2> HIDE DEF r
  <2>7. Bounded(r) /\ IsPast(r)
    BY <2>4, <2>5, <2>6 DEF Bounded, IsPast
  <2> QED
    BY <1>2, <1>3, <2>2, <2>3, <2>6, <2>7, MovingBounds
<1>5. CASE Convo!Announced(t) \/ Convo!NothingAsked(t) \/ Convo!TimesOut(t)
  <2>1. Convo!Ends(t) /\ answers' = answers
    BY <1>5 DEF Convo!Announced, Convo!NothingAsked, Convo!TimesOut
  <2> QED
    BY <1>2, <1>3, <2>1, AnswersStay, EndingBounds
<1>6. ASSUME NEW place \in {"done", "working", "reading"}, NEW kind \in Convo!Kinds,
             Convo!AnswerOffer(t, place, kind)
      PROVE  ConvoBounds'
  <2>1. <<"offer", Convo!Max(Convo!openOffers)>> \in Convo!Questions
    BY <1>6, OpenOnes, AskedIs DEF Convo!AnswerOffer
  <2>2. \A u \in DOMAIN answers' : answers'[u] \in Replies
    BY <1>6, <2>1, SettlingReplies DEF Convo!AnswerOffer
  <2>3. CASE Convo!Ends(t)
    BY <1>2, <1>3, <2>2, <2>3, EndingBounds
  <2>4. CASE ~Convo!Ends(t)
    <3> DEFINE h == Convo!NoQuestion
               r == [turns[t] EXCEPT !.at = place, !.kind = kind, !.heard = h]
    <3>1. turns' = [turns EXCEPT ![t] = r] /\ ~IsPast(turns[t])
      BY <1>6, <2>4 DEF Convo!AnswerOffer, Convo!At, IsPast
    <3>2. h \in {"approval", "offer", "none"} \X Nat /\ h \in Heard /\ place \in Places
      BY DEF Convo!NoQuestion, Convo!None, Heard, Places
    <3> HIDE DEF h
    <3>3. r \in Said /\ r.asks = turns[t].asks /\ r.heard = h
      BY <1>1, <3>2 DEF Said
    <3> HIDE DEF r
    <3>4. Bounded(r)
      BY <1>1, <3>2, <3>3 DEF Bounded
    <3> QED
      BY <1>2, <1>3, <2>2, <3>1, <3>3, <3>4, MovingBounds
  <2> QED
    BY <2>3, <2>4
<1> QED
  BY <1>4, <1>5, <1>6

\* A turn asks once: asking puts it past asking.
LEMMA AskingBounds ==
  ASSUME ConvoInv, ConvoBounds, ConvoInv', NEW t \in Convo!Spoken, Convo!Ask(t)
  PROVE  ConvoBounds'
<1> DEFINE n == Len(approvals) + 1
<1>1. turns[t] \in Said /\ Bounded(turns[t]) /\ ~IsPast(turns[t])
  BY DEF ConvoInv, ConvoTypes, ConvoBounds, Convo!Ask, Convo!At, Convo!None, IsPast
<1>2. racing' \subseteq Convo!Spoken /\ \A u \in DOMAIN answers' : answers'[u] \in Replies
  BY DEF Convo!Ask, ConvoBounds
<1>3. Len(approvals') = n /\ Len(offers') = Len(offers)
  <2> DEFINE e == [state |-> "pending", due |-> FALSE, told |-> FALSE]
  <2>1. approvals \in Seq(Requests) /\ e \in Requests
    BY DEF ConvoInv, ConvoTypes, Requests
  <2>2. approvals' = Append(approvals, e) /\ offers' = offers
    BY DEF Convo!Ask
  <2> HIDE DEF e
  <2> QED
    BY <2>1, <2>2, AppendProperties
<1>4. n \in 0..MaxTurns
  <2> DEFINE k == Len(approvals)
             c == Cardinality(Past)
             d == Cardinality(Past \cup {t})
  <2>1. t \notin Past /\ Past \cup {t} \subseteq Convo!Spoken
    BY <1>1 DEF Past
  <2>2. d = c + 1 /\ d <= MaxTurns
    BY <2>1, PastCounts, FS_AddElement
  <2>3. k \in Nat /\ c \in Nat /\ k <= c /\ MaxTurns \in Nat
    BY OpenOnes, PastCounts DEF ConvoBounds
  <2>4. n = k + 1
    OBVIOUS
  <2> HIDE DEF n, k, c, d
  <2> QED
    BY <2>2, <2>3, <2>4
<1>5. Bounded(turns'[t]) /\ IsPast(turns'[t]) /\ \A u \in Convo!Spoken : u # t => turns'[u] = turns[u]
  <2>1. CASE turns[t].waits
    <3> DEFINE r == [turns[t] EXCEPT !.at = "waiting", !.asks = n]
    <3>1. turns' = [turns EXCEPT ![t] = r]
      BY <2>1 DEF Convo!Ask
    <3>2. n \in Nat
      BY <1>4, PastCounts
    <3> HIDE DEF n
    <3>3. r \in Said /\ r.at = "waiting" /\ r.asks = n /\ r.heard = turns[t].heard
      BY <1>1, <3>2 DEF Said, Places
    <3> HIDE DEF r
    <3>4. Bounded(r) /\ IsPast(r)
      BY <1>1, <1>4, <3>3 DEF Bounded, IsPast
    <3> QED
      BY <3>1, <3>3, <3>4, TurnMoves
  <2>2. CASE ~turns[t].waits
    BY <2>2, EndsBounded DEF Convo!Ask
  <2> QED
    BY <2>1, <2>2
<1> QED
  BY <1>1, <1>2, <1>3, <1>5, TurnBounds

\* What is written, noted and forgotten.
LEMMA WritingBounds ==
  ASSUME ConvoInv, ConvoBounds, ConvoInv', NEW t \in Convo!Spoken,
         \/ \E kept \in BOOLEAN : Convo!Written(t, kept) \/ Convo!Noted(t, kept)
         \/ Convo!Suppress(t) \/ \E m \in Convo!Memories : Convo!Forgets(t, m)
         \/ Convo!WillNotRemember(t)
  PROVE  ConvoBounds'
<1>1. turns[t] \in Said /\ Bounded(turns[t])
  BY DEF ConvoInv, ConvoTypes, ConvoBounds
<1>2. UNCHANGED <<approvals, offers, answers>>
  BY DEF Convo!Written, Convo!Noted, Convo!Suppress, Convo!Forgets, Convo!WillNotRemember
<1>3. \A u \in DOMAIN answers' : answers'[u] \in Replies
  BY <1>2, AnswersStay
<1>4. Len(approvals') = Len(approvals) /\ Len(offers') = Len(offers)
  BY <1>2
<1>5. racing' \subseteq Convo!Spoken
  BY DEF Convo!Written, Convo!Noted, Convo!Suppress, Convo!Forgets, Convo!WillNotRemember, ConvoBounds
<1>6. CASE Convo!Ends(t)
  <2>1. Bounded(turns'[t]) /\ IsPast(turns'[t])
        /\ \A u \in Convo!Spoken : u # t => turns'[u] = turns[u]
    BY <1>6, EndsBounded
  <2> QED
    BY <1>3, <1>4, <1>5, <2>1, TurnBounds
<1>7. ASSUME NEW r \in Said, turns' = [turns EXCEPT ![t] = r], r.asks = turns[t].asks,
             r.heard = turns[t].heard, IsPast(r)
      PROVE  ConvoBounds'
  <2>1. Bounded(r)
    BY <1>1, <1>7 DEF Bounded
  <2> QED
    BY <1>3, <1>4, <1>5, <1>7, <2>1, MovingBounds
<1>8. ASSUME NEW kept \in BOOLEAN, Convo!Written(t, kept), ~Convo!Ends(t) PROVE ConvoBounds'
  <2> DEFINE r == [turns[t] EXCEPT !.left = 1]
  <2>1. turns' = [turns EXCEPT ![t] = r] /\ turns[t].at = "writing"
    BY <1>8 DEF Convo!Written, Convo!At
  <2>2. r \in Said /\ r.at = turns[t].at /\ r.asks = turns[t].asks /\ r.heard = turns[t].heard
    BY <1>1 DEF Said
  <2> HIDE DEF r
  <2>3. IsPast(r)
    BY <2>1, <2>2 DEF IsPast
  <2> QED
    BY <1>7, <2>1, <2>2, <2>3
<1>9. CASE Convo!Suppress(t)
  <2> DEFINE r == [turns[t] EXCEPT !.at = "forgetting", !.doomed = memories]
  <2>1. turns' = [turns EXCEPT ![t] = r] /\ memories \subseteq Convo!Memories
    BY <1>9 DEF Convo!Suppress, ConvoInv, ConvoTypes
  <2>2. r \in Said /\ r.at = "forgetting" /\ r.asks = turns[t].asks /\ r.heard = turns[t].heard
    BY <1>1, <2>1 DEF Said, Places
  <2> HIDE DEF r
  <2>3. IsPast(r)
    BY <2>2 DEF IsPast
  <2> QED
    BY <1>7, <2>1, <2>2, <2>3
<1>10. ASSUME NEW m \in Convo!Memories, Convo!Forgets(t, m) PROVE ConvoBounds'
  <2> DEFINE d == turns[t].doomed \ {m}
             r == [turns[t] EXCEPT !.doomed = d]
  <2>1. turns' = [turns EXCEPT ![t] = r] /\ turns[t].at = "forgetting"
    BY <1>10 DEF Convo!Forgets, Convo!At
  <2>2. d \subseteq Convo!Memories
    BY <1>1 DEF Said
  <2> HIDE DEF d
  <2>3. r \in Said /\ r.at = turns[t].at /\ r.asks = turns[t].asks /\ r.heard = turns[t].heard
    BY <1>1, <2>2 DEF Said
  <2> HIDE DEF r
  <2>4. IsPast(r)
    BY <2>1, <2>3 DEF IsPast
  <2> QED
    BY <1>7, <2>1, <2>3, <2>4
<1> QED
  BY <1>6, <1>8, <1>9, <1>10 DEF Convo!Noted, Convo!WillNotRemember

\* Time passes, and offers come and go.
LEMMA PassingBounds ==
  ASSUME ConvoInv, ConvoBounds, ConvoInv',
         \/ \E i \in 1..MaxTurns : Convo!TimePasses(i)
         \/ Convo!OfferMade \/ \E i \in Convo!openOffers : Convo!OfferLapses(i)
         \/ UNCHANGED conversationVars
  PROVE  ConvoBounds'
<1>1. turns' = turns /\ racing' = racing /\ answers' = answers
  BY DEF Convo!TimePasses, Convo!OfferMade, Convo!OfferLapses, conversationVars
<1>2. Len(approvals') = Len(approvals)
  <2>1. DOMAIN approvals' = DOMAIN approvals
    BY DEF Convo!TimePasses, Convo!OfferMade, Convo!OfferLapses, conversationVars
  <2> QED
    BY <2>1, AsMany
<1>3. Len(offers') <= MaxOffers
  <2>1. CASE Convo!OfferMade
    <3> DEFINE n == Len(offers)
               n2 == Len(offers')
    <3>1. offers \in Seq(Offered) /\ "open" \in Offered /\ offers' = Append(offers, "open")
      BY <2>1 DEF ConvoInv, ConvoTypes, Offered, Convo!OfferMade
    <3>2. n2 = n + 1 /\ n < MaxOffers
      BY <2>1, <3>1, AppendProperties DEF Convo!OfferMade
    <3>3. n \in Nat /\ MaxOffers \in Nat
      BY OpenOnes, PastCounts
    <3> HIDE DEF n, n2
    <3>4. n2 <= MaxOffers
      BY <3>2, <3>3
    <3> QED
      BY <3>4 DEF n2
  <2>2. CASE ~Convo!OfferMade
    <3>1. DOMAIN offers' = DOMAIN offers
      BY <2>2 DEF Convo!TimePasses, Convo!OfferLapses, conversationVars
    <3>2. Len(offers') = Len(offers)
      BY <3>1, AsMany
    <3> QED
      BY <3>2 DEF ConvoBounds
  <2> QED
    BY <2>1, <2>2
<1>4. Past' = Past
  BY <1>1 DEF Past, Convo!Spoken
<1>5. Len(approvals') <= Cardinality(Past')
  BY <1>2, <1>4 DEF ConvoBounds
<1> QED
  BY <1>1, <1>3, <1>5 DEF ConvoBounds, Bounded, Heard, Replies, Convo!Questions, Convo!NoQuestion,
                          Convo!None, Convo!Spoken

\* ConvoBounds is kept by every step.
LEMMA BoundsStep ==
  ConvoInv /\ ConvoBounds /\ [Convo!Next]_conversationVars => ConvoBounds'
<1> SUFFICES ASSUME ConvoInv, ConvoBounds, [Convo!Next]_conversationVars PROVE ConvoBounds'
  OBVIOUS
<1>1. ConvoInv'
  BY ConvoStep
<1>2. ASSUME NEW t \in Convo!Spoken,
             \/ \E kind \in Convo!Kinds, waits \in BOOLEAN : Convo!Speak(t, kind, waits)
             \/ Convo!Begin(t) \/ Convo!Woken(t) \/ \E n \in 0..2 : Convo!WorkEnds(t, n)
             \/ Convo!Note(t)
      PROVE  ConvoBounds'
  BY <1>1, <1>2, SpeakingBounds
<1>3. ASSUME NEW t \in Convo!Spoken,
             \/ Convo!AnswerApproval(t) \/ Convo!Announced(t) \/ Convo!NothingAsked(t)
             \/ Convo!TimesOut(t)
             \/ \E place \in {"done", "working", "reading"}, kind \in Convo!Kinds :
                  Convo!AnswerOffer(t, place, kind)
      PROVE  ConvoBounds'
  BY <1>1, <1>3, AnsweringBounds
<1>4. ASSUME NEW t \in Convo!Spoken, Convo!Ask(t) PROVE ConvoBounds'
  BY <1>1, <1>4, AskingBounds
<1>5. ASSUME NEW t \in Convo!Spoken,
             \/ \E kept \in BOOLEAN : Convo!Written(t, kept) \/ Convo!Noted(t, kept)
             \/ Convo!Suppress(t) \/ \E m \in Convo!Memories : Convo!Forgets(t, m)
             \/ Convo!WillNotRemember(t)
      PROVE  ConvoBounds'
  BY <1>1, <1>5, WritingBounds
<1>6. ASSUME \/ \E i \in 1..MaxTurns : Convo!TimePasses(i)
             \/ Convo!OfferMade \/ \E i \in Convo!openOffers : Convo!OfferLapses(i)
             \/ UNCHANGED conversationVars
      PROVE  ConvoBounds'
  BY <1>1, <1>6, PassingBounds
<1> QED
  BY <1>2, <1>3, <1>4, <1>5, <1>6 DEF Convo!Next

\* Nothing was asked yet.
LEMMA BoundsStart == Convo!Init => ConvoBounds
<1> SUFFICES ASSUME Convo!Init PROVE ConvoBounds
  OBVIOUS
<1>1. ConvoInv
  BY ConvoStarts
<1>2. /\ turns = [t \in Convo!Spoken |-> Convo!Fresh]
      /\ Len(approvals) = 0 /\ Len(offers) = 0 /\ DOMAIN answers = {} /\ racing = {}
  BY DEF Convo!Init
<1>3. Bounded(Convo!Fresh)
  <2>1. Convo!Fresh.asks = 0 /\ Convo!Fresh.heard = Convo!NoQuestion
    BY DEF Convo!Fresh, Convo!None
  <2>2. 0 \in 0..MaxTurns
    BY <1>1, PastCounts
  <2> QED
    BY <2>1, <2>2 DEF Bounded, Heard
<1>4. 0 <= Cardinality(Past) /\ 0 <= MaxOffers
  BY <1>1, PastCounts
<1> QED
  BY <1>2, <1>3, <1>4 DEF ConvoBounds

\* The invariants give the conversation its types.
LEMMA ConversationIsTyped == ConvoInv /\ ConvoBounds => Convo!TypeOK
<1> SUFFICES ASSUME ConvoInv, ConvoBounds PROVE Convo!TypeOK
  OBVIOUS
<1>1. ASSUME NEW t \in Convo!Spoken PROVE turns[t] \in Convo!Turn
  BY DEF ConvoInv, ConvoTypes, ConvoBounds, Bounded, Said, Places, Heard, Convo!Turn
<1>2. turns \in [Convo!Spoken -> Convo!Turn]
  BY <1>1 DEF ConvoInv, ConvoTypes
<1>3. /\ \A i \in DOMAIN approvals : approvals[i] \in Requests
      /\ \A i \in DOMAIN offers : offers[i] \in Offered
  BY OpenOnes, ElementOfSeq DEF ConvoInv, ConvoTypes
<1> QED
  BY <1>2, <1>3 DEF ConvoInv, ConvoTypes, ConvoBounds, Convo!TypeOK, Requests, Offered, Replies, Heard

\* THEOREM: every component that faces the owner keeps its types, whatever it is asked and in
\* whatever order: no more is asked than there are turns and offers, every answer is to a question,
\* and every counter, deadline and state is one of its kind.
THEOREM OwnerTypesHold == Spec => []TypeOK
<1>1. Init => /\ DeviceInv /\ CodeInv /\ PinInv /\ PresenceInv /\ CameraInv /\ VoiceInv /\ GatewayInv
              /\ LearningInv /\ LearningSpends /\ ConvoInv /\ ConvoBounds /\ CanvasInv
  <2> SUFFICES ASSUME Init
               PROVE  /\ DeviceInv /\ CodeInv /\ PinInv /\ PresenceInv /\ CameraInv /\ VoiceInv
                      /\ GatewayInv /\ LearningInv /\ LearningSpends /\ ConvoInv /\ ConvoBounds
                      /\ CanvasInv
    OBVIOUS
  <2>1. /\ Device!Init /\ Pairing!Init /\ Core!Init /\ Presence!Init /\ Camera!Init /\ Voice!Init
        /\ Gateway!Init /\ Learn!Init /\ Convo!Init /\ Builder!Init
    BY DEF Init
  <2>2. LearningSpends
    BY <2>1, LearningNumbers, OwnerAssumption DEF Learn!Init, LearningSpends
  <2> QED
    BY <2>1, <2>2, DeviceInit, CodeInit, PinInit, PresenceInit, CameraInit, VoiceInit, GatewayInit,
       LearningStarts, ConvoStarts, BoundsStart, CanvasInit
<1>2. DeviceInv /\ CodeInv /\ PinInv /\ PresenceInv /\ [Next]_allVars =>
        DeviceInv' /\ CodeInv' /\ PinInv' /\ PresenceInv'
  BY OnePartSteps, DeviceStep, CodeStep, PinStep, PresenceStep
<1>3. CameraInv /\ VoiceInv /\ GatewayInv /\ [Next]_allVars => CameraInv' /\ VoiceInv' /\ GatewayInv'
  <2>1. GatewayInv /\ [Gateway!Next]_gatewayVars => GatewayInv'
    BY GatewayTypes, NewestStaysBehind DEF GatewayInv
  <2> QED
    BY <2>1, OnePartSteps, CameraStep, VoiceStep
<1>4. LearningInv /\ LearningSpends /\ [Next]_allVars => LearningInv' /\ LearningSpends'
  BY OnePartSteps, LearningStep, SpendsStep
<1>5. ConvoInv /\ ConvoBounds /\ CanvasInv /\ [Next]_allVars => ConvoInv' /\ ConvoBounds' /\ CanvasInv'
  BY OnePartSteps, ConvoStep, BoundsStep, CanvasStep
<1>6. (/\ DeviceInv /\ CodeInv /\ PinInv /\ PresenceInv /\ CameraInv /\ VoiceInv /\ GatewayInv
       /\ LearningInv /\ LearningSpends /\ ConvoInv /\ ConvoBounds /\ CanvasInv) => TypeOK
  <2>1. DeviceInv => Device!TypeOK
    BY DEF DeviceInv
  <2>2. CodeInv /\ PinInv /\ PresenceInv => Pairing!TypeOK /\ Core!TypeOK /\ Presence!TypeOK
    BY DEF CodeInv, PinInv, PresenceInv
  <2>3. CameraInv /\ VoiceInv /\ GatewayInv => Camera!TypeOK /\ Voice!TypeOK /\ Gateway!TypeOK
    BY DEF CameraInv, VoiceInv, GatewayInv
  <2>4. CanvasInv => Builder!TypeOK
    BY CanvasInvSays
  <2> QED
    BY <2>1, <2>2, <2>3, <2>4, LearningIsTyped, ConversationIsTyped DEF TypeOK
<1> QED
  BY <1>1, <1>2, <1>3, <1>4, <1>5, <1>6, PTL DEF Spec, allVars

===============================================================================
