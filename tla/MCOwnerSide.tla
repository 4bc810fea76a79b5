----------------------------- MODULE MCOwnerSide -----------------------------
(***************************************************************************)
(* The components that face the owner and their machines: keys and pairing *)
(* codes, the core's own key, presence, the camera, the voice, the         *)
(* client's channel, the lessons, the conversation and the workflow        *)
(* builder.  They share no state, so a run explores one of them at a time, *)
(* and the others rest in their initial states.                            *)
(***************************************************************************)
EXTENDS Naturals, Sequences, FiniteSets, TLC

CONSTANTS KeyNames, FirstKey, NoKey,
          Codes, Devices, Window, Ttl, MaxAttempts, MaxStarts, MaxNow,
          Pins, FirstPin, ChainMax,
          MaxClock, PresenceTtl, Away, FreshFor, IdleFor, MaxSession,
          Looks, MaxGrants,
          Turns, NoTurn,
          Capacity, MaxChanges, MaxFrames, MaxLinks,
          Attempts, ForLearned, ForMastered, MaxIntroductions, BeforeUpgrade, MasteryQuiet, DecayAfter,
          DismissedFor, Pause, MaxDays, MaxOps,
          MaxTurns, MaxOffers,
          Settings, NotSet, MaxBoxes, MaxRules, MaxSaves, MaxActs

ASSUME OwnerAssumption ==
  /\ FirstKey \in KeyNames /\ NoKey \notin KeyNames
  /\ {Window, Ttl, MaxAttempts, MaxStarts, MaxNow} \subseteq Nat
  /\ Ttl <= Window  \* CODE_TTL and RATE_WINDOW
  /\ FirstPin \in Pins /\ ChainMax \in Nat
  /\ {MaxClock, PresenceTtl, Away, FreshFor, IdleFor, MaxSession} \subseteq Nat
  /\ MaxGrants \in Nat
  /\ NoTurn \notin Turns
  /\ {Capacity, MaxFrames, MaxLinks} \subseteq Nat /\ MaxChanges \in Nat \ {0}
  /\ {ForLearned, ForMastered, MaxIntroductions, DismissedFor, MaxDays, MaxOps} \subseteq Nat
  /\ ForLearned <= ForMastered  \* USES_FOR_LEARNED and USES_FOR_MASTERED
  /\ {MaxTurns, MaxOffers} \subseteq Nat

\* What the server refuses is no setting; the canvas holds at least the rule Thursday suggested.
ASSUME CanvasAssumption ==
  /\ {"a", "b"} \subseteq Settings /\ NotSet \notin Settings
  /\ MaxBoxes \in Nat /\ MaxBoxes >= 3 /\ MaxRules \in Nat \ {0}
  /\ {MaxSaves, MaxActs} \subseteq Nat

\* The first lesson, and the tip that follows its capability.
Lessons == <<[capability |-> "conversation"]>>
Teaches == "conversation" :> "memory"

Suggested == [trigger |-> "a", actions |-> <<"a">>, followUps |-> <<"b">>]

VARIABLES part,
          reg, filed, acked, stale, own, staged, cached, session, cmd, wire,
          now, pending, failures, starts, devices, onFile, tries, ended,
          serving, chain, pin, tried, connected,
          clock, reading, seen, auth, gone,
          state, hardware, given, grant, look, closing, lastLook, allowed, taken, lapses,
          machine, turn, voices, task, stop, crossed,
          face, last, outbox, putting, sending, recv, inbox, shown, overtaken, links, frames, online,
          day, ops, known, tutorials, attempts, lastTip, told,
          turns, approvals, offers, memories, suppressed, answers, racing, promised,
          graph, editing, report, saves, listed, due, rules, drawn, mine, acts

deviceVars == <<reg, filed, acked, stale, own, staged, cached, session, cmd, wire>>
pairingVars == <<now, pending, failures, starts, devices, onFile, tries, ended>>
coreVars == <<serving, chain, pin, tried, connected>>
presenceVars == <<clock, reading, seen, auth, gone>>
cameraVars == <<state, hardware, given, grant, look, closing, lastLook, allowed, taken, lapses>>
voiceVars == <<machine, turn, voices, task, stop, crossed>>
gatewayVars ==
  <<face, last, outbox, putting, sending, recv, inbox, shown, overtaken, links, frames, online>>
learningVars == <<day, ops, known, tutorials, attempts, lastTip, told>>
conversationVars ==
  <<turns, approvals, offers, memories, suppressed, answers, racing, promised>>
canvasVars == <<graph, editing, report, saves, listed, due, rules, drawn, mine, acts>>

Device == INSTANCE DeviceKeys
Pairing == INSTANCE PairingCodes
Core == INSTANCE CoreKey
Presence == INSTANCE OwnerPresence WITH
  now <- clock, last <- reading, session <- auth, MaxNow <- MaxClock, Ttl <- PresenceTtl
Camera == INSTANCE CameraConsent WITH last <- lastLook, frames <- taken
Voice == INSTANCE VoiceLoop
Gateway == INSTANCE RealtimeGateway
Learn == INSTANCE Learning WITH Quiet <- MasteryQuiet
Convo == INSTANCE Conversation
Builder == INSTANCE Canvas

Init ==
  /\ part \in {"device", "pairing", "core", "presence", "camera", "voice", "gateway", "learning",
              "conversation", "canvas"}
  /\ Device!Init /\ Pairing!Init /\ Core!Init /\ Presence!Init /\ Camera!Init /\ Voice!Init
  /\ Gateway!Init /\ Learn!Init /\ Convo!Init /\ Builder!Init

DeviceNext ==
  /\ part = "device" /\ Device!Next
  /\ UNCHANGED <<part, pairingVars, coreVars, presenceVars, cameraVars, voiceVars, gatewayVars,
                learningVars, conversationVars, canvasVars>>
PairingNext ==
  /\ part = "pairing" /\ Pairing!Next
  /\ UNCHANGED <<part, deviceVars, coreVars, presenceVars, cameraVars, voiceVars, gatewayVars,
                learningVars, conversationVars, canvasVars>>
CoreNext ==
  /\ part = "core" /\ Core!Next
  /\ UNCHANGED <<part, deviceVars, pairingVars, presenceVars, cameraVars, voiceVars, gatewayVars,
                learningVars, conversationVars, canvasVars>>
PresenceNext ==
  /\ part = "presence" /\ Presence!Next
  /\ UNCHANGED <<part, deviceVars, pairingVars, coreVars, cameraVars, voiceVars, gatewayVars,
                learningVars, conversationVars, canvasVars>>
CameraNext ==
  /\ part = "camera" /\ Camera!Next
  /\ UNCHANGED <<part, deviceVars, pairingVars, coreVars, presenceVars, voiceVars, gatewayVars,
                learningVars, conversationVars, canvasVars>>
VoiceNext ==
  /\ part = "voice" /\ Voice!Next
  /\ UNCHANGED <<part, deviceVars, pairingVars, coreVars, presenceVars, cameraVars, gatewayVars,
                learningVars, conversationVars, canvasVars>>
GatewayNext ==
  /\ part = "gateway" /\ Gateway!Next
  /\ UNCHANGED <<part, deviceVars, pairingVars, coreVars, presenceVars, cameraVars, voiceVars,
                learningVars, conversationVars, canvasVars>>
LearningNext ==
  /\ part = "learning" /\ Learn!Next
  /\ UNCHANGED <<part, deviceVars, pairingVars, coreVars, presenceVars, cameraVars, voiceVars,
                gatewayVars, conversationVars, canvasVars>>
ConversationNext ==
  /\ part = "conversation" /\ Convo!Next
  /\ UNCHANGED <<part, deviceVars, pairingVars, coreVars, presenceVars, cameraVars, voiceVars,
                gatewayVars, learningVars, canvasVars>>
CanvasNext ==
  /\ part = "canvas" /\ Builder!Next
  /\ UNCHANGED <<part, deviceVars, pairingVars, coreVars, presenceVars, cameraVars, voiceVars,
                gatewayVars, learningVars, conversationVars>>

Next ==
  \/ DeviceNext \/ PairingNext \/ CoreNext \/ PresenceNext \/ CameraNext \/ VoiceNext
  \/ GatewayNext \/ LearningNext \/ ConversationNext \/ CanvasNext

Spec ==
  Init /\ [][Next]_<<part, deviceVars, pairingVars, coreVars, presenceVars, cameraVars,
                     voiceVars, gatewayVars, learningVars, conversationVars, canvasVars>>

\* Every component's state keeps its types.
TypeOK ==
  /\ part = "device" => Device!TypeOK
  /\ part = "pairing" => Pairing!TypeOK
  /\ part = "core" => Core!TypeOK
  /\ part = "presence" => Presence!TypeOK
  /\ part = "camera" => Camera!TypeOK
  /\ part = "voice" => Voice!TypeOK
  /\ part = "gateway" => Gateway!TypeOK
  /\ part = "learning" => Learn!TypeOK
  /\ part = "conversation" => Convo!TypeOK
  /\ part = "canvas" => Builder!TypeOK

\* Rotation never costs a node its identity, and what a node trusts is joined to its pairing
\* by signed statements (DeviceKeys, CoreKey).  A revocation that was answered holds, against
\* what is still on its way and against the pairings that were pending, and no code sees more
\* wrong guesses than the shared budget (DeviceKeys, PairingCodes).
KeysHold ==
  /\ part = "device" => Device!KeyIsHeld /\ Device!RevocationHolds
  /\ part = "core" => Core!PinIsSigned
  /\ part = "pairing" => Pairing!RevokedStaysRevoked /\ Pairing!CodeFacesFewGuesses

\* Whoever follows the owner inherits nothing of worth, and a stranger locks (OwnerPresence).
SessionIsNotInherited ==
  /\ [](part = "presence" => Presence!SessionIsNotInherited)
  /\ [][Presence!Locks]_presenceVars

\* What listens, looks and shows stays true: a reply can be ended, an open camera is lit, looks
\* are counted, and no change of expression is lost on its way to the client (VoiceLoop,
\* CameraConsent, RealtimeGateway).
OwnerSeesAndStops ==
  /\ part = "voice" => Voice!SpeechCanBeStopped
  /\ part = "camera" => Camera!LightIsTrue /\ Camera!LooksAreCounted
  /\ part = "gateway" => Gateway!NothingIsSwallowed

\* One word answers one question, and what the owner said not to remember is not kept but for
\* what was being written at that moment (Conversation).
ConversationHolds ==
  part = "conversation" => Convo!OneWordOneQuestion /\ Convo!SuppressionHolds

\* What the owner drew is what runs, and opening a rule does not change it (Canvas).
DrawnIsRun ==
  part = "canvas" =>
    Builder!PictureIsTheRule /\ Builder!OpeningChangesNothing /\ Builder!BoxesAreTold

\* The owner is said to know what they did and not what they were told, is not nagged, and a
\* lesson is done only when it was tried and checked (Learning).
LessonsAreEarned ==
  [](part = "learning" => Learn!KnownIsEarned /\ Learn!NoNagging) /\ Learn!CompletedWasDone
===============================================================================
