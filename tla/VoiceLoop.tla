------------------------------ MODULE VoiceLoop ------------------------------
(***************************************************************************)
(* The voice loop (packages/voice): turns that listen, are transcribed,    *)
(* answered and spoken over ONE state machine and ONE barge-in controller, *)
(* replies spoken from rest, and the owner's stop.  Every await is a step  *)
(* boundary; recognisers, the core and synthesis answer or fail.           *)
(***************************************************************************)
EXTENDS Naturals, FiniteSets

CONSTANTS Turns,   \* calls of listen_once, handle_audio and speak
          NoTurn

VARIABLES machine, \* VoiceStateMachine._state
          turn,    \* where each call stands
          voices,  \* the calls whose speech task is running
          task,    \* BargeInController._task: the call whose speech it can end
          stop,    \* the owner's interrupt()
          crossed  \* a reply has begun while another was playing or a stop was being answered

voiceVars == <<machine, turn, voices, task, stop, crossed>>

States == {"IDLE", "LISTENING", "CAPTURING", "TRANSCRIBING", "THINKING", "SPEAKING"}

VOICE_TRANSITIONS ==
  [IDLE |-> {"LISTENING", "SPEAKING"}, LISTENING |-> {"CAPTURING", "IDLE"},
   CAPTURING |-> {"TRANSCRIBING", "IDLE"}, TRANSCRIBING |-> {"THINKING", "IDLE"},
   THINKING |-> {"SPEAKING", "CAPTURING", "IDLE"},
   SPEAKING |-> {"IDLE", "CAPTURING", "LISTENING"}]

can(target) == target = machine \/ target \in VOICE_TRANSITIONS[machine]

\* silencing: the call has cut a reply and hears tts.stop() out; refused: an illegal
\* transition is on its way to the caller.
Places == {"out", "silencing", "segment", "stt", "engine", "speaking", "refused"}

TypeOK ==
  /\ machine \in States
  /\ turn \in [Turns -> [at : Places, kind : {"listen", "audio", "notice"}, barged : BOOLEAN]]
  /\ voices \subseteq Turns /\ task \in Turns \cup {NoTurn}
  /\ stop \in {"none", "silencing"} /\ crossed \in BOOLEAN

Init ==
  /\ machine = "IDLE"
  /\ turn = [t \in Turns |-> [at |-> "out", kind |-> "listen", barged |-> FALSE]]
  /\ voices = {} /\ task = NoTurn /\ stop = "none" /\ crossed = FALSE
-----------------------------------------------------------------------------
speaking == task \in voices
Goes(t, place) == turn' = [turn EXCEPT ![t].at = place]
Returns(t) == Goes(t, "out") /\ machine' = "IDLE"

\* An illegal transition raises out of the call and leaves the machine as it is.
MovesTo(t, target, place) ==
  IF can(target) THEN machine' = target /\ Goes(t, place)
                 ELSE UNCHANGED machine /\ Goes(t, "refused")

\* The microphone is opened from LISTENING and from a reply; from any other state the call
\* goes on as it finds it.  handle_audio brings its audio along and asks for TRANSCRIBING.
opened == [m \in States |-> IF m \in {"SPEAKING", "LISTENING"} THEN "CAPTURING" ELSE m]
Hears(t, kind, m, barged) ==
  LET goes == opened[m] \in {"CAPTURING", "TRANSCRIBING"}
      at == IF kind = "listen" THEN "segment" ELSE IF goes THEN "stt" ELSE "refused" IN
  /\ machine' = IF kind = "audio" /\ goes THEN "TRANSCRIBING" ELSE opened[m]
  /\ turn' = [turn EXCEPT ![t] = [at |-> at, kind |-> kind, barged |-> barged]]

\* A call begins, awake first.
Begins(t, kind) ==
  /\ turn[t].at = "out" /\ ~speaking
  /\ Hears(t, kind, IF machine = "IDLE" THEN "LISTENING" ELSE machine, FALSE)
  /\ UNCHANGED <<voices, task, stop, crossed>>

\* The speech that is cut ends, and the call that spoke it returns with a reset, before the
\* one that cut it goes on; a reply spoken from rest resets nothing.
rested == IF turn[task].kind = "notice" THEN machine ELSE "IDLE"
Cut == machine' = rested /\ voices' = voices \ {task} /\ task' = NoTurn

\* The owner speaks over a reply.
BargesIn(t, kind) ==
  /\ turn[t].at = "out" /\ speaking /\ Cut
  /\ turn' = [turn EXCEPT ![t] = [at |-> "silencing", kind |-> kind, barged |-> TRUE],
                          ![task].at = "out"]
  /\ UNCHANGED <<stop, crossed>>

Silenced(t) ==
  /\ turn[t].at = "silencing"
  /\ Hears(t, turn[t].kind, machine, TRUE)
  /\ UNCHANGED <<voices, task, stop, crossed>>

\* The segmenter returns an utterance, or a silence that ends the turn.
Segmented(t, speech) ==
  /\ turn[t].at = "segment"
  /\ IF speech THEN MovesTo(t, "TRANSCRIBING", "stt") ELSE Returns(t)
  /\ UNCHANGED <<voices, task, stop, crossed>>

\* The recogniser answers with words, with nothing, or fails, and then nothing resets.
Transcribed(t, result) ==
  /\ turn[t].at = "stt"
  /\ \/ result = "words" /\ MovesTo(t, "THINKING", "engine")
     \/ result = "nothing" /\ Returns(t)
     \/ result = "fails" /\ Goes(t, "out") /\ UNCHANGED machine
  /\ UNCHANGED <<voices, task, stop, crossed>>

\* speak(): the task is created and handed to the controller in one step.
Speech(t) ==
  /\ machine' = "SPEAKING" /\ voices' = voices \cup {t} /\ task' = t
  /\ crossed' = (crossed \/ voices # {} \/ stop # "none")

\* The core has answered, or failed.
Answered(t, ok) ==
  /\ turn[t].at = "engine"
  /\ IF ok /\ can("SPEAKING") THEN Speech(t) /\ Goes(t, "speaking")
     ELSE /\ Goes(t, IF ok THEN "refused" ELSE "out")
          /\ UNCHANGED <<machine, voices, task, crossed>>
  /\ UNCHANGED stop

\* A reply spoken from rest; it leaves the machine where speaking left it.
Notices(t) ==
  /\ turn[t].at = "out" /\ can("SPEAKING") /\ Speech(t)
  /\ turn' = [turn EXCEPT ![t] = [at |-> "speaking", kind |-> "notice", barged |-> FALSE]]
  /\ UNCHANGED stop

\* The speech comes to its end; finished() drops whichever handle is there.
SpeechEnds(t) ==
  /\ turn[t].at = "speaking"
  /\ voices' = voices \ {t} /\ task' = NoTurn
  /\ IF turn[t].kind = "notice" THEN Goes(t, "out") /\ UNCHANGED machine ELSE Returns(t)
  /\ UNCHANGED <<stop, crossed>>

\* VoiceStateError reaches the caller; nobody resets the machine on its way.
Raises(t) ==
  /\ turn[t].at = "refused" /\ Goes(t, "out")
  /\ UNCHANGED <<machine, voices, task, stop, crossed>>

\* interrupt(): cut what is spoken, and ask the provider to stop either way.
StopAsked ==
  /\ stop = "none" /\ stop' = "silencing"
  /\ IF speaking THEN Cut /\ turn' = [turn EXCEPT ![task].at = "out"]
                 ELSE UNCHANGED <<machine, turn, voices, task>>
  /\ UNCHANGED crossed

\* With nothing to cut the handle is dropped after the provider has answered, whoever has
\* begun to speak meanwhile; then the machine is reset.
StopAnswered ==
  /\ stop = "silencing" /\ stop' = "none"
  /\ task' = NoTurn /\ machine' = "IDLE"
  /\ UNCHANGED <<turn, voices, crossed>>

Next ==
  \/ \E t \in Turns :
       \/ \E kind \in {"listen", "audio"} : Begins(t, kind) \/ BargesIn(t, kind)
       \/ Silenced(t)
       \/ \E speech \in BOOLEAN : Segmented(t, speech)
       \/ \E result \in {"words", "nothing", "fails"} : Transcribed(t, result)
       \/ \E ok \in BOOLEAN : Answered(t, ok)
       \/ Notices(t) \/ SpeechEnds(t) \/ Raises(t)
  \/ StopAsked \/ StopAnswered

Spec == Init /\ [][Next]_voiceVars
-----------------------------------------------------------------------------
\* "an utterance nobody holds a handle to is an utterance nobody can stop": a reply that is
\* playing is the one the controller can end, unless one has begun while another was playing
\* or a stop was being answered.
SpeechCanBeStopped == crossed \/ \A t \in voices : t = task

\* "the owner speaking outranks it": a call that cut a reply in order to be heard is not
\* thrown out by the state machine.
OwnerIsHeard == \A t \in Turns : turn[t].barged => turn[t].at # "refused"

\* The recording indicator is on whenever a call is capturing.
IndicatorIsTrue == \A t \in Turns : turn[t].at = "segment" => machine \in {"LISTENING", "CAPTURING"}
===============================================================================
