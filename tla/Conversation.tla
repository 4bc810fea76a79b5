---------------------------- MODULE Conversation ----------------------------
(***************************************************************************)
(* Several turns of one conversation at once (core/engine.py): the word    *)
(* that answers a question, the approvals and offers it may answer         *)
(* (security/approvals.py, automation/offers.py), and what a turn leaves   *)
(* in memory once the owner has said not to remember.                      *)
(*                                                                         *)
(* A turn is suspended while the request is understood, while its work     *)
(* runs or waits for the owner, while an answer is announced, and at each  *)
(* of its writes.  What the work is, and the wording of replies, are left  *)
(* out; so are tool calls, of which ToolExecution has the detail: here a   *)
(* turn asks at most once, and waits from the moment it has asked.         *)
(* Nothing under src/ but tests makes offers yet: they come from outside.  *)
(***************************************************************************)
EXTENDS Naturals, Sequences, FiniteSets, FiniteSetsExt

CONSTANTS MaxTurns, MaxOffers

Spoken == 1..MaxTurns    \* in the order in which they were spoken

Kinds == {"yes", "no", "work", "chat", "suppress", "remember"}
None == 0

VARIABLES
  turns,       \* where each turn is suspended
  approvals,   \* the approvals in the order they were requested
  offers,      \* the offers in the order they were made
  memories,    \* what the conversation has stored, by the turn that wrote it
  suppressed,  \* "don't remember this" was said here
  answers,     \* history: the question each answering turn settled, and the one it had heard
  racing,      \* history: turns that were writing when memory was suppressed
  promised     \* history: "I will not remember" was answered

conversationVars ==
  <<turns, approvals, offers, memories, suppressed, answers, racing, promised>>

Questions == {"approval", "offer"} \X (1..(MaxTurns + MaxOffers))
NoQuestion == <<"none", None>>
Memories == [turn : Spoken, part : 0..2]    \* part 0 was asked for in words

\* asks is the approval a turn's work waits for; left, the memories still to write or remove.
Turn == [at : {"new", "reading", "working", "waiting", "announcing", "writing", "noting",
               "forgetting", "done"},
         kind : Kinds, waits : BOOLEAN, asks : 0..MaxTurns, left : 0..2,
         doomed : SUBSET Memories, heard : Questions \cup {NoQuestion}]

TypeOK ==
  /\ turns \in [Spoken -> Turn]
  /\ \A i \in DOMAIN approvals : approvals[i] \in
       [state : {"pending", "approved", "rejected", "expired"}, due : BOOLEAN, told : BOOLEAN]
  /\ \A i \in DOMAIN offers : offers[i] \in {"open", "accepted", "declined", "lapsed"}
  /\ memories \subseteq Memories /\ suppressed \in BOOLEAN /\ racing \subseteq Spoken
  /\ promised \in BOOLEAN
  /\ \A t \in DOMAIN answers : answers[t] \in [question : Questions, heard : Questions \cup {NoQuestion}]

Fresh == [at |-> "new", kind |-> "chat", waits |-> FALSE, asks |-> None, left |-> 0,
          doomed |-> {}, heard |-> NoQuestion]

Init ==
  /\ turns = [t \in Spoken |-> Fresh]
  /\ approvals = <<>> /\ offers = <<>> /\ memories = {} /\ suppressed = FALSE
  /\ answers = <<>> /\ racing = {} /\ promised = FALSE
-----------------------------------------------------------------------------
At(t, place) == turns[t].at = place
Goes(t, place) == turns' = [turns EXCEPT ![t].at = place]
Ends(t) == turns' = [turns EXCEPT ![t] = [Fresh EXCEPT !.at = "done"]]   \* its locals are gone

Live(i) == approvals[i].state = "pending" /\ ~approvals[i].due
open == {i \in DOMAIN approvals : Live(i)}
openOffers == {i \in DOMAIN offers : offers[i] = "open"}

\* What Thursday last asked that is still open; an approval is asked louder than an offer.
lastAsked ==
  IF open # {} THEN <<"approval", Max(open)>>
  ELSE IF openOffers # {} THEN <<"offer", Max(openOffers)>> ELSE NoQuestion

\* handle_turn up to the end of understand().
Speak(t, kind, waits) ==
  /\ At(t, "new") /\ \A u \in 1..(t - 1) : ~At(u, "new")
  /\ waits => kind = "work"
  /\ turns' = [turns EXCEPT ![t].at = "reading", ![t].kind = kind, ![t].waits = waits,
                  ![t].heard = IF kind \in {"yes", "no"} THEN lastAsked ELSE NoQuestion]
  /\ UNCHANGED <<approvals, offers, memories, suppressed, answers, racing, promised>>

\* pending() marks what is overdue and lists the rest in the order of the requests.
Listed == [i \in DOMAIN approvals |->
             IF approvals[i].state = "pending" /\ approvals[i].due
             THEN [approvals[i] EXCEPT !.state = "expired"] ELSE approvals[i]]

Settles(t, question) ==
  answers' = [u \in DOMAIN answers \cup {t} |->
                IF u = t THEN [question |-> question, heard |-> turns[t].heard] ELSE answers[u]]

\* _handle_answer when approvals are open: the first listed is decided, then announced.
AnswerApproval(t) ==
  LET yes == turns[t].kind = "yes" IN
  /\ At(t, "reading") /\ turns[t].kind \in {"yes", "no"} /\ open # {}
  /\ approvals' = [Listed EXCEPT ![Min(open)].state = IF yes THEN "approved" ELSE "rejected"]
  /\ turns' = [turns EXCEPT ![t].at = "announcing", ![t].asks = Min(open),
                            ![t].heard = NoQuestion]
  /\ Settles(t, <<"approval", Min(open)>>)
  /\ UNCHANGED <<offers, memories, suppressed, racing, promised>>

\* The announcement has been heard by every subscriber; now the waiter is woken.
Announced(t) ==
  /\ At(t, "announcing")
  /\ approvals' = [approvals EXCEPT ![turns[t].asks].told = TRUE]
  /\ Ends(t)
  /\ UNCHANGED <<offers, memories, suppressed, answers, racing, promised>>

\* No approval is open: the latest offer is taken up or declined.  Taken up, it is a plan of
\* its own, or an instruction that goes through a turn as if the owner had typed it; neither
\* waits for an approval.
AnswerOffer(t, place, kind) ==
  /\ At(t, "reading") /\ turns[t].kind \in {"yes", "no"} /\ open = {} /\ openOffers # {}
  /\ approvals' = Listed
  /\ offers' = [offers EXCEPT ![Max(openOffers)] =
                  IF turns[t].kind = "yes" THEN "accepted" ELSE "declined"]
  /\ \/ turns[t].kind = "no" /\ place = "done" /\ kind = "no" /\ Ends(t)
     \/ /\ turns[t].kind = "yes"
        /\ <<place, kind>> \in {<<"working", "yes">>, <<"reading", "work">>, <<"reading", "chat">>}
        /\ turns' = [turns EXCEPT ![t].at = place, ![t].kind = kind, ![t].heard = NoQuestion]
  /\ Settles(t, <<"offer", Max(openOffers)>>)
  /\ UNCHANGED <<memories, suppressed, racing, promised>>

NothingAsked(t) ==
  /\ At(t, "reading") /\ turns[t].kind \in {"yes", "no"} /\ open = {} /\ openOffers = {}
  /\ approvals' = Listed /\ Ends(t)
  /\ UNCHANGED <<offers, memories, suppressed, answers, racing, promised>>

\* Work is planned and runs; a question with no plan is answered: both return later.
Begin(t) ==
  /\ At(t, "reading") /\ turns[t].kind \in {"work", "chat"}
  /\ Goes(t, "working")
  /\ UNCHANGED <<approvals, offers, memories, suppressed, answers, racing, promised>>

\* A step needs the owner.  A turn that does not wait ends here, its task WAITING_APPROVAL.
Ask(t) ==
  /\ At(t, "working") /\ turns[t].kind # "chat" /\ turns[t].asks = None
  /\ approvals' = Append(approvals, [state |-> "pending", due |-> FALSE, told |-> FALSE])
  /\ IF turns[t].waits
     THEN turns' = [turns EXCEPT ![t].at = "waiting", ![t].asks = Len(approvals) + 1]
     ELSE Ends(t)
  /\ UNCHANGED <<offers, memories, suppressed, answers, racing, promised>>

\* wait_for returns: with the answer, or at the deadline, which overwrites it.
Woken(t) ==
  /\ At(t, "waiting") /\ approvals[turns[t].asks].told
  /\ IF approvals[turns[t].asks].state = "approved" THEN Goes(t, "working") ELSE Ends(t)
  /\ UNCHANGED <<approvals, offers, memories, suppressed, answers, racing, promised>>

TimesOut(t) ==
  /\ At(t, "waiting") /\ approvals[turns[t].asks].due /\ ~approvals[turns[t].asks].told
  /\ approvals' = [approvals EXCEPT ![turns[t].asks].state = "expired"]
  /\ Ends(t)
  /\ UNCHANGED <<offers, memories, suppressed, answers, racing, promised>>

\* Deadlines pass in the order of the requests, and offers lapse in theirs.
TimePasses(i) ==
  /\ i \in DOMAIN approvals /\ ~approvals[i].due /\ ~approvals[i].told
  /\ \A j \in 1..(i - 1) : approvals[j].due \/ approvals[j].told
  /\ approvals' = [approvals EXCEPT ![i].due = TRUE]
  /\ UNCHANGED <<turns, offers, memories, suppressed, answers, racing, promised>>

OfferMade ==
  /\ Len(offers) < MaxOffers /\ offers' = Append(offers, "open")
  /\ UNCHANGED <<turns, approvals, memories, suppressed, answers, racing, promised>>

OfferLapses(i) ==
  /\ i \in openOffers /\ \A j \in openOffers : i <= j
  /\ offers' = [offers EXCEPT ![i] = "lapsed"]
  /\ UNCHANGED <<turns, approvals, memories, suppressed, answers, racing, promised>>
-----------------------------------------------------------------------------
\* The work is reported, and _remember looks once at whether it may write: one record, or
\* two of a task with several steps.  A taken-up plan, a refusal and an empty reply leave none.
WorkEnds_Remembers(t, n) ==
  /\ At(t, "working")
  /\ turns[t].kind = "chat" => n # 2
  /\ turns[t].kind \in {"yes", "no"} => n = 0
  /\ IF n = 0 THEN Ends(t) ELSE turns' = [turns EXCEPT ![t].at = "writing", ![t].left = n]
  /\ UNCHANGED <<approvals, offers, memories, suppressed, answers, racing, promised>>
WorkEnds(t, n) ==
  /\ At(t, "working")
  /\ suppressed => n = 0
  /\ turns[t].kind = "chat" => n # 2
  /\ turns[t].kind \in {"yes", "no"} => n = 0
  /\ IF n = 0 THEN Ends(t) ELSE turns' = [turns EXCEPT ![t].at = "writing", ![t].left = n]
  /\ UNCHANGED <<approvals, offers, memories, suppressed, answers, racing, promised>>

\* One write has come back, stored or refused by the write policy.
Written(t, kept) ==
  /\ At(t, "writing")
  /\ memories' = IF kept THEN memories \cup {[turn |-> t, part |-> turns[t].left]} ELSE memories
  /\ IF turns[t].left = 1 THEN Ends(t) ELSE turns' = [turns EXCEPT ![t].left = 1]
  /\ UNCHANGED <<approvals, offers, suppressed, answers, racing, promised>>

\* _handle_remember: what the owner asks to be remembered is proposed in any case.
Note(t) ==
  /\ At(t, "reading") /\ turns[t].kind = "remember" /\ Goes(t, "noting")
  /\ UNCHANGED <<approvals, offers, memories, suppressed, answers, racing, promised>>
Noted(t, kept) ==
  /\ At(t, "noting") /\ Ends(t)
  /\ memories' = IF kept THEN memories \cup {[turn |-> t, part |-> 0]} ELSE memories
  /\ UNCHANGED <<approvals, offers, suppressed, answers, racing, promised>>

\* _handle_forget, mode "suppress": nothing more from here on, then what is there goes, one
\* record at a time.
Suppress(t) ==
  /\ At(t, "reading") /\ turns[t].kind = "suppress"
  /\ suppressed' = TRUE
  /\ turns' = [turns EXCEPT ![t].at = "forgetting", ![t].doomed = memories]
  /\ racing' = racing \cup {r \in Spoken : At(r, "writing")}
  /\ UNCHANGED <<approvals, offers, memories, answers, promised>>
Forgets(t, m) ==
  /\ At(t, "forgetting") /\ m \in turns[t].doomed
  /\ turns' = [turns EXCEPT ![t].doomed = @ \ {m}] /\ memories' = memories \ {m}
  /\ UNCHANGED <<approvals, offers, suppressed, answers, racing, promised>>
WillNotRemember(t) ==
  /\ At(t, "forgetting") /\ turns[t].doomed = {} /\ Ends(t)
  /\ promised' = TRUE
  /\ UNCHANGED <<approvals, offers, memories, suppressed, answers, racing>>

Next ==
  \/ \E t \in Spoken :
       \/ \E kind \in Kinds, waits \in BOOLEAN : Speak(t, kind, waits)
       \/ AnswerApproval(t) \/ Announced(t) \/ NothingAsked(t)
       \/ \E place \in {"done", "working", "reading"}, kind \in Kinds : AnswerOffer(t, place, kind)
       \/ Begin(t) \/ Ask(t) \/ Woken(t) \/ TimesOut(t)
       \/ \E n \in 0..2 : WorkEnds(t, n)
       \/ Note(t) \/ \E kept \in BOOLEAN : Written(t, kept) \/ Noted(t, kept)
       \/ Suppress(t) \/ \E m \in Memories : Forgets(t, m)
       \/ WillNotRemember(t)
  \/ \E i \in 1..MaxTurns : TimePasses(i)
  \/ OfferMade \/ \E i \in openOffers : OfferLapses(i)

Spec == Init /\ [][Next]_conversationVars
-----------------------------------------------------------------------------
\* "One yes answers one question": no more questions are settled than words were said, and
\* work that asked goes on only when the owner's word to that very question was yes.
OneWordOneQuestion ==
  /\ Cardinality({i \in DOMAIN approvals : approvals[i].state \in {"approved", "rejected"}})
       + Cardinality({i \in DOMAIN offers : offers[i] \in {"accepted", "declined"}})
       <= Cardinality(DOMAIN answers)
  /\ \A t \in Spoken :
       At(t, "working") /\ turns[t].asks # None => approvals[turns[t].asks].state = "approved"

\* Once "don't remember this" has been answered, the conversation holds only what the owner
\* asked for in words and what was being written at that very moment, however many turns were
\* running when it was said.
SuppressionHolds == promised => \A m \in memories : m.part = 0 \/ m.turn \in racing

\* What the documentation says: "the question most recently asked - the one a bare yes is
\* answering".  A word settles the question the owner had last heard when they said it.
YesAnswersWhatWasAsked == \A t \in DOMAIN answers : answers[t].question = answers[t].heard

\* "Only stopping would leave the thing the owner was pointing at still in memory."
SuppressedIsForgotten == promised => \A m \in memories : m.part = 0
=============================================================================
