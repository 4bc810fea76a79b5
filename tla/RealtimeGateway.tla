--------------------------- MODULE RealtimeGateway ---------------------------
(***************************************************************************)
(* The client's channel (services/realtime, gateway.py; the desktop's      *)
(* useRealtime.ts).  One socket has two coroutines: the receive loop,      *)
(* which handles one frame of the client at a time, and the pump, which    *)
(* drains a bounded outbox and, between two messages, sends Thursday's     *)
(* expression when it has changed.  An expression is its version number.   *)
(***************************************************************************)
EXTENDS Naturals, Sequences

CONSTANTS Capacity,   \* of the outbox (256 in the code)
          MaxChanges, \* bound: changes of the expression
          MaxFrames,  \* bound: frames the client sends
          MaxLinks    \* bound: connections

VARIABLES face,     \* what express() would say now
          last,     \* ExpressionFeed._last
          outbox,   \* messages for the client, expressions or others
          putting,  \* what the receive loop is waiting to put into the outbox
          sending,  \* what the pump is sending
          recv,     \* where the receive loop is
          inbox,    \* frames that have reached the socket and are not read yet
          shown,    \* what the client draws; 0 is UNKNOWN
          overtaken,\* an expression was sent while an older one was queued
          links, frames, online

gatewayVars == <<face, last, outbox, putting, sending, recv, inbox, shown, overtaken, links, frames, online>>

Faces == 1..MaxChanges
Other == 0      \* a reply, an event, a pong
Quiet == <<>>

TypeOK ==
  /\ face \in Faces /\ last \in Faces \cup {0}
  /\ outbox \in Seq(Faces \cup {Other}) /\ Len(outbox) <= Capacity
  /\ putting \in Seq(Faces \cup {Other}) /\ sending \in Seq(Faces \cup {Other})
  /\ recv \in {"receive", "turn", "answered", "stop"}
  /\ inbox \in Seq({"turn", "interrupt"}) /\ shown \in Faces \cup {0}
  /\ overtaken \in BOOLEAN /\ online \in BOOLEAN
  /\ links \in 0..MaxLinks /\ frames \in 0..MaxFrames

Init ==
  /\ face = 1 /\ last = 0 /\ outbox = Quiet /\ putting = Quiet /\ sending = Quiet
  /\ recv = "receive" /\ inbox = <<>> /\ shown = 0 /\ overtaken = FALSE
  /\ links = 0 /\ frames = 0 /\ online = FALSE
-----------------------------------------------------------------------------
\* "ready" and the first paint, before the pump exists.
Connect ==
  /\ ~online /\ links < MaxLinks /\ links' = links + 1 /\ online' = TRUE
  /\ last' = face /\ shown' = face
  /\ outbox' = Quiet /\ putting' = Quiet /\ sending' = Quiet /\ inbox' = <<>> /\ recv' = "receive"
  /\ overtaken' = FALSE
  /\ UNCHANGED <<face, frames>>

\* The client forgets the expression; what was queued or under way is for nobody.
LinkLost ==
  /\ online /\ online' = FALSE /\ shown' = 0
  /\ UNCHANGED <<face, last, outbox, putting, sending, recv, inbox, overtaken, links, frames>>

\* World state, health, lockdown, the microphone.
Changes ==
  /\ face < MaxChanges /\ face' = face + 1
  /\ UNCHANGED <<last, outbox, putting, sending, recv, inbox, shown, overtaken, links, frames, online>>

\* forward(): an event goes into the outbox or, when that is full, nowhere.
Event ==
  /\ online /\ outbox' = IF Len(outbox) < Capacity THEN Append(outbox, Other) ELSE outbox
  /\ UNCHANGED <<face, last, putting, sending, recv, inbox, shown, overtaken, links, frames, online>>

\* The client sends a turn, or the owner's interrupt.
Frame(kind) ==
  /\ online /\ frames < MaxFrames /\ frames' = frames + 1
  /\ inbox' = Append(inbox, kind)
  /\ UNCHANGED <<face, last, outbox, putting, sending, recv, shown, overtaken, links, online>>

Put ==
  /\ putting # Quiet /\ Len(outbox) < Capacity
  /\ outbox' = Append(outbox, Head(putting)) /\ putting' = Tail(putting)
  /\ UNCHANGED <<face, last, sending, recv, inbox, shown, overtaken, links, frames, online>>

\* announce(): an expression that has changed is queued, and remembered as sent.
Announces(f) == putting' = (IF f = last THEN Quiet ELSE <<f>>) /\ last' = f

\* The loop takes the next frame only when it is done with the one before.
Receive ==
  /\ online /\ recv = "receive" /\ putting = Quiet /\ inbox # <<>> /\ face < MaxChanges
  /\ inbox' = Tail(inbox) /\ face' = face + 1
  /\ IF Head(inbox) = "turn" THEN recv' = "turn" /\ Announces(face + 1)
                             ELSE recv' = "stop" /\ UNCHANGED <<putting, last>>
  /\ UNCHANGED <<outbox, sending, shown, overtaken, links, frames, online>>

\* handle_request() or handle_turn("stop") has returned.
Replies ==
  /\ recv \in {"turn", "stop"} /\ putting = Quiet
  /\ recv' = IF recv = "turn" THEN "answered" ELSE "receive"
  /\ putting' = <<Other>>
  /\ UNCHANGED <<face, last, outbox, sending, inbox, shown, overtaken, links, frames, online>>

Settles ==
  /\ recv = "answered" /\ putting = Quiet /\ face < MaxChanges
  /\ recv' = "receive" /\ face' = face + 1 /\ Announces(face + 1)
  /\ UNCHANGED <<outbox, sending, inbox, shown, overtaken, links, frames, online>>

PumpTakes ==
  /\ online /\ sending = Quiet /\ outbox # Quiet
  /\ sending' = <<Head(outbox)>> /\ outbox' = Tail(outbox)
  /\ UNCHANGED <<face, last, putting, recv, inbox, shown, overtaken, links, frames, online>>

\* changed(), after a message or on the timer, straight down the socket.
changed == face # last
queuedFaces == \E i \in DOMAIN outbox : outbox[i] # Other
Checks ==
  IF changed
  THEN /\ last' = face /\ sending' = <<face>>
       /\ overtaken' = (overtaken \/ queuedFaces \/ (putting # Quiet /\ Head(putting) # Other))
  ELSE sending' = Quiet /\ UNCHANGED <<last, overtaken>>

Delivered ==
  /\ online /\ sending # Quiet
  /\ shown' = IF Head(sending) = Other THEN shown ELSE Head(sending)
  /\ Checks
  /\ UNCHANGED <<face, outbox, putting, recv, inbox, links, frames, online>>

\* Twenty quiet seconds.
Timer ==
  /\ online /\ sending = Quiet /\ outbox = Quiet /\ Checks
  /\ UNCHANGED <<face, outbox, putting, recv, inbox, shown, links, frames, online>>

Next ==
  \/ Connect \/ LinkLost \/ Changes \/ Event \/ Put \/ Receive \/ Replies \/ Settles
  \/ PumpTakes \/ Delivered \/ Timer
  \/ \E kind \in {"turn", "interrupt"} : Frame(kind)

Spec == Init /\ [][Next]_gatewayVars
-----------------------------------------------------------------------------
\* What the client draws is what the feed last said or is on its way there: a change is never
\* taken for sent and then lost between the two coroutines, a full outbox and a new connection,
\* unless an expression went straight down the socket while an older one was still queued.
onItsWay == {outbox[i] : i \in DOMAIN outbox} \cup {putting[i] : i \in DOMAIN putting}
            \cup {sending[i] : i \in DOMAIN sending}
NothingIsSwallowed == online /\ ~overtaken => shown = last \/ last \in onItsWay

\* The same with nothing excused: once everything has been delivered, the client draws what
\* the feed last said.
FaceSettles == online /\ onItsWay = {} => shown = last

\* "stop outranks everything, including a turn already in flight": no turn goes on to its
\* answer over an interrupt that has reached the core.
StopOutranksTheTurn ==
  [][recv = "turn" /\ recv' = "answered" => \A i \in DOMAIN inbox : inbox[i] # "interrupt"]_gatewayVars
===============================================================================
