---------------------------- MODULE CameraConsent ----------------------------
(***************************************************************************)
(* The camera (packages/vision, camera.py): grants that expire and are     *)
(* spent, captures that await the hardware's opening and its frame, the    *)
(* owner's revocation and the sweep that closes an idle camera.  The       *)
(* indicator is on exactly while the state is ACTIVE.                      *)
(***************************************************************************)
EXTENDS Naturals, FiniteSets

CONSTANTS Looks,     \* calls of capture()
          MaxGrants  \* bound: grants the owner gives

VARIABLES state,     \* CameraManager._state
          hardware,  \* whether the source is open
          given,     \* grants so far; the newest is the current one
          grant,     \* CameraManager._grant: what is left of it
          look,      \* where each capture() is
          closing,   \* calls of _close() that wait for the source
          last,      \* _last_capture: none yet, within the idle window, or longer ago
          allowed,   \* looks each grant was given for
          frames,    \* frames taken under each grant
          lapses     \* what has happened that the light does not survive

cameraVars == <<state, hardware, given, grant, look, closing, last, allowed, frames, lapses>>

NoGrant == [live |-> FALSE, left |-> 0]
\* a capture() that closes what it spent, the owner's revoke(), the sweep's close_if_idle()
Closers == Looks \cup {"owner", "sweep"}

TypeOK ==
  /\ state \in {"OFF", "ARMED", "ACTIVE"} /\ hardware \in BOOLEAN
  /\ given \in 0..MaxGrants
  /\ grant \in [live : BOOLEAN, left : 0..2]
  /\ look \in [Looks -> [at : {"out", "opening", "taking"}, under : 0..MaxGrants]]
  /\ closing \subseteq Closers
  /\ last \in {"never", "recent", "old"}
  /\ allowed \in [1..MaxGrants -> 0..2] /\ frames \in [1..MaxGrants -> Nat]
  /\ lapses \subseteq {"regranted", "overlapped", "stuck"}

Init ==
  /\ state = "OFF" /\ hardware = FALSE /\ given = 0 /\ grant = NoGrant
  /\ look = [c \in Looks |-> [at |-> "out", under |-> 0]]
  /\ closing = {} /\ last = "never" /\ lapses = {}
  /\ allowed = [g \in 1..MaxGrants |-> 0] /\ frames = [g \in 1..MaxGrants |-> 0]
-----------------------------------------------------------------------------
expired(g) == ~g.live \/ g.left = 0
may_capture == given > 0 /\ ~expired(grant)
At(c, place) == look' = [look EXCEPT ![c].at = place]
underWay == {c \in Looks : look[c].at # "out"}

\* _close(): an ACTIVE source is awaited, and the state moves only after it has answered;
\* in every other state nothing is asked of the source.
Close_First(who) ==
  /\ state' = "OFF"
  /\ closing' = IF state = "ACTIVE" THEN closing \cup {who} ELSE closing
Close(who) ==
  IF state = "ACTIVE" THEN closing' = closing \cup {who} /\ UNCHANGED state
                      ELSE state' = "OFF" /\ UNCHANGED closing

\* grant_access(): ARMED from every state, an open camera's too.
Grant(looks) ==
  /\ given < MaxGrants /\ given' = given + 1
  /\ grant' = [live |-> TRUE, left |-> looks] /\ state' = "ARMED"
  /\ allowed' = [allowed EXCEPT ![given'] = looks]
  /\ lapses' = lapses \cup (IF hardware \/ underWay # {} \/ closing # {} THEN {"regranted"} ELSE {})
  /\ UNCHANGED <<hardware, look, closing, last, frames>>

Expires ==
  /\ grant.live /\ grant' = [grant EXCEPT !.live = FALSE]
  /\ UNCHANGED <<state, hardware, given, look, closing, last, allowed, frames, lapses>>

Revoke ==
  /\ "owner" \notin closing /\ grant' = NoGrant /\ Close("owner")
  /\ UNCHANGED <<hardware, given, look, last, allowed, frames, lapses>>

Look(c) ==
  /\ look[c].at = "out" /\ c \notin closing /\ may_capture
  /\ look' = [look EXCEPT ![c] = [at |-> IF state = "ACTIVE" THEN "taking" ELSE "opening",
                                  under |-> given]]
  /\ lapses' = lapses \cup (IF underWay # {} THEN {"overlapped"} ELSE {})
  /\ UNCHANGED <<state, hardware, given, grant, closing, last, allowed, frames>>

Opened(c, ok) ==
  /\ look[c].at = "opening"
  /\ IF ok THEN hardware' = TRUE /\ state' = "ACTIVE" /\ At(c, "taking")
           ELSE At(c, "out") /\ UNCHANGED <<state, hardware>>
  /\ UNCHANGED <<given, grant, closing, last, allowed, frames, lapses>>

\* The frame is charged to whatever grant stands by now, and a grant that is spent, or has
\* expired meanwhile, is revoked.
charged == IF grant = NoGrant THEN NoGrant
           ELSE [grant EXCEPT !.left = IF @ = 0 THEN 0 ELSE @ - 1]
Taken(c) ==
  /\ look[c].at = "taking" /\ hardware
  /\ At(c, "out") /\ last' = "recent"
  /\ frames' = [frames EXCEPT ![look[c].under] = @ + 1]
  /\ IF grant # NoGrant /\ expired(charged)
     THEN grant' = NoGrant /\ Close(c)
     ELSE grant' = charged /\ UNCHANGED <<state, closing>>
  /\ UNCHANGED <<hardware, given, allowed, lapses>>

Fails(c) ==
  /\ look[c].at = "taking" /\ At(c, "out")
  /\ UNCHANGED <<state, hardware, given, grant, closing, last, allowed, frames, lapses>>

\* close_if_idle(): only an ACTIVE camera that has taken a frame before can be idle.
Sweep ==
  /\ "sweep" \notin closing /\ state = "ACTIVE" /\ last = "old" /\ Close("sweep")
  /\ UNCHANGED <<hardware, given, grant, look, last, allowed, frames, lapses>>

\* A source that fails to close is reported OFF all the same.
Closed(who, ok) ==
  /\ who \in closing /\ closing' = closing \ {who}
  /\ state' = "OFF" /\ hardware' = (hardware /\ ~ok)
  /\ lapses' = lapses \cup (IF hardware /\ ~ok THEN {"stuck"} ELSE {})
  /\ UNCHANGED <<given, grant, look, last, allowed, frames>>

Idle ==
  /\ last = "recent" /\ last' = "old"
  /\ UNCHANGED <<state, hardware, given, grant, look, closing, allowed, frames, lapses>>

Next ==
  \/ \E looks \in 1..2 : Grant(looks)
  \/ Expires \/ Revoke \/ Sweep \/ Idle
  \/ \E c \in Looks : \/ Look(c) \/ Taken(c) \/ Fails(c)
                      \/ \E ok \in BOOLEAN : Opened(c, ok)
  \/ \E who \in Closers, ok \in BOOLEAN : Closed(who, ok)

Spec == Init /\ [][Next]_cameraVars
-----------------------------------------------------------------------------
\* "Hardware open.  The indicator is on exactly in this state": an open camera is never dark,
\* in whatever order captures, revocations, expiries and sweeps await the hardware, unless
\* access was granted again while it was in use or the source failed to close.
LightIsTrue == hardware => state = "ACTIVE" \/ lapses \cap {"regranted", "stuck"} # {}

\* "A grant for one look cannot be reused for a second", nor one for two looks for a third,
\* if the looks do not overlap and no new grant arrives between a look and its frame.
LooksAreCounted ==
  lapses \cap {"regranted", "overlapped"} = {} =>
    \A g \in 1..MaxGrants : frames[g] <= allowed[g]

\* "Hardware open.  The indicator is on exactly in this state."
IndicatorIsTrue == hardware <=> state = "ACTIVE"
===============================================================================
