-------------------------- MODULE DeviceHub_proofs --------------------------
(***************************************************************************)
(* What DeviceHub keeps for every number of connections, calls and         *)
(* rotations, proved.  Three facts carry the rest: the node is never on    *)
(* two transports, a connection whose HELLO has not been read has been     *)
(* nobody's session and is not closed, and one that is past its handler    *)
(* carries nothing.                                                        *)
(***************************************************************************)
EXTENDS DeviceHub, TLAPS

\* The node dials again only when the transport it was on carries nothing any more.
OneLink == wire \subseteq {dialled}

\* What has not been let in has not been let go, and a session that is held is open.
NotYetIn == \A s \in Sockets : conn[s] \in {"new", "hello"} => s \notin closed /\ session # s
HeldIsOpen == session \notin closed

\* A revoked device has no session, and is on the list only while the revocation is under way.
RevokedIsOut ==
  revoked => session = None /\ (status = "ABSENT" \/ job["revoke"] # "idle")

\* A connection whose handler has left carries nothing, what is in flight is on a link, what
\* was not dispatched is not on the node, and what is awaited was sent on a session that was
\* let in and is not closed.
OffTheWire == \A s \in Sockets : conn[s] \in {"leaving", "gone"} => s \notin wire
InFlight == \A a \in Calls : node[a] \in {"sent", "replied"} => on[a] \in wire
Unsent == \A a \in Calls : call[a] = "idle" => node[a] = "none"
Awaited ==
  \A a \in Calls : future[a] = "pending" =>
    on[a] \in Sockets \ closed /\ conn[on[a]] \notin {"new", "hello"}

HubInv ==
  /\ TypeOK /\ OneLink /\ NotYetIn /\ HeldIsOpen /\ RevokedIsOut
  /\ OnlyCurrentKeysDrive /\ AttachedIsHeld /\ OffTheWire /\ InFlight
  /\ Unsent /\ Awaited

\* The steps of a connection and of its node, of the hub itself, of the owner, of a call.
ConnectionStep(s) ==
  Dial(s) \/ LinkDrops(s) \/ Hello(s) \/ HelloLost(s) \/ Welcome(s) \/ Left(s) \/ Leave(s)
    \/ Heartbeat(s)
DispatchStep(a) ==
  Invoke(a) \/ Sent(a) \/ Answered(a) \/ Timeout(a) \/ NodeRuns(a) \/ NodeReplies(a) \/ Result(a)

\* Every step of the hub is one of a kind named above, or one of the owner's or the clock's.
LEMMA StepsNamed ==
  Next <=>
    \/ \E s \in Sockets : ConnectionStep(s)
    \/ NodeNotices
    \/ \E j \in Jobs : JobMarks(j)
    \/ Sweep \/ Stop \/ Rotate \/ Revoke \/ Forget
    \/ Enrol \/ RestHeartbeat \/ \E t \in Trust : SetTrust(t)
    \/ \E a \in Calls : DispatchStep(a)
BY DEF Next, ConnectionStep, DispatchStep, HandlerStep, CallStep

-------------------------------------------------------------------------------
\* The initial state is well typed and keeps the invariant.
LEMMA HubInit == Init => HubInv
<1> SUFFICES ASSUME Init PROVE HubInv
  OBVIOUS
<1>1. TypeOK
  <2>1. /\ key \in 0..MaxKey /\ revoked \in BOOLEAN /\ session = None /\ dialled = None
        /\ status = "OFFLINE" /\ trust \in Trust /\ granted \in Trust
        /\ closed = {} /\ wire = {} /\ presented \in [Sockets -> 0..MaxKey]
    <3>1. MaxKey \in Nat /\ 0 \in 0..MaxKey
      BY HubAssumption
    <3> QED
      BY <3>1 DEF Init, Trust
  <2>2. /\ conn = [s \in Sockets |-> "new"] /\ job = [j \in Jobs |-> "idle"]
        /\ call = [a \in Calls |-> "idle"] /\ future = [a \in Calls |-> "none"]
        /\ on = [a \in Calls |-> None] /\ node = [a \in Calls |-> "none"]
    BY DEF Init
  <2> QED
    BY <2>1, <2>2 DEF TypeOK
<1> QED
  BY <1>1, HubAssumption
     DEF Init, HubInv, OneLink, NotYetIn, HeldIsOpen, RevokedIsOut, OnlyCurrentKeysDrive,
         AttachedIsHeld, OffTheWire, InFlight, Unsent, Awaited

\* Dropping a session keeps the types of what it touches.
LEMMA DropTypes ==
  ASSUME TypeOK, NEW down \in SUBSET Sockets, Drop(down)
  PROVE  /\ session' = None /\ closed' \subseteq Sockets /\ wire' \subseteq wire
         /\ future' \in [Calls -> {"none", "pending", "result", "cut"}]
         /\ node' \in [Calls -> {"none", "sent", "running", "replied", "heard", "never ran",
                                 "unheard"}]
BY DEF TypeOK, Drop, Hangup

\* Every step keeps the types.
LEMMA HubTypeStep == TypeOK /\ [Next]_vars => TypeOK'
<1> SUFFICES ASSUME TypeOK, [Next]_vars PROVE TypeOK'
  OBVIOUS
<1> USE HubAssumption DEF TypeOK, registry, known, links, calls
<1>1. ASSUME NEW s \in Sockets, ConnectionStep(s) PROVE TypeOK'
  <2>1. CASE Dial(s)
    BY <2>1 DEF Dial
  <2>2. CASE LinkDrops(s)
    BY <2>2 DEF LinkDrops, Hangup
  <2>3. CASE Hello(s)
    <3>1. /\ session' \in Sockets \cup {None} /\ status' \in {"ABSENT", "ONLINE", "OFFLINE"}
          /\ trust' \in Trust /\ wire' \subseteq Sockets
      BY <2>3 DEF Hello, Hangup, Trust
    <3>2. conn' \in [Sockets -> {"new", "hello", "registering", "reading", "leaving", "gone"}]
      <4>1. \E at \in {"registering", "gone"} : conn' = [conn EXCEPT ![s] = at]
        BY <2>3 DEF Hello
      <4> QED
        BY <4>1
    <3>3. node' \in [Calls -> {"none", "sent", "running", "replied", "heard", "never ran",
                               "unheard"}]
      <4>1. node' = node \/ Hangup({s})
        BY <2>3 DEF Hello
      <4>2. CASE Hangup({s})
        BY <4>2 DEF Hangup
      <4> QED
        BY <4>1, <4>2
    <3>4. UNCHANGED <<granted, presented, closed, dialled, job, future, registry, calls>>
      BY <2>3 DEF Hello
    <3> QED
      BY <3>1, <3>2, <3>3, <3>4
  <2>4. CASE HelloLost(s)
    BY <2>4 DEF HelloLost
  <2>5. CASE Welcome(s)
    BY <2>5 DEF Welcome
  <2>6. CASE Left(s)
    BY <2>6 DEF Left, MarkOffline
  <2>7. CASE Heartbeat(s)
    BY <2>7 DEF Heartbeat, beats
  <2>8. CASE Leave(s)
    <3>1. Drop({s})
      BY <2>8 DEF Leave
    <3> QED
      BY <2>8, <3>1, DropTypes DEF Leave
  <2> QED
    BY <1>1, <2>1, <2>2, <2>3, <2>4, <2>5, <2>6, <2>7, <2>8 DEF ConnectionStep
<1>2. CASE NodeNotices
  BY <1>2 DEF NodeNotices
<1>3. ASSUME NEW j \in Jobs, JobMarks(j) PROVE TypeOK'
  BY <1>3 DEF JobMarks, MarkOffline
<1>4. CASE Sweep \/ Stop \/ Rotate \/ Revoke
  <2>1. Drop({})
    BY <1>4 DEF Sweep, Stop, Rotate, RotateThen, Revoke
  <2>2. job' \in [Jobs -> {"idle", "dropping", "forgetting"}]
    <3>1. \E j \in Jobs : Starts(j)
      BY <1>4 DEF Sweep, Stop, Rotate, Revoke, Jobs
    <3> QED
      BY <3>1, ZenonT(60) DEF Starts
  <2>3. key' \in 0..MaxKey /\ revoked' \in BOOLEAN
    <3>1. CASE Rotate
      <4>1. key \in 0..MaxKey /\ key' = key + 1 /\ key < MaxKey /\ revoked' = revoked
        BY <3>1 DEF Rotate
      <4>2. key' \in 0..MaxKey
        <5> HIDE DEF TypeOK
        <5> QED
          BY <4>1
      <4> QED
        BY <4>1, <4>2
    <3>2. CASE Sweep \/ Stop \/ Revoke
      BY <3>2 DEF Sweep, Stop, Revoke
    <3> QED
      BY <1>4, <3>1, <3>2
  <2>4. UNCHANGED <<known, links, calls>>
    BY <1>4 DEF Sweep, Stop, Rotate, Revoke
  <2>5. /\ session' = None /\ closed' \subseteq Sockets /\ wire' \subseteq wire
        /\ future' \in [Calls -> {"none", "pending", "result", "cut"}]
        /\ node' \in [Calls -> {"none", "sent", "running", "replied", "heard", "never ran",
                                "unheard"}]
    BY <2>1, DropTypes
  <2> QED
    BY <2>2, <2>3, <2>4, <2>5
<1>5. CASE Forget
  BY <1>5 DEF Forget
<1>6. CASE Enrol \/ RestHeartbeat
  BY <1>6 DEF Enrol, RestHeartbeat, beats, Trust
<1>7. ASSUME NEW t \in Trust, SetTrust(t) PROVE TypeOK'
  BY <1>7 DEF SetTrust
<1>8. ASSUME NEW a \in Calls, DispatchStep(a) PROVE TypeOK'
  <2> USE DEF callOnly, nodeOnly
  <2>1. CASE Invoke(a)
    BY <2>1, ZenonT(60) DEF Invoke
  <2>2. CASE Sent(a)
    <3>1. /\ \E end \in {"waiting", "raised"} : call' = [call EXCEPT ![a] = end]
          /\ node' = node \/ node' = [node EXCEPT ![a] = "sent"]
      BY <2>2 DEF Sent
    <3>2. UNCHANGED <<registry, known, links, callOnly, on, future>>
      BY <2>2 DEF Sent
    <3>3. call' \in [Calls -> {"idle", "sending", "waiting", "done", "unavailable", "raised",
                               "timeout"}]
      BY <3>1
    <3>4. node' \in [Calls -> {"none", "sent", "running", "replied", "heard", "never ran",
                               "unheard"}]
      BY <3>1
    <3> QED
      BY <3>2, <3>3, <3>4
  <2>3. CASE Answered(a) \/ Timeout(a)
    BY <2>3, ZenonT(60) DEF Answered, Timeout
  <2>4. CASE NodeRuns(a) \/ NodeReplies(a)
    BY <2>4, ZenonT(60) DEF NodeRuns, NodeReplies
  <2>5. CASE Result(a)
    BY <2>5 DEF Result
  <2> QED
    BY <1>8, <2>1, <2>2, <2>3, <2>4, <2>5 DEF DispatchStep
<1>9. CASE UNCHANGED vars
  BY <1>9 DEF vars
<1> HIDE DEF TypeOK, registry, known, links, calls
<1> QED
  BY <1>1, <1>2, <1>3, <1>4, <1>5, <1>6, <1>7, <1>8, <1>9, StepsNamed

-------------------------------------------------------------------------------
\* A step that leaves the connections and the session alone leaves what is known of them.
LEMMA QuietLinks ==
  ASSUME HubInv, UNCHANGED <<session, conn, closed, wire, dialled>>
  PROVE  OneLink' /\ NotYetIn' /\ HeldIsOpen' /\ AttachedIsHeld' /\ OffTheWire'
BY DEF HubInv, OneLink, NotYetIn, HeldIsOpen, AttachedIsHeld, OffTheWire

\* As long as the records and the session stand, the key that drives is the one on file.
LEMMA QuietKeys ==
  ASSUME HubInv, UNCHANGED <<session, key, revoked, presented>>
  PROVE  OnlyCurrentKeysDrive'
BY DEF HubInv, OnlyCurrentKeysDrive

\* As long as the list and the revocation stand, a revoked device is out.
LEMMA QuietList ==
  ASSUME HubInv, UNCHANGED <<revoked, job>>, session' \in {session, None},
         status = "ABSENT" => status' = "ABSENT"
  PROVE  RevokedIsOut'
BY DEF HubInv, RevokedIsOut

\* As long as nothing is closed and nothing new is awaited, what is awaited is on a session.
LEMMA QuietCallers ==
  ASSUME HubInv, UNCHANGED <<on, closed>>,
         \A s \in Sockets : conn'[s] = conn[s] \/ conn'[s] \notin {"new", "hello"},
         \A a \in Calls : future'[a] = "pending" => future[a] = "pending"
  PROVE  Awaited'
BY DEF HubInv, Awaited

\* As long as no link is lost and nothing new is in flight, what is in flight is on a link.
LEMMA QuietFlight ==
  ASSUME HubInv, UNCHANGED on, wire \subseteq wire',
         \A a \in Calls : node'[a] \in {"sent", "replied"} => node[a] \in {"sent", "replied"}
  PROVE  InFlight'
BY DEF HubInv, InFlight

\* What was in flight on the links that go down goes with them.
LEMMA HangupFlight ==
  ASSUME HubInv, NEW S \in SUBSET Sockets, Hangup(S), UNCHANGED on
  PROVE  InFlight' /\ wire' = wire \ S
<1>1. wire' = wire \ S
  BY DEF Hangup
<1>2. ASSUME NEW a \in Calls, node'[a] \in {"sent", "replied"} PROVE on'[a] \in wire'
  <2>1. on[a] \notin S /\ node[a] \in {"sent", "replied"}
    BY <1>2 DEF Hangup
  <2> QED
    BY <1>1, <2>1 DEF HubInv, InFlight
<1> QED
  BY <1>1, <1>2 DEF InFlight

\* What has not been dispatched stays off the node.
LEMMA UnsentStep ==
  ASSUME TypeOK, Unsent, [Next]_vars
  PROVE  Unsent'
<1>1. ASSUME UNCHANGED call, UNCHANGED node \/ \E S \in SUBSET Sockets : Hangup(S)
      PROVE  Unsent'
  BY <1>1 DEF Unsent, Hangup
<1>2. ASSUME NEW S \in SUBSET Sockets, Drop(S), UNCHANGED call PROVE Unsent'
  BY <1>1, <1>2 DEF Drop, TypeOK
<1>3. ASSUME NEW s \in Sockets, ConnectionStep(s) PROVE Unsent'
  <2>1. CASE Leave(s)
    BY <1>2, <2>1 DEF Leave, calls
  <2>2. CASE ~Leave(s)
    BY <1>1, <1>3, <2>2
    DEF ConnectionStep, Dial, LinkDrops, Hello, HelloLost, Welcome, Left, Heartbeat, calls
  <2> QED BY <2>1, <2>2
<1>4. CASE Sweep \/ Stop \/ Rotate \/ Revoke
  BY <1>2, <1>4 DEF Sweep, Stop, Rotate, RotateThen, Revoke, calls
<1>5. ASSUME \/ NodeNotices \/ (\E j \in Jobs : JobMarks(j)) \/ Forget \/ Enrol \/ RestHeartbeat
             \/ (\E t \in Trust : SetTrust(t)) \/ UNCHANGED vars
      PROVE  UNCHANGED <<call, node>>
  BY <1>5 DEF NodeNotices, JobMarks, Forget, Enrol, RestHeartbeat, SetTrust, calls, vars
<1>6. ASSUME NEW a \in Calls, DispatchStep(a) PROVE Unsent'
  <2>1. /\ call \in [Calls -> {"idle", "sending", "waiting", "done", "unavailable", "raised",
                              "timeout"}]
        /\ node \in [Calls -> {"none", "sent", "running", "replied", "heard", "never ran", "unheard"}]
    BY DEF TypeOK
  <2> QED
    BY <1>6, <2>1
    DEF DispatchStep, Invoke, Sent, Answered, Timeout, NodeRuns, NodeReplies, Result, calls, Unsent
<1> QED
  BY <1>1, <1>3, <1>4, <1>5, <1>6, StepsNamed

\* Whoever ends the session: its transport is cut, its callers are told, and what is left
\* of the connections is as it was.
LEMMA DropKeeps ==
  ASSUME HubInv, NEW down \in SUBSET Sockets, Drop(down), UNCHANGED <<dialled, on>>,
         \A s \in Sockets : conn'[s] = conn[s] \/ conn'[s] = "leaving"
  PROVE  /\ OneLink' /\ NotYetIn' /\ HeldIsOpen' /\ AttachedIsHeld' /\ InFlight'
         /\ OnlyCurrentKeysDrive' /\ Awaited'
<1> USE HubAssumption DEF HubInv, TypeOK
<1>1. session' = None /\ closed' = closed \cup ({session} \ {None})
  BY DEF Drop
<1>2. wire' = wire \ (({session} \ {None}) \cup down)
  BY DEF Drop, Hangup
<1>3. \A a \in Calls : future'[a] = "pending" =>
        future[a] = "pending" /\ (session = None \/ on[a] # session)
  <2> SUFFICES ASSUME NEW a \in Calls, future'[a] = "pending"
               PROVE  future[a] = "pending" /\ (session = None \/ on[a] # session)
    OBVIOUS
  <2>1. future'[a] = IF session # None /\ a \in cut(session) THEN "cut" ELSE future[a]
    BY DEF Drop
  <2> QED
    BY <2>1 DEF cut
<1>4. OneLink' /\ HeldIsOpen' /\ OnlyCurrentKeysDrive'
  BY <1>1, <1>2 DEF OneLink, HeldIsOpen, OnlyCurrentKeysDrive
<1>5. NotYetIn'
  BY <1>1 DEF NotYetIn
<1>6. AttachedIsHeld'
  BY <1>1, <1>2 DEF AttachedIsHeld
<1>7. Awaited'
  <2> SUFFICES ASSUME NEW a \in Calls, future'[a] = "pending"
               PROVE  on'[a] \in Sockets \ closed' /\ conn'[on'[a]] \notin {"new", "hello"}
    BY DEF Awaited
  <2>1. future[a] = "pending" /\ (session = None \/ on[a] # session)
    BY <1>3
  <2>2. on[a] \in Sockets \ closed /\ conn[on[a]] \notin {"new", "hello"}
    BY <2>1 DEF Awaited
  <2>3. conn'[on[a]] \notin {"new", "hello"}
    BY <2>2
  <2> QED
    BY <1>1, <2>1, <2>2, <2>3
<1>8. InFlight'
  <2>1. ({session} \ {None}) \cup down \in SUBSET Sockets
    OBVIOUS
  <2>2. Hangup(({session} \ {None}) \cup down) /\ UNCHANGED on
    BY DEF Drop
  <2> HIDE DEF HubInv
  <2> QED
    BY <2>1, <2>2, HangupFlight
<1> QED
  BY <1>4, <1>5, <1>6, <1>7, <1>8

\* Every step keeps the invariant.
LEMMA HubStep == HubInv /\ [Next]_vars => HubInv'
<1> SUFFICES ASSUME HubInv, [Next]_vars PROVE HubInv'
  OBVIOUS
<1> USE HubAssumption
<1>t. TypeOK /\ TypeOK'
  BY HubTypeStep DEF HubInv
<1> DEFINE Parts == /\ OneLink /\ NotYetIn /\ HeldIsOpen /\ AttachedIsHeld
                    /\ OnlyCurrentKeysDrive /\ RevokedIsOut /\ OffTheWire /\ InFlight /\ Awaited
<1>p. Parts
  BY DEF HubInv
<1>c. /\ conn \in [Sockets -> {"new", "hello", "registering", "reading", "leaving", "gone"}]
      /\ wire \subseteq Sockets /\ closed \subseteq Sockets /\ session \in Sockets \cup {None}
      /\ dialled \in Sockets \cup {None} /\ presented \in [Sockets -> 0..MaxKey]
  BY <1>t DEF TypeOK
<1>f. ASSUME UNCHANGED <<on, wire, node>> PROVE InFlight'
  BY <1>f, QuietFlight
<1>d. /\ job \in [Jobs -> {"idle", "dropping", "forgetting"}]
      /\ future \in [Calls -> {"none", "pending", "result", "cut"}]
      /\ on \in [Calls -> Sockets \cup {None}]
  BY <1>t DEF TypeOK
<1>e. /\ node \in [Calls -> {"none", "sent", "running", "replied", "heard", "never ran", "unheard"}]
      /\ call \in [Calls -> {"idle", "sending", "waiting", "done", "unavailable", "raised",
                            "timeout"}]
  BY <1>t DEF TypeOK
<1>u. Unsent /\ Unsent'
  BY UnsentStep DEF HubInv
<1> SUFFICES Parts'
  BY <1>t, <1>u DEF HubInv
<1>q. ASSUME UNCHANGED <<session, conn, closed, wire, dialled, key, revoked, presented, job, on>>,
             status = "ABSENT" => status' = "ABSENT",
             \A a \in Calls : future'[a] = "pending" => future[a] = "pending", InFlight'
      PROVE  Parts'
  BY <1>q, QuietLinks, QuietKeys, QuietList, QuietCallers
<1>1. ASSUME NEW s \in Sockets, ConnectionStep(s) PROVE Parts'
  <2>1. CASE Dial(s)
    <3>1. wire = {}
      BY <1>c, <1>d, <1>p, <2>1 DEF Dial, OneLink
    <3>2. session # s /\ s \notin closed
      BY <1>p, <2>1 DEF Dial, NotYetIn
    <3>3. OneLink' /\ HeldIsOpen' /\ AttachedIsHeld'
      BY <1>c, <1>d, <1>p, <2>1, <3>1 DEF Dial, OneLink, HeldIsOpen, AttachedIsHeld
    <3>4. NotYetIn'
      BY <1>c, <1>d, <1>p, <2>1, <3>2 DEF Dial, NotYetIn
    <3>5. OnlyCurrentKeysDrive'
      BY <1>c, <1>d, <1>p, <2>1, <3>2 DEF Dial, OnlyCurrentKeysDrive, registry
    <3>6. RevokedIsOut'
      BY <2>1, QuietList DEF Dial, registry, known
    <3>7. OffTheWire'
      BY <1>c, <1>p, <2>1 DEF Dial, OffTheWire
    <3>8. InFlight'
      BY <2>1, QuietFlight DEF Dial, calls
    <3>9. Awaited'
      <4>1. /\ conn' = [conn EXCEPT ![s] = "hello"] /\ conn[s] = "new"
            /\ UNCHANGED <<on, closed, future>>
        BY <2>1 DEF Dial, calls
      <4> QED
        BY <1>c, <1>d, <1>p, <4>1 DEF Awaited
    <3> QED
      BY <3>3, <3>4, <3>5, <3>6, <3>7, <3>8, <3>9
  <2>2. CASE LinkDrops(s)
    <3>1. OneLink' /\ NotYetIn' /\ HeldIsOpen' /\ AttachedIsHeld' /\ OffTheWire'
      BY <1>p, <2>2
         DEF LinkDrops, Hangup, links, OneLink, NotYetIn, HeldIsOpen, AttachedIsHeld, OffTheWire
    <3>2. OnlyCurrentKeysDrive' /\ RevokedIsOut' /\ Awaited'
      BY <2>2, QuietKeys, QuietList, QuietCallers DEF LinkDrops, registry, known, links, calls
    <3>3. InFlight'
      BY <2>2, HangupFlight DEF LinkDrops, calls
    <3> QED
      BY <3>1, <3>2, <3>3
  <2>3. CASE Hello(s) /\ verified(s)
    <3>1. wire = {s} /\ s \notin closed
      BY <1>c, <1>d, <1>p, <2>3 DEF Hello, OneLink, NotYetIn
    <3>2. /\ session' = s /\ conn' = [conn EXCEPT ![s] = "registering"]
          /\ UNCHANGED <<wire, closed, dialled, presented, key, revoked, job, on, future, node>>
      BY <2>3 DEF Hello, registry, calls
    <3>3. OneLink' /\ HeldIsOpen'
      BY <1>p, <3>1, <3>2 DEF OneLink, HeldIsOpen
    <3>4. NotYetIn' /\ AttachedIsHeld'
      BY <1>c, <1>d, <1>p, <3>1, <3>2 DEF NotYetIn, AttachedIsHeld
    <3>5. OnlyCurrentKeysDrive' /\ RevokedIsOut'
      BY <2>3, <3>2 DEF verified, OnlyCurrentKeysDrive, RevokedIsOut
    <3>6. Awaited'
      BY <1>c, <3>2, QuietCallers
    <3>7. OffTheWire' /\ InFlight'
      BY <1>c, <1>f, <1>p, <3>2 DEF OffTheWire
    <3> QED
      BY <3>3, <3>4, <3>5, <3>6, <3>7
  <2>4. CASE Hello(s) /\ ~verified(s)
    <3>1. /\ conn' = [conn EXCEPT ![s] = "gone"] /\ wire' = wire \ {s}
          /\ UNCHANGED <<session, status, closed, dialled, presented, key, revoked, job, on,
                        future>>
      BY <2>4 DEF Hello, Hangup, registry, calls
    <3>2. OneLink' /\ NotYetIn' /\ HeldIsOpen' /\ AttachedIsHeld' /\ OffTheWire'
      BY <1>c, <1>p, <3>1 DEF OneLink, NotYetIn, HeldIsOpen, AttachedIsHeld, OffTheWire
    <3>3. InFlight'
      BY <2>4, <3>1, HangupFlight DEF Hello
    <3>4. Awaited'
      BY <1>c, <3>1, QuietCallers
    <3> QED
      BY <3>1, <3>2, <3>3, <3>4, QuietKeys, QuietList
  <2>5. CASE HelloLost(s)
    <3>1. OneLink' /\ NotYetIn' /\ HeldIsOpen' /\ AttachedIsHeld' /\ OffTheWire'
      BY <1>c, <1>d, <1>p, <2>5
         DEF HelloLost, OneLink, NotYetIn, HeldIsOpen, AttachedIsHeld, OffTheWire
    <3>2. OnlyCurrentKeysDrive' /\ RevokedIsOut' /\ InFlight'
      BY <1>f, <2>5, QuietKeys, QuietList DEF HelloLost, registry, known, calls
    <3>3. Awaited'
      BY <1>c, <2>5, QuietCallers DEF HelloLost, known, calls
    <3> QED
      BY <3>1, <3>2, <3>3
  <2>6. CASE Welcome(s)
    <3>1. OneLink' /\ NotYetIn' /\ HeldIsOpen' /\ AttachedIsHeld' /\ OffTheWire'
      BY <1>c, <1>d, <1>p, <2>6
         DEF Welcome, OneLink, NotYetIn, HeldIsOpen, AttachedIsHeld, OffTheWire
    <3>2. OnlyCurrentKeysDrive' /\ RevokedIsOut' /\ InFlight'
      BY <1>f, <2>6, QuietKeys, QuietList DEF Welcome, registry, known, calls
    <3>3. Awaited'
      BY <1>c, <2>6, QuietCallers DEF Welcome, known, calls
    <3> QED
      BY <3>1, <3>2, <3>3
  <2>7. CASE Left(s)
    <3>1. OneLink' /\ NotYetIn' /\ HeldIsOpen' /\ AttachedIsHeld' /\ OffTheWire'
      BY <1>c, <1>d, <1>p, <2>7
         DEF Left, OneLink, NotYetIn, HeldIsOpen, AttachedIsHeld, OffTheWire
    <3>2. status = "ABSENT" => status' = "ABSENT"
      BY <2>7 DEF Left, MarkOffline
    <3>3. OnlyCurrentKeysDrive' /\ RevokedIsOut' /\ InFlight'
      BY <1>f, <2>7, <3>2, QuietKeys, QuietList DEF Left, registry, calls
    <3>4. Awaited'
      BY <1>c, <2>7, QuietCallers DEF Left, calls
    <3> QED
      BY <3>1, <3>3, <3>4
  <2>8. CASE Leave(s)
    <3>1. Drop({s}) /\ conn' = [conn EXCEPT ![s] = "leaving"]
      BY <2>8 DEF Leave
    <3>2. UNCHANGED <<dialled, on, revoked, job, status>> /\ session' = None
      BY <2>8, <3>1 DEF Leave, Drop, calls, registry, known
    <3>3. \A x \in Sockets : conn'[x] = conn[x] \/ conn'[x] = "leaving"
      BY <1>c, <1>d, <3>1
    <3>4. OffTheWire'
      BY <1>c, <1>p, <3>1 DEF Drop, Hangup, OffTheWire
    <3> QED
      BY <3>1, <3>2, <3>3, <3>4, DropKeeps, QuietList
  <2>9. CASE Heartbeat(s)
    BY <1>f, <1>q, <2>9 DEF Heartbeat, beats, registry, links, calls
  <2> QED
    BY <1>1, <2>1, <2>2, <2>3, <2>4, <2>5, <2>6, <2>7, <2>8, <2>9 DEF ConnectionStep
<1>2. CASE NodeNotices
  <2>1. wire = {}
    BY <1>p, <1>2 DEF NodeNotices, OneLink
  <2>2. OneLink' /\ NotYetIn' /\ HeldIsOpen' /\ AttachedIsHeld' /\ OffTheWire'
    BY <1>p, <1>2, <2>1
       DEF NodeNotices, OneLink, NotYetIn, HeldIsOpen, AttachedIsHeld, OffTheWire
  <2> QED
    BY <1>2, <1>f, <2>2, QuietKeys, QuietList, QuietCallers DEF NodeNotices, registry, known, calls
<1>3. ASSUME NEW j \in Jobs, JobMarks(j) PROVE Parts'
  <2>1. UNCHANGED <<session, conn, closed, wire, dialled, key, revoked, presented, on, future,
                  node>>
    BY <1>3 DEF JobMarks, registry, links, calls
  <2>2. RevokedIsOut'
    <3>1. status = "ABSENT" => status' = "ABSENT"
      BY <1>3 DEF JobMarks, MarkOffline
    <3>2. job["revoke"] # "idle" => job'["revoke"] # "idle"
      BY <1>c, <1>d, <1>3 DEF JobMarks, Jobs
    <3> QED
      BY <1>p, <2>1, <3>1, <3>2 DEF RevokedIsOut
  <2> QED
    BY <1>f, <2>1, <2>2, QuietLinks, QuietKeys, QuietCallers
<1>4. CASE Sweep \/ Stop \/ Rotate \/ Revoke
  <2>1. Drop({}) /\ UNCHANGED <<dialled, on, conn, status>> /\ session' = None
    BY <1>4 DEF Sweep, Stop, Rotate, RotateThen, Revoke, Drop, known, links, calls
  <2>2. RevokedIsOut'
    <3>1. job["revoke"] # "idle" => job'["revoke"] # "idle"
      <4>1. \E j \in Jobs : Starts(j)
        BY <1>4 DEF Sweep, Stop, Rotate, Revoke, Jobs
      <4> QED
        BY <1>d, <4>1 DEF Starts
    <3>2. CASE Revoke
      BY <1>c, <1>d, <2>1, <3>2 DEF Revoke, Starts, Jobs, RevokedIsOut
    <3>3. CASE Sweep \/ Stop \/ Rotate
      BY <1>p, <2>1, <3>1, <3>3 DEF Sweep, Stop, Rotate, registry, RevokedIsOut
    <3> QED
      BY <1>4, <3>2, <3>3
  <2>3. OffTheWire'
    BY <1>p, <2>1 DEF Drop, Hangup, OffTheWire
  <2> QED
    BY <2>1, <2>2, <2>3, DropKeeps
<1>5. CASE Forget
  <2>1. UNCHANGED <<session, conn, closed, wire, dialled, key, revoked, presented, on, future,
                  node>>
    BY <1>5 DEF Forget, registry, links, calls
  <2>2. RevokedIsOut'
    BY <1>p, <1>5, <2>1 DEF Forget, RevokedIsOut
  <2> QED
    BY <1>f, <2>1, <2>2, QuietLinks, QuietKeys, QuietCallers
<1>6. CASE Enrol
  <2>1. UNCHANGED <<session, conn, closed, wire, dialled, key, revoked, presented, on, future,
                  node>>
    BY <1>6 DEF Enrol, registry, links, calls
  <2>2. RevokedIsOut'
    BY <1>6, <2>1 DEF Enrol, RevokedIsOut
  <2> QED
    BY <1>f, <2>1, <2>2, QuietLinks, QuietKeys, QuietCallers
<1>7. CASE RestHeartbeat
  BY <1>7, <1>f, <1>q DEF RestHeartbeat, beats, registry, links, calls
<1>8. ASSUME NEW t \in Trust, SetTrust(t) PROVE Parts'
  BY <1>8, <1>f, <1>q DEF SetTrust, registry, links, calls
<1>9. ASSUME NEW a \in Calls, DispatchStep(a) PROVE Parts'
  <2>1. CASE Invoke(a)
    <3>1. UNCHANGED <<session, conn, closed, wire, dialled, key, revoked, presented, job, status>>
      BY <2>1 DEF Invoke, callOnly, registry, known, links
    <3>2. Awaited'
      BY <1>c, <1>d, <1>p, <2>1, <3>1 DEF Invoke, Awaited, HeldIsOpen, NotYetIn
    <3>3. InFlight'
      <4>1. node[a] = "none"
        BY <1>u, <2>1 DEF Invoke, Unsent
      <4>2. \A b \in Calls : b # a => on'[b] = on[b]
        BY <1>d, <2>1 DEF Invoke
      <4> QED
        BY <1>p, <2>1, <3>1, <4>1, <4>2 DEF Invoke, InFlight
    <3> QED
      BY <3>1, <3>2, <3>3, QuietLinks, QuietKeys, QuietList
  <2>2. CASE Sent(a) \/ NodeRuns(a) \/ NodeReplies(a)
    <3>1. /\ \A b \in Calls : node'[b] \in {"sent", "replied"} => node[b] = node'[b] \/ on[b] \in wire
          /\ UNCHANGED <<on, wire>>
      BY <1>e, <2>2 DEF Sent, NodeRuns, NodeReplies, callOnly, nodeOnly, calls
    <3>2. InFlight'
      BY <1>p, <3>1 DEF InFlight
    <3> QED
      BY <1>q, <2>2, <3>2
      DEF Sent, NodeRuns, NodeReplies, callOnly, nodeOnly, registry, known, links, calls
  <2>3. CASE Answered(a) \/ Timeout(a) \/ Result(a)
    <3>1. \A b \in Calls : future'[b] = "pending" => future[b] = "pending"
      BY <1>c, <1>d, <2>3 DEF Answered, Timeout, Result
    <3>2. InFlight'
      <4>1. /\ \A b \in Calls : node'[b] \in {"sent", "replied"} => node[b] \in {"sent", "replied"}
            /\ UNCHANGED <<on, wire>>
        BY <1>e, <2>3 DEF Answered, Timeout, Result, callOnly, calls
      <4> QED
        BY <4>1, QuietFlight
    <3> QED
      BY <2>3, <3>1, <3>2, <1>q DEF Answered, Timeout, Result, callOnly, registry, known, links, calls
  <2> QED
    BY <1>9, <2>1, <2>2, <2>3 DEF DispatchStep
<1>10. CASE UNCHANGED vars
  BY <1>10, <1>f, <1>q DEF vars
<1> HIDE DEF Parts
<1> QED
  BY <1>1, <1>2, <1>3, <1>4, <1>5, <1>6, <1>7, <1>8, <1>9, <1>10, StepsNamed

-------------------------------------------------------------------------------
\* The invariant holds throughout.
THEOREM HubIsSound == Spec => []HubInv
BY HubInit, HubStep, PTL DEF Spec

\* Every state is well typed.
THEOREM HubTypes == Spec => []TypeOK
BY HubIsSound, PTL DEF HubInv

\* The session that is dispatched to was opened with the key on file now, by a device in
\* good standing: a rotation and a revocation change who drives, not only the record.
THEOREM CurrentKeysDrive == Spec => []OnlyCurrentKeysDrive
BY HubIsSound, PTL DEF HubInv

\* A connection that is past its HELLO and carries frames is the one the hub holds, so
\* whatever ends the hub's session reaches it, however the node reconnected.
THEOREM AttachedIsAlwaysHeld == Spec => []AttachedIsHeld
BY HubIsSound, PTL DEF HubInv

\* A caller that waits is on the session the hub holds, whose end ends the wait, or nothing
\* of its call can arrive any more: no answer on its way belongs to a caller out of reach.
THEOREM CallersAreReached == Spec => []WaitersAreHeldOrCutOff
<1>1. HubInv => WaitersAreHeldOrCutOff
  <2> SUFFICES ASSUME HubInv, NEW a \in Calls, future[a] = "pending", on[a] # session
               PROVE  on[a] \notin closed \cup wire /\ node[a] \notin {"sent", "replied"}
    BY DEF WaitersAreHeldOrCutOff
  <2>1. on[a] \in Sockets \ closed /\ conn[on[a]] \in {"registering", "reading", "leaving", "gone"}
    BY DEF HubInv, TypeOK, Awaited
  <2>2. on[a] \notin wire
    BY <2>1 DEF HubInv, AttachedIsHeld, OffTheWire
  <2> QED
    BY <2>1, <2>2 DEF HubInv, InFlight
<1> QED
  BY <1>1, HubIsSound, PTL

\* A revocation that is through stays through.
THEOREM RevocationHolds == Spec => []RevokedStaysOut
<1>1. HubInv => RevokedStaysOut
  BY DEF HubInv, RevokedIsOut, RevokedStaysOut
<1> QED
  BY <1>1, HubIsSound, PTL
=============================================================================
