------------------------------ MODULE DeviceHub ------------------------------
(***************************************************************************)
(* One paired machine and the core: the node dialling out (apps/node), the *)
(* WebSocket handler that reads it (routers/devices.py), the DeviceHub     *)
(* that holds its session, the calls dispatched to it, and everything that *)
(* ends a session from the side: a rotation, a revocation, the worker's    *)
(* sweep, the emergency stop.                                              *)
(*                                                                         *)
(* The hub's registry is a dict keyed by device, and nothing in it relates *)
(* two devices, so one device is modelled and `session` and `status` are   *)
(* its entries.  A member of Sockets is one connection the node makes, in  *)
(* any order; unregister() suspends between dropping the session and       *)
(* marking the device, and that is where the others interleave.  A frame   *)
(* in flight on a link that drops is lost with it.                         *)
(***************************************************************************)
EXTENDS Integers, FiniteSets

CONSTANTS
  Sockets,   \* the connections the node may make
  Calls,     \* the dispatches to it
  MaxKey,    \* how often its key is rotated
  Choices,   \* the trust levels the owner chooses from, beside the LIMITED it starts with
  None

ASSUME HubAssumption == MaxKey \in Nat /\ None \notin Sockets /\ Choices \subseteq STRING

Jobs == {"sweep", "rotate", "revoke", "stop"}
Trust == {"LIMITED"} \cup Choices

VARIABLES
  key, revoked,     \* the pairing registry: generation of the key on file
  session,          \* DeviceHub._sessions[d]
  status, trust,    \* DeviceHub._known[d]; ABSENT when it is not there
  granted,          \* history: the trust the owner last chose
  conn,             \* [Sockets -> where its handler is]
  presented,        \* [Sockets -> the key its HELLO was signed with]
  closed,           \* the sessions that were closed
  wire,             \* the connections whose transport carries frames
  dialled,          \* the connection the node believes it is on
  job,              \* [Jobs -> where its unregister is]
  call,             \* [Calls -> where invoke() is, or how it ended]
  future,           \* [Calls -> the future in _pending]
  on,               \* [Calls -> the connection it was sent on]
  node              \* [Calls -> what has become of it on the node]

registry == <<key, revoked>>
known == <<status, trust, granted>>
links == <<conn, presented, dialled>>
calls == <<call, on>>
vars == <<key, revoked, session, status, trust, granted, conn, presented, closed, wire, dialled,
          job, call, future, on, node>>

Init ==
  /\ key = 0 /\ revoked = FALSE
  /\ session = None /\ status = "OFFLINE"
  /\ trust = "LIMITED" /\ granted = "LIMITED"
  /\ conn = [s \in Sockets |-> "new"] /\ presented = [s \in Sockets |-> 0]
  /\ closed = {} /\ wire = {} /\ dialled = None
  /\ job = [j \in Jobs |-> "idle"]
  /\ call = [a \in Calls |-> "idle"] /\ future = [a \in Calls |-> "none"]
  /\ on = [a \in Calls |-> None] /\ node = [a \in Calls |-> "none"]

-------------------------------------------------------------------------------
(* The transport and the node.                                               *)

\* The transports of S go down, and what was in flight on them goes with them.
Hangup(S) ==
  /\ wire' = wire \ S
  /\ node' = [a \in Calls |->
                IF on[a] \notin S THEN node[a]
                ELSE IF node[a] = "sent" THEN "never ran"
                ELSE IF node[a] = "replied" THEN "unheard"
                ELSE node[a]]

\* The node keeps one connection, and dials again when it has lost it.
Dial(s) ==
  /\ dialled = None /\ conn[s] = "new"
  /\ dialled' = s /\ wire' = wire \cup {s}
  /\ conn' = [conn EXCEPT ![s] = "hello"]
  /\ presented' = [presented EXCEPT ![s] = key]
  /\ UNCHANGED <<session, closed, job, future, node>>
  /\ UNCHANGED registry /\ UNCHANGED known /\ UNCHANGED calls

\* A link that drops tells neither end at once.
LinkDrops(s) ==
  /\ s \in wire
  /\ Hangup({s})
  /\ UNCHANGED <<session, closed, job, future>>
  /\ UNCHANGED registry /\ UNCHANGED known /\ UNCHANGED links /\ UNCHANGED calls

NodeNotices ==
  /\ dialled # None /\ dialled \notin wire
  /\ dialled' = None
  /\ UNCHANGED <<session, conn, presented, closed, wire, job, future, node>>
  /\ UNCHANGED registry /\ UNCHANGED known /\ UNCHANGED calls

nodeOnly == <<session, closed, wire, job, future>>

\* _handle runs an action in a task of its own, which outlives the connection; its
\* result goes to the connection the action came on, and to no other.
NodeRuns(a) ==
  /\ node[a] = "sent"
  /\ node' = [node EXCEPT ![a] = "running"]
  /\ UNCHANGED nodeOnly
  /\ UNCHANGED registry /\ UNCHANGED known /\ UNCHANGED links /\ UNCHANGED calls

NodeReplies(a) ==
  /\ node[a] = "running"
  /\ node' = [node EXCEPT ![a] = IF on[a] \in wire THEN "replied" ELSE "unheard"]
  /\ UNCHANGED nodeOnly
  /\ UNCHANGED registry /\ UNCHANGED known /\ UNCHANGED links /\ UNCHANGED calls

-------------------------------------------------------------------------------
(* The hub: unregister, in the two pieces its awaits cut it into.            *)

cut_LeavesCallers(s) == {}

\* The callers that closing session s fails.
cut(s) == { a \in Calls : on[a] = s /\ future[a] = "pending" }

Drop_LeavesTransport(alsoDown) ==
  LET dropped == {session} \ {None} IN
  /\ session' = None
  /\ closed' = closed \cup dropped
  /\ future' = [a \in Calls |-> IF session # None /\ a \in cut(session) THEN "cut" ELSE future[a]]
  /\ Hangup(alsoDown)

\* The session the hub holds now, whoever's it is, is popped and closed.
Drop(alsoDown) ==
  LET dropped == {session} \ {None} IN
  /\ session' = None
  /\ closed' = closed \cup dropped
  /\ future' = [a \in Calls |-> IF session # None /\ a \in cut(session) THEN "cut" ELSE future[a]]
  /\ Hangup(dropped \cup alsoDown)

MarkOffline == status' = (IF status = "ABSENT" THEN "ABSENT" ELSE "OFFLINE")

Starts(j) == job[j] = "idle" /\ job' = [job EXCEPT ![j] = "dropping"]

\* A session that is not heard from for ninety seconds is ended: BackgroundWorker.check_devices.
Sweep ==
  /\ status = "ONLINE" /\ ~ \E s \in wire : conn[s] = "reading"
  /\ Starts("sweep") /\ Drop({})
  /\ UNCHANGED registry /\ UNCHANGED known /\ UNCHANGED links /\ UNCHANGED calls

\* disconnect_all, on the emergency stop.
Stop ==
  /\ session # None
  /\ Starts("stop") /\ Drop({})
  /\ UNCHANGED registry /\ UNCHANGED known /\ UNCHANGED links /\ UNCHANGED calls

RotateThen_Keeps == UNCHANGED <<session, closed, wire, future, node>>

RotateThen == Drop({})

\* The key on file and the session are replaced with no await between them.
Rotate ==
  /\ ~revoked /\ key < MaxKey
  /\ key' = key + 1
  /\ Starts("rotate") /\ RotateThen
  /\ UNCHANGED revoked /\ UNCHANGED known /\ UNCHANGED links /\ UNCHANGED calls

Revoke ==
  /\ ~revoked /\ revoked' = TRUE
  /\ Starts("revoke") /\ Drop({})
  /\ UNCHANGED key /\ UNCHANGED known /\ UNCHANGED links /\ UNCHANGED calls

JobMarks(j) ==
  /\ job[j] = "dropping"
  /\ MarkOffline
  /\ job' = [job EXCEPT ![j] = IF j = "revoke" THEN "forgetting" ELSE "idle"]
  /\ UNCHANGED <<session, trust, granted, closed, wire, future, node>>
  /\ UNCHANGED registry /\ UNCHANGED links /\ UNCHANGED calls

\* forget() pops the summary once unregister is through.
Forget ==
  /\ job["revoke"] = "forgetting"
  /\ status' = "ABSENT"
  /\ job' = [job EXCEPT !["revoke"] = "idle"]
  /\ UNCHANGED <<session, trust, granted, closed, wire, future, node>>
  /\ UNCHANGED registry /\ UNCHANGED links /\ UNCHANGED calls

-------------------------------------------------------------------------------
(* The socket handler.                                                       *)

\* DeviceAuthenticator.verify for a device that has paired.
verified(s) == ~revoked /\ presented[s] = key

\* Verification and register() up to its first await.  What the hub held before is
\* replaced, and not closed.
Hello(s) ==
  /\ conn[s] = "hello" /\ s \in wire
  /\ IF verified(s)
     THEN /\ session' = s /\ status' = "ONLINE"
          /\ trust' = IF status = "ABSENT" THEN "LIMITED" ELSE trust
          /\ conn' = [conn EXCEPT ![s] = "registering"]
          /\ UNCHANGED <<wire, node>>
     ELSE /\ conn' = [conn EXCEPT ![s] = "gone"] /\ Hangup({s})
          /\ UNCHANGED <<session, status, trust>>
  /\ UNCHANGED <<granted, presented, closed, dialled, job, future>>
  /\ UNCHANGED registry /\ UNCHANGED calls

HelloLost(s) ==
  /\ conn[s] = "hello" /\ s \notin wire
  /\ conn' = [conn EXCEPT ![s] = "gone"]
  /\ UNCHANGED <<session, presented, closed, wire, dialled, job, future, node>>
  /\ UNCHANGED registry /\ UNCHANGED known /\ UNCHANGED calls

\* WELCOME goes out; on a closed session sending it raises instead.
Welcome(s) ==
  /\ conn[s] = "registering" /\ s \notin closed
  /\ conn' = [conn EXCEPT ![s] = "reading"]
  /\ UNCHANGED <<session, presented, closed, wire, dialled, job, future, node>>
  /\ UNCHANGED registry /\ UNCHANGED known /\ UNCHANGED calls

\* The handler's finally: the link was lost, the session was closed, a frame raised, or
\* its maximum age came.  It unregisters the device, not its own session.
Leave(s) ==
  /\ conn[s] \in {"registering", "reading"}
  /\ conn[s] = "registering" => s \in closed \/ s \notin wire
  /\ conn' = [conn EXCEPT ![s] = "leaving"]
  /\ Drop({s})
  /\ UNCHANGED <<presented, dialled, job>>
  /\ UNCHANGED registry /\ UNCHANGED known /\ UNCHANGED calls

Left(s) ==
  /\ conn[s] = "leaving"
  /\ MarkOffline
  /\ conn' = [conn EXCEPT ![s] = "gone"]
  /\ UNCHANGED <<session, trust, granted, presented, closed, wire, dialled, job, future, node>>
  /\ UNCHANGED registry /\ UNCHANGED calls

beats_Telemetry == UNCHANGED status

\* DeviceHub.heartbeat, for a device it knows.
beats == status' = (IF status = "ABSENT" THEN "ABSENT" ELSE "ONLINE")

Heartbeat(s) ==
  /\ conn[s] = "reading" /\ s \in wire
  /\ beats
  /\ UNCHANGED <<session, trust, granted, closed, wire, job, future, node>>
  /\ UNCHANGED registry /\ UNCHANGED links /\ UNCHANGED calls

\* deliver(): a result nobody waits for any more is dropped.
Result(a) ==
  /\ node[a] = "replied" /\ conn[on[a]] = "reading"
  /\ node' = [node EXCEPT ![a] = "heard"]
  /\ future' = [future EXCEPT ![a] = IF @ = "pending" THEN "result" ELSE @]
  /\ UNCHANGED <<session, closed, wire, job>>
  /\ UNCHANGED registry /\ UNCHANGED known /\ UNCHANGED links /\ UNCHANGED calls

-------------------------------------------------------------------------------
(* The REST doors beside the socket, and the owner.                          *)

\* POST /devices/register, signed like a HELLO: enrol() writes a new summary.
Enrol ==
  /\ ~revoked
  /\ status' = IF session # None THEN "ONLINE" ELSE "OFFLINE"
  /\ trust' = "LIMITED"
  /\ UNCHANGED <<session, granted, closed, wire, job, future, node>>
  /\ UNCHANGED registry /\ UNCHANGED links /\ UNCHANGED calls

\* POST /devices/heartbeat, signed like a HELLO.
RestHeartbeat ==
  /\ ~revoked /\ status # "ABSENT"
  /\ beats
  /\ UNCHANGED <<session, trust, granted, closed, wire, job, future, node>>
  /\ UNCHANGED registry /\ UNCHANGED links /\ UNCHANGED calls

SetTrust(t) ==
  /\ status # "ABSENT"
  /\ trust' = t /\ granted' = t
  /\ UNCHANGED <<session, status, closed, wire, job, future, node>>
  /\ UNCHANGED registry /\ UNCHANGED links /\ UNCHANGED calls

-------------------------------------------------------------------------------
(* DeviceHub.invoke and WebSocketDeviceSession.invoke.                       *)

callOnly == <<session, closed, wire, job>>

Invoke(a) ==
  /\ call[a] = "idle"
  /\ IF session = None
     THEN call' = [call EXCEPT ![a] = "unavailable"] /\ UNCHANGED <<on, future>>
     ELSE /\ call' = [call EXCEPT ![a] = "sending"]
          /\ on' = [on EXCEPT ![a] = session]
          /\ future' = [future EXCEPT ![a] = "pending"]
  /\ UNCHANGED node /\ UNCHANGED callOnly
  /\ UNCHANGED registry /\ UNCHANGED known /\ UNCHANGED links

\* On a link that is down the frame is lost, or sending it raises.
Sent(a) ==
  /\ call[a] = "sending"
  /\ IF on[a] \in wire
     THEN call' = [call EXCEPT ![a] = "waiting"] /\ node' = [node EXCEPT ![a] = "sent"]
     ELSE \E end \in {"waiting", "raised"} : call' = [call EXCEPT ![a] = end] /\ UNCHANGED node
  /\ UNCHANGED <<on, future>> /\ UNCHANGED callOnly
  /\ UNCHANGED registry /\ UNCHANGED known /\ UNCHANGED links

Answered(a) ==
  /\ call[a] = "waiting" /\ future[a] \in {"result", "cut"}
  /\ call' = [call EXCEPT ![a] = IF future[a] = "result" THEN "done" ELSE "unavailable"]
  /\ future' = [future EXCEPT ![a] = "none"]
  /\ UNCHANGED <<on, node>> /\ UNCHANGED callOnly
  /\ UNCHANGED registry /\ UNCHANGED known /\ UNCHANGED links

timesOut_OpenSessions(a) == future[a] = "pending" /\ session = on[a]

timesOut(a) == future[a] = "pending"

Timeout(a) ==
  /\ call[a] = "waiting" /\ timesOut(a)
  /\ call' = [call EXCEPT ![a] = "timeout"]
  /\ future' = [future EXCEPT ![a] = "none"]
  /\ UNCHANGED <<on, node>> /\ UNCHANGED callOnly
  /\ UNCHANGED registry /\ UNCHANGED known /\ UNCHANGED links

-------------------------------------------------------------------------------
HandlerStep(s) == Hello(s) \/ HelloLost(s) \/ Welcome(s) \/ Left(s)
CallStep(a) == Sent(a) \/ Answered(a) \/ Timeout(a)

Next ==
  \/ \E s \in Sockets : Dial(s) \/ LinkDrops(s) \/ HandlerStep(s) \/ Leave(s) \/ Heartbeat(s)
  \/ NodeNotices
  \/ \E j \in Jobs : JobMarks(j)
  \/ Sweep \/ Stop \/ Rotate \/ Revoke \/ Forget
  \/ Enrol \/ RestHeartbeat \/ \E t \in Trust : SetTrust(t)
  \/ \E a \in Calls : Invoke(a) \/ CallStep(a) \/ NodeRuns(a) \/ NodeReplies(a) \/ Result(a)

Spec == Init /\ [][Next]_vars

\* Handlers and callers are resumed, a lost link is noticed (the transport's keepalive),
\* a connected node beats every fifteen seconds, and a call has a timeout.
Fairness ==
  /\ \A s \in Sockets : /\ WF_vars(HandlerStep(s)) /\ WF_vars(Heartbeat(s))
                        /\ WF_vars(s \notin wire /\ Leave(s))
  /\ \A j \in Jobs : WF_vars(JobMarks(j))
  /\ WF_vars(Forget)
  /\ \A a \in Calls : WF_vars(CallStep(a)) /\ WF_vars(NodeReplies(a)) /\ WF_vars(Result(a))

FairSpec == Spec /\ Fairness

-------------------------------------------------------------------------------
(* Properties.                                                                *)

TypeOK ==
  /\ key \in 0..MaxKey /\ revoked \in BOOLEAN
  /\ session \in Sockets \cup {None} /\ dialled \in Sockets \cup {None}
  /\ status \in {"ABSENT", "ONLINE", "OFFLINE"} /\ trust \in Trust /\ granted \in Trust
  /\ conn \in [Sockets -> {"new", "hello", "registering", "reading", "leaving", "gone"}]
  /\ presented \in [Sockets -> 0..MaxKey]
  /\ closed \subseteq Sockets /\ wire \subseteq Sockets
  /\ job \in [Jobs -> {"idle", "dropping", "forgetting"}]
  /\ call \in [Calls -> {"idle", "sending", "waiting", "done", "unavailable", "raised", "timeout"}]
  /\ future \in [Calls -> {"none", "pending", "result", "cut"}]
  /\ on \in [Calls -> Sockets \cup {None}]
  /\ node \in [Calls -> {"none", "sent", "running", "replied", "heard", "never ran", "unheard"}]

\* Rotation and revocation change who drives the machine, not only the record: the session
\* that is dispatched to was opened with the key on file now, by a device in good standing.
OnlyCurrentKeysDrive == session # None => ~revoked /\ presented[session] = key

\* What can still be heard can still be ended: a connection past its HELLO whose
\* transport carries frames is the one the hub holds, so a revocation, a rotation or the
\* emergency stop reaches it, however the node reconnected and whichever old handler is late.
AttachedIsHeld ==
  \A s \in wire : conn[s] \in {"registering", "reading"} => session = s

\* Once a revocation is through, nothing brings the device back into the registry: not a
\* HELLO in flight, a heartbeat, an old handler, nor another unregister under way.
RevokedStaysOut ==
  revoked /\ job["revoke"] = "idle" => session = None /\ status = "ABSENT"

\* No disconnection overlooks a caller that could still be answered.  A call that waits is
\* on the session the hub holds, so that whatever ends the session ends the wait; or a later
\* HELLO took that session's place, which closes nothing and tells nobody.  Then its link is
\* gone, with whatever of the call was in flight, and its timeout is all that ends it.
WaitersAreHeldOrCutOff ==
  \A a \in Calls : call[a] \in {"sending", "waiting"} /\ future[a] = "pending" =>
    \/ on[a] = session
    \/ on[a] \notin closed \cup wire /\ node[a] \notin {"sent", "replied"}

\* Every dispatch ends, whatever becomes of the connection it was sent on.
CallEnds == \A a \in Calls : call[a] = "sending" ~> call[a] \notin {"sending", "waiting"}

\* A machine that stays connected ends up listed so, although an unregister begun before
\* it came back marks it away afterwards.
ConnectedIsListed == <>[](session # None) => <>[](status = "ONLINE")

-------------------------------------------------------------------------------
(* What the documentation says, and the code does not do.                     *)

\* A device is not listed as reachable when it cannot act (hub.py, enrol).
OnlineIsReachable == status = "ONLINE" => session # None

\* Trust is the owner's call, only (hub.py, set_trust).
TrustIsOwners == status # "ABSENT" => trust = granted

\* The end of a connection ends that connection's session (hub.py, unregister).
OldSocketEndsAlone ==
  [][\A s \in Sockets : conn[s] = "reading" /\ conn'[s] = "leaving" =>
       session' = session \/ session = s]_vars

\* A reconnecting node replays its unacknowledged results (docs/09).
UnacknowledgedIsReplayed ==
  \A s \in Sockets, a \in Calls :
    conn[s] = "reading" /\ node[a] = "unheard" ~> node[a] # "unheard" \/ conn[s] # "reading"
===============================================================================
