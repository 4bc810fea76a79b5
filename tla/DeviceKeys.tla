----------------------------- MODULE DeviceKeys -----------------------------
(***************************************************************************)
(* The key of one paired device: the core's registry of it, in memory and  *)
(* on file (security/pairing.py, security/credentials.py), the node's own  *)
(* key and its staged successor on the node's disk, the node process that  *)
(* read its key once (apps/node/__main__.py), and the command that         *)
(* rotates it over HTTP.  A request may be handled after its caller gave   *)
(* up, a reply may be lost, a save may fail, and each of the three         *)
(* processes may die between any two writes.                               *)
(***************************************************************************)
EXTENDS Naturals, FiniteSets

CONSTANTS KeyNames,   \* every key the node can come to generate
          FirstKey,   \* the key it was paired with, a member of KeyNames
          NoKey       \* no key

VARIABLES reg,        \* PairingService._credentials[device]
          filed,      \* the same row in device_credentials.json
          acked,      \* a revocation has been answered to the owner
          stale,      \* a restart has brought back an older row than memory held
          own,        \* node-identity: the key on the node's disk
          staged,     \* node-identity-pending: the successor written down first
          cached,     \* NodeIdentity._key of the running node, NoKey when it is down
          session,    \* the key the device's live session was opened with, or NoKey
          cmd,        \* the --rotate-key command
          wire        \* rotation requests the core has not handled yet

keyVars == <<reg, filed, acked, stale, own, staged, cached, session, cmd, wire>>

core == <<reg, filed, acked, stale>>
node == <<own, staged, cached>>

Row == [key : KeyNames, revoked : BOOLEAN]
Idle == [at |-> "idle", old |-> NoKey, new |-> NoKey]

TypeOK ==
  /\ reg \in Row /\ filed \in Row
  /\ acked \in BOOLEAN /\ stale \in BOOLEAN
  /\ own \in KeyNames
  /\ {staged, cached, session} \subseteq KeyNames \cup {NoKey}
  /\ cmd \in [at : {"idle", "staged", "waiting", "accepted", "promoted", "asking"},
              old : KeyNames \cup {NoKey}, new : KeyNames \cup {NoKey}]
  /\ wire \subseteq [old : KeyNames, new : KeyNames, awaited : BOOLEAN]

\* Paired, confirmed by the owner, and saved.
Init ==
  /\ reg = [key |-> FirstKey, revoked |-> FALSE] /\ filed = reg
  /\ acked = FALSE /\ stale = FALSE
  /\ own = FirstKey /\ staged = NoKey /\ cached = NoKey
  /\ session = NoKey /\ cmd = Idle /\ wire = {}
-----------------------------------------------------------------------------
\* Keys are never reused: generate() draws one that nobody has seen.
seen == {own, staged, cached, reg.key, filed.key, session, cmd.old, cmd.new}
          \cup {r.old : r \in wire} \cup {r.new : r \in wire}
generated == KeyNames \ seen

\* stage_pending(): an existing staged key is reused, else a new one is written down.
successor_Fresh(k) == k \in generated
successor(k) == IF staged # NoKey THEN k = staged ELSE k \in generated

\* rotate_key() up to the request: nothing of it has reached the core yet.
Stage ==
  /\ cmd = Idle
  /\ \E k \in KeyNames : /\ successor(k)
                         /\ staged' = k
                         /\ cmd' = [at |-> "staged", old |-> own, new |-> k]
  /\ UNCHANGED <<core, own, cached, session, wire>>

Ask ==
  /\ cmd.at = "staged"
  /\ cmd' = [cmd EXCEPT !.at = "waiting"]
  /\ wire' = wire \cup {[old |-> cmd.old, new |-> cmd.new, awaited |-> TRUE]}
  /\ UNCHANGED <<core, node, session>>

\* The reply reaches the command only while it still waits for it.
Reply(r, at) == cmd' = IF r.awaited THEN [cmd EXCEPT !.at = at] ELSE cmd
unawaited == {[r EXCEPT !.awaited = FALSE] : r \in wire}

\* rotate() refuses a revoked device and a request the current key has not signed.
rotates(r) == ~reg.revoked /\ r.old = reg.key

\* The registry is changed in memory first, then written as a whole: the write may raise.
Change(row, saved) == reg' = row /\ filed' = IF saved THEN row ELSE filed

\* POST /devices/{id}/rotate: on success the live session is dropped; a save that raises
\* leaves it up and is answered with an error.
CoreRotates(r, saved) ==
  /\ r \in wire /\ wire' = wire \ {r}
  /\ rotates(r)
  /\ Change([reg EXCEPT !.key = r.new], saved)
  /\ session' = IF saved THEN NoKey ELSE session
  /\ Reply(r, IF saved THEN "accepted" ELSE "asking")
  /\ UNCHANGED <<acked, stale, node>>

CoreRefuses(r) ==
  /\ r \in wire /\ wire' = wire \ {r}
  /\ ~rotates(r)
  /\ Reply(r, "asking")
  /\ UNCHANGED <<core, node, session>>

\* No answer in 15 s; the request may still be handled.
GivesUp ==
  /\ cmd.at = "waiting"
  /\ cmd' = [cmd EXCEPT !.at = "asking"]
  /\ wire' = unawaited
  /\ UNCHANGED <<core, node, session>>

\* promote_pending(): the new key is written, and only then the staged one removed.
Promote ==
  /\ cmd.at = "accepted"
  /\ own' = staged
  /\ cmd' = [cmd EXCEPT !.at = "promoted"]
  /\ UNCHANGED <<core, staged, cached, session, wire>>

Unstage_Kept ==
  /\ cmd.at = "promoted"
  /\ staged' = NoKey /\ own' = NoKey
  /\ cmd' = Idle
  /\ UNCHANGED <<core, cached, session, wire>>
Unstage ==
  /\ cmd.at = "promoted"
  /\ staged' = NoKey
  /\ cmd' = Idle
  /\ UNCHANGED <<core, own, cached, session, wire>>

\* GET /devices/credentials lists active rows only.
lists(k) == ~reg.revoked /\ reg.key = k

\* _resolve_staged(): the core already holds the staged key, or the staged key is kept;
\* an answer that does not arrive counts as the latter.
Resolve ==
  /\ cmd.at = "asking"
  /\ \/ lists(cmd.new) /\ cmd' = [cmd EXCEPT !.at = "accepted"]
     \/ cmd' = Idle
  /\ UNCHANGED <<core, node, session, wire>>

CommandDies ==
  /\ cmd # Idle /\ cmd' = Idle
  /\ wire' = unawaited
  /\ UNCHANGED <<core, node, session>>
-----------------------------------------------------------------------------
\* The node process reads its key on first use and keeps it.
NodeStarts ==
  /\ cached = NoKey /\ cached' = own
  /\ UNCHANGED <<core, own, staged, session, cmd, wire>>

NodeStops ==
  /\ cached # NoKey /\ cached' = NoKey /\ session' = NoKey
  /\ UNCHANGED <<core, own, staged, cmd, wire>>

\* _verify_with_key(): a known device is judged by its own active key and nothing else.
verifies(k) == ~reg.revoked /\ k = reg.key

\* A HELLO that verifies opens the session; one that does not is backed off from.
Hello ==
  /\ cached # NoKey /\ session = NoKey
  /\ verifies(cached)
  /\ session' = cached
  /\ UNCHANGED <<core, node, cmd, wire>>

LinkLost ==
  /\ session # NoKey /\ session' = NoKey
  /\ UNCHANGED <<core, node, cmd, wire>>

\* POST /devices/{id}/revoke: forget() drops the session, unless the save raised first.
Revoke(saved) ==
  /\ ~reg.revoked
  /\ Change([reg EXCEPT !.revoked = TRUE], saved)
  /\ session' = IF saved THEN NoKey ELSE session
  /\ acked' = saved
  /\ UNCHANGED <<stale, node, cmd, wire>>

\* Another device's change writes the whole registry, this row with it.
OtherSave ==
  /\ filed # reg /\ filed' = reg
  /\ UNCHANGED <<reg, acked, stale, node, session, cmd, wire>>

\* PairingService.__init__ loads the file; what was in flight is gone.
CoreRestarts ==
  /\ reg' = filed
  /\ stale' = (stale \/ filed # reg)
  /\ session' = NoKey /\ wire' = {}
  /\ UNCHANGED <<filed, acked, node, cmd>>

Next ==
  \/ Stage \/ Ask \/ GivesUp \/ Promote \/ Unstage \/ Resolve \/ CommandDies
  \/ \E r \in wire, saved \in BOOLEAN : CoreRotates(r, saved)
  \/ \E r \in wire : CoreRefuses(r)
  \/ NodeStarts \/ NodeStops \/ Hello \/ LinkLost
  \/ \E saved \in BOOLEAN : Revoke(saved)
  \/ OtherSave \/ CoreRestarts

Spec == Init /\ [][Next]_keyVars
-----------------------------------------------------------------------------
\* A rotation never costs the node its identity: whatever replies are lost and whichever
\* process dies between two writes, the key the core knows it by is on the node's disk, as
\* its key or as the staged successor.  The one exception is a core that restarts after a
\* save that failed, and so takes back what it had already accepted.
KeyIsHeld == stale \/ reg.key \in {own, staged}

\* A revocation that was answered survives restarts, later saves and rotations still on
\* their way: the device is never active again, nor has it a session.
RevocationHolds == acked => reg.revoked /\ filed.revoked /\ session = NoKey

\* The core comes back after an accepted rotation: "this device is coming straight back
\* with its new key" (routers/devices.py).
Rotated == cached # NoKey /\ cached # reg.key /\ ~reg.revoked /\ own = reg.key
RotatedNodeReturns == Rotated ~> (session = reg.key \/ ~Rotated)

Waits == WF_keyVars(Hello) /\ WF_keyVars(Promote) /\ WF_keyVars(Unstage)
FairSpec == Spec /\ Waits
===============================================================================
