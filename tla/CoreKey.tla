------------------------------- MODULE CoreKey -------------------------------
(***************************************************************************)
(* The core's TLS key and a node that pinned it at pairing                 *)
(* (security/pinning.py, security/handover.py, apps/node/__main__.py).     *)
(* The operator signs a statement from the retiring key to the next and    *)
(* installs the new key, in either order or without a statement at all; a  *)
(* node that meets a key it did not pin reads the published chain, once    *)
(* per pin, over a channel that may fail or alter it.                      *)
(***************************************************************************)
EXTENDS Naturals, Sequences, FiniteSets

CONSTANTS Pins,       \* pins of the keys the operator ever has
          FirstPin,   \* the one the node took at pairing, a member of Pins
          ChainMax    \* CHAIN_MAX: a longer chain is not walked

VARIABLES serving,    \* the pin of the key the core presents
          chain,      \* tls_handovers.json
          pin,        \* the node's core_pin
          tried,      \* _handover_tried of the running node
          connected   \* the node has a session with the core

pinVars == <<serving, chain, pin, tried, connected>>

Link == [from : Pins, to : Pins, good : BOOLEAN]

TypeOK ==
  /\ {serving, pin} \subseteq Pins
  /\ chain \in Seq(Link)
  /\ tried \subseteq Pins
  /\ connected \in BOOLEAN

Init ==
  /\ serving = FirstPin /\ pin = FirstPin
  /\ chain = <<>> /\ tried = {} /\ connected = FALSE
-----------------------------------------------------------------------------
\* sign_handover(): one statement per retiring key, appended; a second would fork the chain.
Publish ==
  /\ \A i \in DOMAIN chain : chain[i].from # serving
  /\ \E next \in Pins \ {serving} :
       chain' = Append(chain, [from |-> serving, to |-> next, good |-> TRUE])
  /\ UNCHANGED <<serving, pin, tried, connected>>

\* The operator installs another certificate; open sessions end with the old listener.
Install ==
  /\ \E next \in Pins \ {serving} : serving' = next
  /\ connected' = FALSE
  /\ UNCHANGED <<chain, pin, tried>>

\* check_peer(): the key presented is the pinned one, or no frame is sent.
Connect ==
  /\ ~connected /\ pin = serving
  /\ connected' = TRUE
  /\ UNCHANGED <<serving, chain, pin, tried>>

\* Where follow() starts: the first link that the pinned key signed.
starts(links, p) ==
  {i \in DOMAIN links : links[i].from = p /\ \A j \in 1..(i - 1) : links[j].from # p}

\* verify(): signed by the key this pin commits to, and not altered since.
verified(link, current) == link.good /\ link.from = current

\* follow(): every link behind the start verifies against the one before it, and none leads
\* back to a key already walked.
walks(links, p) ==
  /\ Len(links) <= ChainMax
  /\ \E s \in starts(links, p) : \A k \in s..Len(links) :
       /\ verified(links[k], IF k = s THEN p ELSE links[k - 1].to)
       /\ links[k].to \notin {p} \cup {links[j].to : j \in s..(k - 1)}

\* What GET /devices/tls-handover brings: the chain, or the chain with a link altered.
altered(links) ==
  {[links EXCEPT ![i] = [from |-> links[i].from, to |-> p, good |-> FALSE]] :
     i \in DOMAIN links, p \in Pins}

\* _follow_handover(): at most once per pin, and marked before the chain is read.
Follow ==
  /\ ~connected /\ pin # serving /\ pin \notin tried
  /\ tried' = tried \cup {pin}
  /\ \E links \in {chain} \cup altered(chain) :
       pin' = IF walks(links, pin) THEN links[Len(links)].to ELSE pin
  /\ UNCHANGED <<serving, chain, connected>>

FetchFails ==
  /\ ~connected /\ pin # serving /\ pin \notin tried
  /\ tried' = tried \cup {pin}
  /\ UNCHANGED <<serving, chain, pin, connected>>

LinkLost == connected /\ connected' = FALSE /\ UNCHANGED <<serving, chain, pin, tried>>

NodeRestarts == connected' = FALSE /\ tried' = {} /\ UNCHANGED <<serving, chain, pin>>

Next ==
  \/ Publish \/ Install
  \/ Connect \/ Follow \/ FetchFails \/ LinkLost \/ NodeRestarts

Spec == Init /\ [][Next]_pinVars
-----------------------------------------------------------------------------
Signed(a, b) == \E i \in DOMAIN chain : chain[i].from = a /\ chain[i].to = b

\* The pins that signed statements lead to, in any number of steps: those in every set that
\* holds the first one and whatever a statement joins to one it holds.
Closed(S) == \A x \in S, b \in Pins : Signed(x, b) => b \in S
Path(a) == {b \in Pins : \A S \in SUBSET Pins : a \in S /\ Closed(S) => b \in S}

\* What the node trusts is always joined to what it took at pairing by statements the core's
\* own keys signed, whatever the channel did to the chain on its way.
PinIsSigned == pin \in Path(FirstPin)

\* The operator is told: "Nodes follow this the next time they fail to connect. Nothing
\* needs restarting" (apps/server/__main__.py): a node does not give up on a pin that a
\* published path leads from.
SignedPathIsFollowed == pin \in tried => pin = serving \/ serving \notin Path(pin)
===============================================================================
