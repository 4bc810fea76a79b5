---------------------------- MODULE PairingCodes ----------------------------
(***************************************************************************)
(* Enrolling a device (security/pairing.py): a node that has proved it     *)
(* holds its key is given a short code, a person confirms the code, the    *)
(* core files the device.  Codes expire, are used once, and all of them    *)
(* share one budget of wrong guesses; a save may fail halfway through a    *)
(* confirmation or a revocation, and a restart forgets what is pending.    *)
(***************************************************************************)
EXTENDS Naturals, Sequences, FiniteSets, Selection

CONSTANTS Codes,        \* the codes _new_code draws from
          Devices,      \* the ids a start can be given
          Window,       \* RATE_WINDOW, in ticks
          Ttl,          \* CODE_TTL, in ticks
          MaxAttempts,  \* wrong codes in a window before all are refused
          MaxStarts,    \* starts of one caller in a window
          MaxNow        \* bound: the clock stops here

VARIABLES now,          \* ticks since the first start
          pending,      \* _pending: code -> [device, made, done]
          failures,     \* _failures: when a code was wrong
          starts,       \* _starts of the one caller
          devices,      \* _credentials: device -> "active" or "revoked"
          onFile,       \* the same, as the store holds it
          tries,        \* history: wrong codes tried while a code was open
          ended         \* history: devices whose revocation was answered

codeVars == <<now, pending, failures, starts, devices, onFile, tries, ended>>

Statuses == {"active", "revoked"}
Times == 0..MaxNow
issued == DOMAIN pending
known == DOMAIN devices

TypeOK ==
  /\ now \in Times
  /\ issued \subseteq Codes
  /\ pending \in [issued -> [device : Devices, made : Times, done : BOOLEAN]]
  /\ failures \in Seq(Times) /\ starts \in Seq(Times)
  /\ known \subseteq Devices /\ DOMAIN onFile \subseteq known
  /\ devices \in [known -> Statuses] /\ onFile \in [DOMAIN onFile -> Statuses]
  /\ tries \in [Codes -> Nat]
  /\ ended \subseteq known

Init ==
  /\ now = 0
  /\ pending = <<>> /\ failures = <<>> /\ starts = <<>>
  /\ devices = <<>> /\ onFile = <<>>
  /\ tries = [c \in Codes |-> 0] /\ ended = {}

With(f, x, v) == [y \in DOMAIN f \cup {x} |-> IF y = x THEN v ELSE f[y]]
Without(f, x) == [y \in DOMAIN f \ {x} |-> f[y]]

\* What a sliding window still counts.
recent(times) == Chosen(times, {t \in Times : t + Window > now})
expired(p) == now >= p.made + Ttl
-----------------------------------------------------------------------------
\* start(): rate-limited per caller; the code is one that is not pending.
Start ==
  /\ Len(recent(starts)) < MaxStarts
  /\ \E c \in Codes \ issued, d \in Devices \ (known \cup {pending[x].device : x \in issued}) :
       /\ pending' = With(pending, c, [device |-> d, made |-> now, done |-> FALSE])
       /\ tries' = [tries EXCEPT ![c] = 0]
  /\ starts' = Append(recent(starts), now)
  /\ UNCHANGED <<now, failures, devices, onFile, ended>>

\* _enforce_guess_budget(): asked before the code is looked up, whichever code it is.
withinBudget == Len(recent(failures)) < MaxAttempts

\* What complete() finds wrong with a code.
notPending(c) == c \notin issued
usable(c) == c \in issued /\ ~pending[c].done /\ ~expired(pending[c])

recorded == Append(recent(failures), now)

\* A wrong code: unknown, used, or expired and then dropped (unless it was typed with
\* blanks around it: the lookup strips them and the removal does not).
WrongCode(c, padded) ==
  /\ withinBudget /\ ~usable(c)
  /\ failures' = recorded
  /\ tries' = [x \in Codes |-> IF usable(x) THEN tries[x] + 1 ELSE tries[x]]
  /\ pending' = IF notPending(c) \/ pending[c].done \/ padded THEN pending ELSE Without(pending, c)
  /\ UNCHANGED <<now, starts, devices, onFile, ended>>

\* complete(): the device is registered, then saved; a save that raises leaves the code open.
RightCode(c, padded, saved) ==
  /\ withinBudget /\ usable(c)
  /\ failures' = recent(failures)
  /\ devices' = With(devices, pending[c].device, "active")
  /\ onFile' = IF saved THEN devices' ELSE onFile
  /\ pending' = IF ~saved THEN pending
                ELSE IF padded THEN [pending EXCEPT ![c].done = TRUE]
                ELSE Without(pending, c)
  /\ UNCHANGED <<now, starts, tries, ended>>

\* A device's pairings in flight die with it.
spared(d) == {c \in issued : pending[c].device # d}

\* revoke(): the row is kept and marked; what is pending for it dies after the save.
Revoke(d, saved) ==
  /\ d \in known
  /\ devices' = [devices EXCEPT ![d] = "revoked"]
  /\ onFile' = IF saved THEN devices' ELSE onFile
  /\ pending' = IF saved THEN [c \in spared(d) |-> pending[c]] ELSE pending
  /\ ended' = IF saved THEN ended \cup {d} ELSE ended
  /\ UNCHANGED <<now, failures, starts, tries>>

\* What is pending, and the count of failures, live in memory only.
Restart ==
  /\ devices' = onFile
  /\ pending' = <<>> /\ failures' = <<>> /\ starts' = <<>>
  /\ tries' = [c \in Codes |-> 0]
  /\ UNCHANGED <<now, onFile, ended>>

Tick == now < MaxNow /\ now' = now + 1
        /\ UNCHANGED <<pending, failures, starts, devices, onFile, tries, ended>>

Next ==
  \/ Start
  \/ \E c \in Codes, padded \in BOOLEAN : WrongCode(c, padded)
  \/ \E c \in issued, padded, saved \in BOOLEAN : RightCode(c, padded, saved)
  \/ \E d \in known, saved \in BOOLEAN : Revoke(d, saved)
  \/ Restart \/ Tick

Spec == Init /\ [][Next]_codeVars
-----------------------------------------------------------------------------
\* A code lives shorter than the window of the budget, so no code, in all its life, sees
\* more wrong guesses than the budget, whichever codes were guessed and however the window
\* slid meanwhile.
CodeFacesFewGuesses == \A c \in issued : usable(c) => tries[c] <= MaxAttempts

\* A revocation that was answered is final: no code still open, no second confirmation of
\* one whose save had failed, and no restart makes the device active again.
RevokedStaysRevoked == \A d \in ended : devices[d] = "revoked" /\ onFile[d] = "revoked"
===============================================================================
