----------------------------- MODULE UndoRegistry -----------------------------
(***************************************************************************)
(* Undoing what was done on a device: the executor's file handlers, which  *)
(* act and describe the inverse (executor.py), the registry that keeps the *)
(* inverses until they have been run or have expired (undo.py), and the    *)
(* executors that send an inverse back to a device (container.py).         *)
(***************************************************************************)
EXTENDS Integers, Sequences, FiniteSets, TLC

CONSTANTS Paths, Nodes, Undoers, MaxActs, MaxAsks, MaxSeconds

VARIABLES disk,      \* what each path of each node holds: the act that wrote it, or nothing
          kept,      \* a node's quarantine and versions directories: <<place, second, path>> -> what
          second,    \* the node's clock, whole seconds
          acts,      \* acts so far
          asks,      \* undos asked for so far
          records,   \* _records and _order: the inverses, in the order they were recorded
          requests,  \* what each caller of undo waits for
          ran        \* records whose inverse has taken effect, and where

vars == <<disk, kept, second, acts, asks, records, requests, ran>>

Nothing == 0
Idle == [record |-> 0, node |-> "", phase |-> "idle"]

TypeOK ==
  /\ \A n \in Nodes : \A p \in Paths : disk[n][p] \in 0..MaxActs
  /\ second \in 0..MaxSeconds /\ acts \in 0..MaxActs /\ asks \in 0..MaxAsks
  /\ \A u \in Undoers : requests[u].record \in 0..Len(records)

Init ==
  /\ disk = [n \in Nodes |-> [p \in Paths |-> Nothing]]
  /\ kept = [n \in Nodes |-> <<>>]
  /\ second = 0 /\ acts = 0 /\ asks = 0 /\ records = <<>>
  /\ requests = [u \in Undoers |-> Idle]
  /\ ran = {}

---------------------------------------------------------------------------
\* What the handlers do to a node.  Each yields the disk and the kept files afterwards, and
\* the inverse it describes.

put(f, key, v) == [k \in DOMAIN f \cup {key} |-> IF k = key THEN v ELSE f[k]]
After(d, k, inverse) == [disk |-> d, kept |-> k, inverse |-> inverse]
NoInverse == [op |-> "none"]

\* An existing document is versioned before it is overwritten.
write_ReadAfter(n, p, v) ==
  LET before == disk[n][p] IN
  After([disk[n] EXCEPT ![p] = v],
        IF before = Nothing THEN kept[n] ELSE put(kept[n], <<"versions", second, p>>, before),
        [op |-> "file.restore", path |-> p, content |-> v])
write(n, p, v) ==
  LET before == disk[n][p] IN
  After([disk[n] EXCEPT ![p] = v],
        IF before = Nothing THEN kept[n] ELSE put(kept[n], <<"versions", second, p>>, before),
        [op |-> "file.restore", path |-> p, content |-> before])

\* Deleting moves the file to the quarantine, under a name of whole seconds.
delete(n, p) ==
  LET trash == <<"trash", second, p>> IN
  After([disk[n] EXCEPT ![p] = Nothing], put(kept[n], trash, disk[n][p]),
        [op |-> "file.restore_from_trash", src |-> trash, dst |-> p])

move(n, src, dst) ==
  After([disk[n] EXCEPT ![dst] = disk[n][src], ![src] = Nothing], kept[n],
        [op |-> "file.move", src |-> dst, dst |-> src])

\* The inverse of a copy deletes the destination, whatever was there before.
copy(n, src, dst) ==
  After([disk[n] EXCEPT ![dst] = disk[n][src]], kept[n], [op |-> "file.delete", path |-> dst])

\* The effects an owner's act can have on node n.
effects(n) ==
  {write(n, p, acts + 1) : p \in Paths}
  \cup {delete(n, p) : p \in {q \in Paths : disk[n][q] # Nothing}}
  \cup UNION {UNION {{move(n, p, q), copy(n, p, q)} : q \in Paths \ {p}} :
                p \in {q \in Paths : disk[n][q] # Nothing}}

Affect(n, e) ==
  /\ disk' = [disk EXCEPT ![n] = e.disk]
  /\ kept' = [kept EXCEPT ![n] = e.kept]

\* UndoRegistry.record.  The record names no device; node, before and after are what the
\* properties ask about.
record(n, e) ==
  [inverse |-> e.inverse, node |-> n, before |-> disk[n], after |-> e.disk,
   live |-> TRUE, expired |-> FALSE]

\* An act that comes back with its inverse, which is recorded before the result is reported.
Act(n) ==
  /\ acts < MaxActs
  /\ \E e \in effects(n) : Affect(n, e) /\ records' = Append(records, record(n, e))
  /\ acts' = acts + 1
  /\ UNCHANGED <<second, asks, requests, ran>>

\* The handler is timed out after its thread has acted, or the reply is lost: no inverse.
ActUnrecorded(n) ==
  /\ acts < MaxActs
  /\ \E e \in effects(n) : Affect(n, e)
  /\ acts' = acts + 1
  /\ UNCHANGED <<second, asks, records, requests, ran>>

Tick ==
  /\ second < MaxSeconds /\ second' = second + 1
  /\ UNCHANGED <<disk, kept, acts, asks, records, requests, ran>>

\* Records expire in the order they were made.
Expire ==
  /\ \E i \in 1..Len(records) :
       /\ ~records[i].expired /\ \A j \in 1..(i - 1) : records[j].expired
       /\ records' = [records EXCEPT ![i].expired = TRUE]
  /\ UNCHANGED <<disk, kept, second, acts, asks, requests, ran>>

---------------------------------------------------------------------------
\* Running an inverse.

\* UndoRegistry.get: a record that has been run or has expired is no record.
found(i) == records[i].live /\ ~records[i].expired

\* undo(): the record names no device, so its inverse goes to the first that hub.online()
\* lists, which may be any of them.
Ask(u) ==
  /\ requests[u] = Idle /\ asks < MaxAsks /\ asks' = asks + 1
  /\ \E i \in {j \in 1..Len(records) : found(j)}, n \in Nodes :
       requests' = [requests EXCEPT ![u] = [record |-> i, node |-> n, phase |-> "sent"]]
  /\ UNCHANGED <<disk, kept, second, acts, records, ran>>

\* What the inverse does on node n: {} when the node refuses it.
inverseEffects(n, i) ==
  IF i.op = "file.restore"
    THEN IF i.content # Nothing THEN {write(n, i.path, i.content)}
         ELSE IF disk[n][i.path] # Nothing THEN {delete(n, i.path)} ELSE {}
  ELSE IF i.op = "file.delete"
    THEN IF disk[n][i.path] # Nothing THEN {delete(n, i.path)} ELSE {}
  ELSE IF i.op = "file.move"
    THEN IF disk[n][i.src] # Nothing THEN {move(n, i.src, i.dst)} ELSE {}
  ELSE IF i.src \in DOMAIN kept[n]
    THEN {After([disk[n] EXCEPT ![i.dst] = kept[n][i.src]],
                [k \in DOMAIN kept[n] \ {i.src} |-> kept[n][k]], NoInverse)}
    ELSE {}

\* The node runs the inverse.  Nothing records an inverse of the inverse.
Inverted(u) ==
  LET r == requests[u]
      es == inverseEffects(r.node, records[r.record].inverse)
  IN
  /\ r.phase = "sent"
  /\ IF es = {}
       THEN /\ requests' = [requests EXCEPT ![u].phase = "failed"]
            /\ UNCHANGED <<disk, kept, ran>>
       ELSE /\ \E e \in es : Affect(r.node, e)
            /\ requests' = [requests EXCEPT ![u].phase = "ok"]
            /\ ran' = ran \cup {<<r.record, r.node>>}
  /\ UNCHANGED <<second, acts, asks, records>>

\* The record goes only when its executor has said so, and only after the await.
Answered(u) ==
  /\ requests[u].phase = "ok"
  /\ records' = [records EXCEPT ![requests[u].record].live = FALSE]
  /\ requests' = [requests EXCEPT ![u] = Idle]
  /\ UNCHANGED <<disk, kept, second, acts, asks, ran>>

\* The inverse failed, or its answer was lost: the record stays.
Unanswered(u) ==
  /\ requests[u].phase \in {"ok", "failed"}
  /\ requests' = [requests EXCEPT ![u] = Idle]
  /\ UNCHANGED <<disk, kept, second, acts, asks, records, ran>>

Next ==
  \/ \E n \in Nodes : Act(n) \/ ActUnrecorded(n)
  \/ Tick \/ Expire
  \/ \E u \in Undoers : Ask(u) \/ Inverted(u) \/ Answered(u) \/ Unanswered(u)

Spec == Init /\ [][Next]_vars

---------------------------------------------------------------------------
(* Properties.                                                              *)

\* What an inverse can be expected to take back: a move or a copy onto a file that was there
\* loses it, and a second deletion of one name in one second replaces what the first put aside.
takesBack(r) ==
  CASE r.inverse.op = "file.move" -> r.before[r.inverse.src] = Nothing
    [] r.inverse.op = "file.delete" -> r.before[r.inverse.path] = Nothing
    [] r.inverse.op = "file.restore_from_trash" ->
         /\ r.inverse.src \in DOMAIN kept[r.node]
         /\ kept[r.node][r.inverse.src] = r.before[r.inverse.dst]
    [] OTHER -> TRUE

\* Undoing an act on the node it was done on, with that node's files as the act left them,
\* leaves them as they were before it - also when acts are taken back one after another.
UndoRestores ==
  [][\A u \in Undoers :
       LET i == requests[u].record IN
       (/\ requests[u].phase = "sent" /\ requests'[u].phase = "ok"
        /\ requests[u].node = records[i].node
        /\ disk[records[i].node] = records[i].after /\ takesBack(records[i]))
       => disk'[records[i].node] = records[i].before]_vars

\* A record leaves the registry only after its inverse has taken effect somewhere: an undo
\* that failed, timed out or found no device can be asked for again.
OnlyUndoneLeaves ==
  \A i \in 1..Len(records) : ~records[i].live => \E n \in Nodes : <<i, n>> \in ran

\* What a node's files hold, and what it has put aside.
holds(n, d, k) == ({d[n][p] : p \in Paths} \cup {k[n][x] : x \in DOMAIN k[n]}) \ {Nothing}

\* A step in which a move, a copy or a restore takes the place of a file: nothing versions it.
displaces(n) ==
  \E q \in Paths :
    /\ disk[n][q] # Nothing
    /\ \/ \E p \in Paths \ {q} : disk[n][p] # Nothing /\ disk'[n][q] = disk[n][p]
       \/ \E x \in DOMAIN kept[n] \ DOMAIN kept'[n] : x[3] = q

\* Writing over a file or deleting it, by the owner or by an inverse, loses nothing: versions
\* and quarantine have it, unless another of the same second took its place.
NothingIsLost ==
  [][\A n \in Nodes :
       \/ holds(n, disk, kept) \subseteq holds(n, disk', kept')
       \/ displaces(n)
       \/ \E x \in DOMAIN kept[n] \cap DOMAIN kept'[n] : kept[n][x] # kept'[n][x]]_vars
===============================================================================
