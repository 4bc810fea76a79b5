--------------------------- MODULE MemoryManager ---------------------------
(***************************************************************************)
(* What Thursday remembers about one subject: the index it recalls from,   *)
(* the table behind it, contradictions, superseding and forgetting         *)
(* (memory/manager.py), with the requests of several turns interleaved at  *)
(* their awaits and the process dying between two of them.                 *)
(*                                                                         *)
(* Every write here is about the same subject, so any two of them are      *)
(* "near" (one key, or a close paraphrase).  The write policy is the       *)
(* caller's source alone; whether a stronger source is also confident      *)
(* enough is left open.  Vectors follow the index and are left out.        *)
(***************************************************************************)
EXTENDS Naturals, FiniteSets

CONSTANTS Values, Writers, MaxRecords

NoId == 0
Ids == 1..MaxRecords
Sources == {"USER", "AGENT"}

VARIABLES
  records,     \* the index: id -> record
  rows,        \* the table
  writes,      \* the writes in flight
  removing,    \* ids popped from the index whose row is still to be deleted
  made,        \* records stored, and answered as remembered, so far
  conflicts,   \* [old, new]: contradictions reported and not yet resolved
  suppressed,  \* the owner has said "don't remember this" in the session
  forgotten    \* history: ids whose forgetting was answered

memoryVars == <<records, rows, writes, removing, made, conflicts, suppressed, forgotten>>

Record == [value : Values, source : Sources, session : BOOLEAN, against : Ids \cup {NoId},
           retired : BOOLEAN]
NoWrite == [at |-> "none"]

TypeOK ==
  /\ DOMAIN records \subseteq Ids /\ \A i \in DOMAIN records : records[i] \in Record
  /\ DOMAIN rows \subseteq Ids /\ \A i \in DOMAIN rows : rows[i] \in Record
  /\ \A w \in Writers :
       \/ writes[w] = NoWrite
       \/ writes[w] \in [at : {"embed", "again", "put"}, new : Record, old : Ids \cup {NoId}]
  /\ removing \subseteq Ids /\ made \in 0..MaxRecords
  /\ conflicts \subseteq Ids \X Ids /\ suppressed \in BOOLEAN
  /\ forgotten \subseteq 1..made

Init ==
  /\ records = <<>> /\ rows = <<>> /\ writes = [w \in Writers |-> NoWrite]
  /\ removing = {} /\ made = 0 /\ conflicts = {} /\ suppressed = FALSE
  /\ forgotten = {}
-----------------------------------------------------------------------------
With(f, i, record) == [j \in DOMAIN f \cup {i} |-> IF j = i THEN record ELSE f[j]]
Without(f, S) == [i \in DOMAIN f \ S |-> f[i]]
current == {i \in DOMAIN records : ~records[i].retired}
Become(w, state) == writes' = [writes EXCEPT ![w] = state]

\* write / propose up to the embedding.  A suppressed session writes nothing from here on.
Write(w, value, source, session) ==
  /\ writes[w] = NoWrite /\ ~(session /\ suppressed)
  /\ Become(w, [at |-> "embed", old |-> NoId,
                new |-> [value |-> value, source |-> source, session |-> session,
                         against |-> NoId, retired |-> FALSE]])
  /\ UNCHANGED <<records, rows, removing, made, conflicts, suppressed, forgotten>>

\* The embedding is back and one record is nearest: said before, superseded by a stronger
\* source, or contradicted.  Superseding retires the old record at once, in the index only,
\* and writes the new one from the start (another embedding, no comparison).
outranks(i, w) == writes[w].new.source = "USER" /\ records[i].source = "AGENT"

Repeats(w, i) ==
  /\ writes[w].at = "embed" /\ i \in current /\ records[i].value = writes[w].new.value
  /\ Become(w, NoWrite)
  /\ UNCHANGED <<records, rows, removing, made, conflicts, suppressed, forgotten>>

Supersedes(w, i) ==
  /\ writes[w].at = "embed" /\ i \in current /\ records[i].value # writes[w].new.value
  /\ outranks(i, w)
  /\ records' = [records EXCEPT ![i].retired = TRUE]
  /\ Become(w, [writes[w] EXCEPT !.at = "again", !.old = i])
  /\ UNCHANGED <<rows, removing, made, conflicts, suppressed, forgotten>>

\* The record of a contradiction is made without the session it was said in.
Contradicts(w, i) ==
  /\ writes[w].at = "embed" /\ i \in current /\ records[i].value # writes[w].new.value
  /\ Become(w, [writes[w] EXCEPT !.at = "put", !.old = i, !.new.against = i,
                                 !.new.session = FALSE])
  /\ UNCHANGED <<records, rows, removing, made, conflicts, suppressed, forgotten>>

Plain(w) ==
  /\ \/ writes[w].at = "embed" /\ current = {}
     \/ writes[w].at = "again"
  /\ Become(w, [writes[w] EXCEPT !.at = "put"])
  /\ UNCHANGED <<records, rows, removing, made, conflicts, suppressed, forgotten>>

\* _store: the table first, the index when that has returned; a contradiction is linked.
Stored(w, kept) ==
  LET id == made + 1 IN
  /\ writes[w].at = "put" /\ made < MaxRecords
  /\ IF kept
     THEN /\ made' = id /\ rows' = With(rows, id, writes[w].new)
          /\ records' = With(records, id, writes[w].new)
          /\ conflicts' = IF writes[w].new.against = NoId THEN conflicts
                          ELSE conflicts \cup {<<writes[w].new.against, id>>}
     ELSE UNCHANGED <<made, rows, records, conflicts>>
  /\ Become(w, NoWrite)
  /\ UNCHANGED <<removing, suppressed, forgotten>>

\* forget: out of the index at once, out of the table when the delete returns.
Forget(S) ==
  /\ S # {} /\ S \subseteq DOMAIN records
  /\ records' = Without(records, S) /\ removing' = removing \cup S
  /\ UNCHANGED <<rows, writes, made, conflicts, suppressed, forgotten>>

RemoveReturns_Index(i, ok) ==
  /\ i \in removing /\ removing' = removing \ {i}
  /\ rows' = rows /\ forgotten' = IF ok THEN forgotten \cup {i} ELSE forgotten
  /\ UNCHANGED <<records, writes, made, conflicts, suppressed>>
RemoveReturns(i, ok) ==
  /\ i \in removing /\ removing' = removing \ {i}
  /\ rows' = IF ok THEN Without(rows, {i}) ELSE rows
  /\ forgotten' = IF ok THEN forgotten \cup {i} ELSE forgotten
  /\ UNCHANGED <<records, writes, made, conflicts, suppressed>>

\* "Don't remember this": nothing more from this session, and what it wrote goes.
Suppress ==
  /\ ~suppressed /\ suppressed' = TRUE
  /\ LET S == {i \in DOMAIN records : records[i].session} IN
       records' = Without(records, S) /\ removing' = removing \cup S
  /\ UNCHANGED <<rows, writes, made, conflicts, forgotten>>

\* kept_old forgets whatever contradicts the old record; every other answer is only noted.
Resolve(c, keepOld) ==
  /\ c \in conflicts /\ conflicts' = conflicts \ {c}
  /\ LET S == {i \in DOMAIN records : keepOld /\ records[i].against = c[1]} IN
       records' = Without(records, S) /\ removing' = removing \cup S
  /\ UNCHANGED <<rows, writes, made, suppressed, forgotten>>

\* The process dies and start() loads the table; conflicts and links are not kept anywhere.
Restart ==
  /\ records' = rows /\ writes' = [w \in Writers |-> NoWrite]
  /\ removing' = {} /\ conflicts' = {} /\ suppressed' = FALSE
  /\ UNCHANGED <<rows, made, forgotten>>

Next ==
  \/ \E w \in Writers :
       \/ \E value \in Values, source \in Sources, session \in BOOLEAN :
            Write(w, value, source, session)
       \/ \E i \in Ids : Repeats(w, i) \/ Supersedes(w, i) \/ Contradicts(w, i)
       \/ Plain(w) \/ \E kept \in BOOLEAN : Stored(w, kept)
  \/ \E i \in Ids : Forget({i}) \/ \E ok \in BOOLEAN : RemoveReturns(i, ok)
  \/ Suppress
  \/ \E c \in conflicts, keepOld \in BOOLEAN : Resolve(c, keepOld)
  \/ Restart

Spec == Init /\ [][Next]_memoryVars
-----------------------------------------------------------------------------
\* "Forgetting reaches the table too, or it is not forgetting": what was answered as
\* forgotten is in neither place, whatever restarts and late writes follow.
ForgottenStaysForgotten == forgotten \cap (DOMAIN records \cup DOMAIN rows) = {}

\* What was answered as remembered is on the table until somebody forgets it, and in the
\* index unless its forgetting is under way: no answer is a lie found after a restart.
RememberedIsKept ==
  /\ 1..made \subseteq DOMAIN rows \cup forgotten
  /\ DOMAIN records \subseteq DOMAIN rows

\* Nobody but the owner retires what the owner said (it can only be forgotten).
OwnerIsNotOverruled ==
  \A i \in DOMAIN records : records[i].source = "USER" => ~records[i].retired

\* "Retired ... so no retrieval can see both as current" and "written through on every
\* change": a record that was retired does not come back as current.
RetiredStaysRetired ==
  [][\A i \in DOMAIN records \cap DOMAIN records' :
       records[i].retired => records'[i].retired]_memoryVars

=============================================================================
