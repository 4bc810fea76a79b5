------------------------- MODULE TaskControl_proofs -------------------------
(***************************************************************************)
(* What TaskControl keeps for every set of tasks, every list limit, and    *)
(* every way writes are delayed, overtaken and refused, proved.  Four      *)
(* invariants carry it: what a row being written may be (Typed), that the  *)
(* row and the dict are one write apart until two writes race (Followed),  *)
(* that only the accepting turn ever writes COMPLETED (Accepted), and what *)
(* a stop has settled so far (Swept).                                      *)
(***************************************************************************)
EXTENDS TaskControl, Selection_proofs, FiniteSetTheorems

\* A session has read the row only once there is a row to write.
Typed ==
  TypeOK /\ \A c \in Callers : write[c].row = Unread => write[c].seen = Unread

Busy(c, t) == write[c] # Idle /\ target(c) = t

\* Until its writes race or fail, a task has at most one under way: it carries the state
\* the task is in, and saw the row that is there.  With none under way the two agree.
Agrees(t) ==
  status[t] = IF status[t] = "INTERRUPTED" THEN Recovered(row[t].status) ELSE row[t].status
Followed ==
  /\ ~Persistent => \A c \in Callers : write[c] = Idle
  /\ \A t \in Tasks : Persistent /\ t \notin raced =>
       /\ \A c \in Callers : Busy(c, t) =>
            /\ write[c].row.status = status[t]
            /\ write[c].seen # Unread => write[c].seen = row[t]
            /\ \A d \in Callers : Busy(d, t) => c = d
       /\ (\A c \in Callers : ~Busy(c, t)) /\ status[t] # Absent => Agrees(t)

\* COMPLETED is written once, by the turn whose verification passed, over rows and beside
\* writes that carry none; what has seen an accepted row under a COMPLETED one has seen it
\* COMPLETED.
Over == {"ended", "raised", "dead"}
Accepted ==
  /\ \A t \in Tasks :
       /\ status[t] = "COMPLETED" => t \in accepted
       /\ t \in accepted => turn[t] \in Over
       /\ row[t].accepted => t \in accepted
       /\ row[t].status = "COMPLETED" => row[t].accepted
  /\ \A c \in Callers : write[c] # Idle =>
       LET t == target(c) IN
       /\ write[c].row.accepted => t \in accepted
       /\ write[c].seen # Unread /\ write[c].seen.accepted => t \in accepted
       /\ write[c].row.status = "COMPLETED" =>
            /\ c = t /\ status[t] = "COMPLETED" /\ write[c].row.accepted /\ ~row[t].accepted
            /\ \A d \in Callers : Busy(d, t) =>
                 /\ write[d].seen # Unread => ~write[d].seen.accepted
                 /\ d # c => ~write[d].row.accepted
       /\ row[t].status = "COMPLETED" /\ write[c].seen # Unread /\ write[c].seen.accepted =>
            write[c].seen.status = "COMPLETED"

\* Between its beginning and its answer, a stop has asked for every cancellation its list
\* is past; the emergency stop has settled them, has no session it found left but on the list
\* it goes through, and locks down when that list is empty; nobody got in its way.
Swept ==
  /\ sweep[Stop].phase = "cancelling" =>
       sweep[Stop].snapshot \subseteq cancelled \cup ToSet(sweep[Stop].left)
  /\ sweep[Stop].phase \in {"disconnecting", "done"} =>
       sweep[Stop].snapshot \subseteq cancelled
  /\ sweep[Emergency].phase = "cancelling" =>
       \A t \in sweep[Emergency].snapshot :
         t \in ToSet(sweep[Emergency].left) \/ status[t] \in Terminal
  /\ sweep[Emergency].phase \in {"disconnecting", "done"} =>
       \A t \in sweep[Emergency].snapshot : status[t] \in Terminal
  /\ sweep[Emergency].phase = "disconnecting" => older \subseteq uncut
  /\ sweep[Emergency].phase = "done" => lockdown /\ older = {}
  /\ sweep[Emergency].phase # "refused"

\* What the lifecycle has to know: a listed task exists, a turn under way drives one that
\* does, and storage, what is being stored and what was read are states the task has had.
Living ==
  /\ \A t \in ToSet(order) : status[t] # Absent
  /\ \A c \in {Stop, Emergency} : \A t \in ToSet(sweep[c].left) : status[t] # Absent
  /\ \A t \in Tasks :
       /\ status[t] # Absent => status[t] \in lived[t]
       /\ turn[t] \in {"created", "planned", "running", "completing"} => status[t] # Absent
       /\ turn[t] = "completing" => status[t] \in {"VERIFYING", "CANCELLED", "FAILED"}
       /\ row[t].status \in lived[t] \cup {Absent}
  /\ \A c \in Callers : write[c] # Idle => write[c].row.status \in lived[target(c)]

-------------------------------------------------------------------------------
(* The vocabulary, and the rows.                                             *)

\* The moves of the table stay within the states, and none leaves a terminal one.
LEMMA MovesNamed ==
  /\ \A s \in TaskState : TASK_TRANSITIONS[s] \in SUBSET TaskState
  /\ \A s \in Terminal : TASK_TRANSITIONS[s] = {}
  /\ \A s \in TaskState : "COMPLETED" \in TASK_TRANSITIONS[s] => s = "VERIFYING"
  /\ \A s \in TaskState : "INTERRUPTED" \in TASK_TRANSITIONS[s] => s = "RUNNING"
  /\ Absent \notin TaskState
BY DEF TASK_TRANSITIONS, TaskState, Terminal, Waiting, GiveUp, Absent

\* A row that was read is not the row of a session that has read nothing.
LEMMA RowsAreRead ==
  /\ Unread \notin RowType
  /\ \A t, s, a : Row(t, s, a) # Unread
<1>1. DOMAIN Unread = {"task"} /\ \A t, s, a : DOMAIN Row(t, s, a) = {"task", "status", "accepted"}
  BY DEF Unread, Row
<1>2. \A r \in RowType : DOMAIN r = {"task", "status", "accepted"}
  BY DEF RowType
<1> QED
  BY <1>1, <1>2

\* What is being written is a row, of a task.
LEMMA WrittenRows ==
  ASSUME Typed, NEW c \in Callers, write[c] # Idle
  PROVE  /\ write[c].row \in RowType /\ target(c) \in Tasks
         /\ write[c].seen \in RowType \cup {Unread}
<1>1. write[c] \in [row : RowType \cup {Unread}, seen : RowType \cup {Unread}]
  BY DEF Typed, TypeOK
<1>2. write[c].row # Unread
  BY <1>1 DEF Typed, Idle
<1> QED
  BY <1>1, <1>2 DEF target, RowType

\* A save keeps the types of what is being written.
LEMMA SaveTypes ==
  ASSUME Typed, NEW c \in Callers, NEW t \in Tasks, Save(c, t),
         status' \in [Tasks -> TaskState \cup {Absent}]
  PROVE  /\ write' \in [Callers -> [row : RowType \cup {Unread}, seen : RowType \cup {Unread}]]
         /\ raced' \in SUBSET Tasks
         /\ \A d \in Callers : write'[d].row = Unread => write'[d].seen = Unread
<1> DEFINE W == [row |-> Row(t, status'[t], t \in accepted'), seen |-> Unread]
<1>1. write' = write \/ write' = [write EXCEPT ![c] = W]
  BY DEF Save
<1>2. W \in [row : RowType \cup {Unread}, seen : RowType \cup {Unread}]
  BY DEF Row, RowType
<1>3. W.seen = Unread
  OBVIOUS
<1>4. raced' \in SUBSET Tasks
  BY DEF Save, Typed, TypeOK
<1> DEFINE Ws == [row : RowType \cup {Unread}, seen : RowType \cup {Unread}]
<1>5. write \in [Callers -> Ws] /\ \A d \in Callers : write[d].row = Unread => write[d].seen = Unread
  BY DEF Typed, TypeOK
<1>6. W \in Ws
  BY <1>2
<1> HIDE DEF W, Ws
<1>7. write' \in [Callers -> Ws]
  BY <1>1, <1>5, <1>6
<1>8. \A d \in Callers : write'[d].row = Unread => write'[d].seen = Unread
  BY <1>1, <1>3, <1>5
<1> QED
  BY <1>4, <1>7, <1>8 DEF Ws

\* Entering a state keeps the types of the states.
LEMMA EnterTypes ==
  ASSUME Typed, NEW t \in Tasks, NEW s \in TaskState, Enter(t, s)
  PROVE  /\ status' \in [Tasks -> TaskState \cup {Absent}]
         /\ lived' \in [Tasks -> SUBSET TaskState]
BY DEF Typed, TypeOK, Enter

\* What a stop lists are tasks that exist.
LEMMA NewestTypes ==
  ASSUME Typed, NEW running \in BOOLEAN
  PROVE  /\ newest(running) \in Seq(Tasks)
         /\ ToSet(newest(running)) \subseteq ToSet(order)
<1> DEFINE S == { t \in Tasks : running => status[t] = "RUNNING" }
           rows == Chosen(order, S)
           n == IF Len(rows) > ListLimit THEN Len(rows) - ListLimit + 1 ELSE 1
           part == SubSeq(rows, n, Len(rows))
<1>1. order \in Seq(Tasks) /\ ListLimit \in Nat \ {0}
  BY ControlAssumption DEF Typed, TypeOK
<1>2. /\ rows \in Seq(Tasks)
      /\ \A i \in 1..Len(rows) : \E j \in 1..Len(order) : order[j] = rows[i]
  <2> HIDE DEF S
  <2> QED
    BY <1>1, ChosenIs
<1> HIDE DEF rows
<1>3. n \in Nat \ {0} /\ Len(rows) \in Nat /\ n \in 1..(Len(rows) + 1)
  BY <1>1, <1>2
<1> HIDE DEF n
<1>4. part \in Seq(Tasks) /\ \A i \in 1..Len(part) : \E j \in 1..Len(rows) : part[i] = rows[j]
  BY <1>2, <1>3
<1>5. newest(running) = Reverse(part)
  BY DEF newest, rows, n
<1> HIDE DEF part
<1>6. /\ Reverse(part) \in Seq(Tasks)
      /\ \A i \in 1..Len(Reverse(part)) : \E j \in 1..Len(part) : Reverse(part)[i] = part[j]
  BY <1>4 DEF Reverse
<1>7. ToSet(Reverse(part)) \subseteq ToSet(order)
  <2> SUFFICES ASSUME NEW i \in 1..Len(Reverse(part)) PROVE Reverse(part)[i] \in ToSet(order)
    BY DEF ToSet
  <2>1. PICK j \in 1..Len(part) : Reverse(part)[i] = part[j]
    BY <1>6
  <2>2. PICK k \in 1..Len(rows) : part[j] = rows[k]
    BY <1>4
  <2>3. PICK l \in 1..Len(order) : order[l] = rows[k]
    BY <1>2
  <2> QED
    BY <2>1, <2>2, <2>3 DEF ToSet
<1> QED
  BY <1>5, <1>6, <1>7

-------------------------------------------------------------------------------
(* The shapes a step has, as far as states and writes are concerned.         *)

\* A caller moves a task, or leaves one that runs where it is, and saves it; or it does neither.
Moves(c, t) ==
  /\ write[c] = Idle /\ Save(c, t)
  /\ (Keep /\ turn[t] = "running") \/ \E s \in TaskState : Enter(t, s)
  /\ UNCHANGED row
Still == Keep /\ UNCHANGED <<write, raced, row>>
Stores(c) == ReadRow(c) \/ WriteLands(c) \/ WriteFails(c)

\* The states the actions name.
LEMMA StatesNamed ==
  {"NEW", "PLANNING", "RUNNING", "VERIFYING", "COMPLETED", "FAILED", "CANCELLED", "PAUSED"}
    \subseteq TaskState
BY DEF TaskState, Waiting, Terminal

\* A turn that asks for a move makes it, or ends without one.
LEMMA TurnMovesShape ==
  ASSUME NEW t \in Tasks, NEW s \in TaskState, NEW next, TurnMoves(t, s, next),
         write[t] = Idle, UNCHANGED row
  PROVE  \/ /\ Moves(t, t) /\ Enter(t, s) /\ Allowed(status[t], s)
            /\ turn' = [turn EXCEPT ![t] = next]
         \/ /\ Still /\ ~Allowed(status[t], s)
            /\ turn' = [turn EXCEPT ![t] = "raised"]
BY DEF TurnMoves, Moves, Still

\* The steps of a turn, by what they do to the states and the writes.
LEMMA TurnShape ==
  ASSUME NEW t \in Tasks, Turn(t)
  PROVE  Moves(t, t) \/ Still
<1> USE StatesNamed
<1>1. CASE CreateTask(t)
  BY <1>1 DEF CreateTask, TurnIs, turnKeeps, Moves
<1>2. CASE Plan(t)
  BY <1>2, TurnMovesShape DEF Plan, TurnIs, turnKeeps
<1>3. CASE Start(t)
  BY <1>3, TurnMovesShape DEF Start, TurnIs, turnKeeps
<1>4. CASE Work(t)
  BY <1>4 DEF Work, TurnIs, turnKeeps, Moves
<1>5. CASE Close(t)
  BY <1>5, TurnMovesShape DEF Close, TurnIs, turnKeeps
<1>6. CASE Complete(t)
  BY <1>6, TurnMovesShape DEF Complete, TurnIs, turnKeeps
<1> QED
  BY <1>1, <1>2, <1>3, <1>4, <1>5, <1>6 DEF Turn

\* The steps of the owner.
OwnerStep(t) == OwnerCancels(t) \/ OwnerPauses(t) \/ OwnerResumes(t)

\* The owner moves one task.
LEMMA OwnerShape ==
  ASSUME NEW t \in Tasks, OwnerStep(t)
  PROVE  Moves(Owner, t)
BY StatesNamed DEF OwnerStep, OwnerCancels, OwnerPauses, OwnerResumes, OwnerMoves, Moves

\* The devices with a session, those still to be let go, those on a session that was found.
LinksTyped ==
  connected \in SUBSET Devices /\ uncut \in SUBSET Devices /\ older \in SUBSET Devices

\* What becomes of the nodes: they are let go, or come and go by themselves.
NodeStep ==
  \E d \in Devices : DisconnectNext(d) \/ DisconnectFails(d) \/ Dial(d) \/ HangUp(d)

\* The steps of the two stops, and the nodes'.
StopStep ==
  \/ \E c \in {Stop, Emergency} : BeginStop(c) \/ CancelNext(c) \/ Cancelled(c) \/ SayAgain(c)
  \/ NodeStep \/ SetLockdown \/ ReleaseLockdown

\* A stop moves one task or none.
LEMMA StopShape ==
  ASSUME Typed, StopStep
  PROVE  Still \/ \E c \in Callers, t \in Tasks : Moves(c, t)
<1> USE DEF stopKeeps, links
<1>1. ASSUME NEW c \in {Stop, Emergency}, CancelNext(c)
      PROVE  Still \/ \E t \in Tasks : Moves(c, t)
  <2> DEFINE t == Head(sweep[c].left)
  <2>1. t \in Tasks
    <3>1. sweep[c].left \in Seq(Tasks) /\ sweep[c].left # <<>>
      BY <1>1 DEF CancelNext, Typed, TypeOK
    <3> QED
      BY <3>1
  <2>2. CASE Still
    BY <2>2
  <2>3. CASE ~Still
    <3>1. write[c] = Idle /\ Enter(t, "CANCELLED") /\ Save(c, t) /\ UNCHANGED row
      BY <1>1, <2>3 DEF CancelNext, Still
    <3> HIDE DEF t
    <3> QED
      BY <2>1, <3>1, StatesNamed DEF Moves
  <2> QED
    BY <2>2, <2>3
<1>2. ASSUME NEW c \in {Stop, Emergency}, BeginStop(c) \/ Cancelled(c) \/ SayAgain(c)
      PROVE  Still
  BY <1>2 DEF BeginStop, Cancelled, SayAgain, Still
<1>3. CASE NodeStep \/ SetLockdown \/ ReleaseLockdown
  BY <1>3 DEF NodeStep, DisconnectNext, DisconnectFails, Disconnects, Dial, HangUp, SetLockdown, ReleaseLockdown, Still
<1>4. {Stop, Emergency} \subseteq Callers
  BY DEF Callers
<1> QED
  BY <1>1, <1>2, <1>3, <1>4 DEF StopStep

\* Every step of the system has one of the shapes.
LEMMA Shapes ==
  ASSUME Typed, Next
  PROVE  \/ \E c \in Callers, t \in Tasks : Moves(c, t)
         \/ Still
         \/ \E c \in Callers : Stores(c)
         \/ Restart
<1>1. Owner \in Callers /\ Tasks \subseteq Callers
  BY DEF Callers
<1> QED
  BY <1>1, TurnShape, OwnerShape, StopShape DEF Next, OwnerStep, StopStep, NodeStep, Stores

-------------------------------------------------------------------------------
(* Types.                                                                    *)

\* The initial state is well typed.
LEMMA TypedInit == Init => Typed
<1> SUFFICES ASSUME Init PROVE Typed
  OBVIOUS
<1>1. Idle \in [row : RowType \cup {Unread}, seen : RowType \cup {Unread}]
  BY DEF Idle
<1>2. \A t \in Tasks : Row(t, Absent, FALSE) \in RowType
  BY DEF Row, RowType
<1>3. NoSweep \in [phase : {"off", "cancelling", "disconnecting", "done", "raised", "refused"},
                   snapshot : SUBSET Tasks, left : Seq(Tasks)]
  BY DEF NoSweep
<1>4. /\ write \in [Callers -> [row : RowType \cup {Unread}, seen : RowType \cup {Unread}]]
      /\ \A c \in Callers : write[c].row = Unread => write[c].seen = Unread
  BY <1>1 DEF Init, Idle
<1>5. row \in [Tasks -> RowType]
  BY <1>2 DEF Init
<1>6. sweep \in [{Stop, Emergency} ->
                  [phase : {"off", "cancelling", "disconnecting", "done", "raised", "refused"},
                   snapshot : SUBSET Tasks, left : Seq(Tasks)]]
  BY <1>3 DEF Init
<1>7. /\ order \in Seq(Tasks) /\ status \in [Tasks -> TaskState \cup {Absent}]
      /\ lived \in [Tasks -> SUBSET TaskState]
  BY DEF Init
<1>8. turn \in [Tasks -> {"none", "created", "planned", "running", "completing", "ended",
                         "raised", "dead"}]
  BY DEF Init
<1>9. /\ accepted \in SUBSET Tasks /\ cancelled \in SUBSET Tasks /\ raced \in SUBSET Tasks
      /\ lockdown \in BOOLEAN /\ LinksTyped
  BY DEF Init, LinksTyped
<1> QED
  BY <1>4, <1>5, <1>6, <1>7, <1>8, <1>9 DEF Typed, TypeOK, LinksTyped

\* The places a turn may be, the phases of a stop, and what a caller may be writing.
Places == {"none", "created", "planned", "running", "completing", "ended", "raised", "dead"}
Sweeps == [phase : {"off", "cancelling", "disconnecting", "done", "raised", "refused"},
           snapshot : SUBSET Tasks, left : Seq(Tasks)]
Writes == [row : RowType \cup {Unread}, seen : RowType \cup {Unread}]

\* A step of any of the shapes keeps the types of the states, the writes and the races.
LEMMA SharedTypes ==
  ASSUME Typed, Next
  PROVE  /\ status' \in [Tasks -> TaskState \cup {Absent}] /\ lived' \in [Tasks -> SUBSET TaskState]
         /\ write' \in [Callers -> Writes] /\ raced' \in SUBSET Tasks
         /\ \A c \in Callers : write'[c].row = Unread => write'[c].seen = Unread
<1>0. /\ status \in [Tasks -> TaskState \cup {Absent}] /\ lived \in [Tasks -> SUBSET TaskState]
      /\ write \in [Callers -> Writes] /\ raced \in SUBSET Tasks /\ row \in [Tasks -> RowType]
      /\ \A c \in Callers : write[c].row = Unread => write[c].seen = Unread
  BY DEF Typed, TypeOK, Writes
<1>i. Idle \in Writes /\ Idle.seen = Unread
  BY DEF Idle, Writes
<1>1. ASSUME NEW c \in Callers, NEW t \in Tasks, Moves(c, t)
      PROVE  /\ status' \in [Tasks -> TaskState \cup {Absent}]
             /\ lived' \in [Tasks -> SUBSET TaskState]
             /\ write' \in [Callers -> Writes] /\ raced' \in SUBSET Tasks
             /\ \A d \in Callers : write'[d].row = Unread => write'[d].seen = Unread
  <2>1. status' \in [Tasks -> TaskState \cup {Absent}] /\ lived' \in [Tasks -> SUBSET TaskState]
    BY <1>0, <1>1, EnterTypes DEF Moves, Keep
  <2> QED
    BY <1>1, <2>1, SaveTypes DEF Moves, Writes
<1>2. CASE Still
  BY <1>0, <1>2 DEF Still, Keep
<1>3. ASSUME NEW c \in Callers, ReadRow(c)
      PROVE  /\ write' \in [Callers -> Writes]
             /\ \A d \in Callers : write'[d].row = Unread => write'[d].seen = Unread
  <2>1. write[c].row \in RowType /\ target(c) \in Tasks
    BY <1>3, WrittenRows DEF ReadRow
  <2>2. write' = [write EXCEPT ![c].seen = row[target(c)]] /\ row[target(c)] \in RowType
    BY <1>0, <1>3, <2>1 DEF ReadRow
  <2> QED
    BY <1>0, <2>1, <2>2, RowsAreRead DEF Writes
<1>4. ASSUME NEW c \in Callers, WriteLands(c) \/ WriteFails(c)
      PROVE  /\ write' \in [Callers -> Writes] /\ raced' \in SUBSET Tasks
             /\ \A d \in Callers : write'[d].row = Unread => write'[d].seen = Unread
  <2>1. target(c) \in Tasks /\ write' = [write EXCEPT ![c] = Idle]
    BY <1>4, WrittenRows DEF WriteLands, WriteFails
  <2>2. raced' = raced \/ raced' = raced \cup {target(c)}
    BY <1>4 DEF WriteLands, WriteFails
  <2> QED
    BY <1>0, <1>i, <2>1, <2>2
<1>5. ASSUME NEW c \in Callers, Stores(c)
      PROVE  /\ status' \in [Tasks -> TaskState \cup {Absent}]
             /\ lived' \in [Tasks -> SUBSET TaskState] /\ raced' \in SUBSET Tasks
  <2>1. UNCHANGED <<status, lived>>
    BY <1>5 DEF Stores, ReadRow, WriteLands, WriteFails, putOnly
  <2>2. raced' \in SUBSET Tasks
    BY <1>0, <1>4, <1>5 DEF Stores, ReadRow
  <2> QED
    BY <1>0, <2>1, <2>2
<1>6. CASE Restart
  <2>1. \A t \in Tasks : Recovered(row[t].status) \in TaskState \cup {Absent}
    BY <1>0 DEF Recovered, RowType, TaskState, Waiting
  <2>2. \A t \in kept : Recovered(row[t].status) \in TaskState
    BY <1>0 DEF Recovered, RowType, TaskState, Waiting, kept
  <2>3. status' = [t \in Tasks |-> IF t \in kept THEN Recovered(row[t].status) ELSE Absent]
    BY <1>6 DEF Restart
  <2>4. lived' = [t \in Tasks |-> IF t \in kept THEN lived[t] \cup {status'[t]} ELSE {}]
    BY <1>6 DEF Restart
  <2>5. write' = [c \in Callers |-> Idle] /\ raced' = raced
    BY <1>6 DEF Restart
  <2>6. lived' \in [Tasks -> SUBSET TaskState]
    BY <1>0, <2>2, <2>3, <2>4
  <2> QED
    BY <1>0, <1>i, <2>1, <2>3, <2>5, <2>6
<1> QED
  BY <1>1, <1>2, <1>3, <1>4, <1>5, <1>6, Shapes DEF Stores

\* A step of a turn keeps the types of what is the turn's own.
LEMMA TurnTypes ==
  ASSUME Typed, NEW t \in Tasks, Turn(t)
  PROVE  /\ order' \in Seq(Tasks) /\ accepted' \in SUBSET Tasks /\ turn' \in [Tasks -> Places]
         /\ UNCHANGED <<cancelled, row, sweep, lockdown, connected, uncut, older>>
<1>0. order \in Seq(Tasks) /\ accepted \in SUBSET Tasks /\ turn \in [Tasks -> Places]
  BY DEF Typed, TypeOK, Places
<1>m. ASSUME NEW s, NEW next \in Places, TurnMoves(t, s, next)
      PROVE  turn' \in [Tasks -> Places]
  BY <1>0, <1>m DEF TurnMoves, Places
<1>p. {"created", "planned", "running", "completing", "ended"} \subseteq Places
  BY DEF Places
<1>1. CASE CreateTask(t)
  BY <1>0, <1>p, <1>1 DEF CreateTask, turnKeeps
<1>2. CASE Plan(t) \/ Start(t) \/ Work(t) \/ Close(t)
  BY <1>0, <1>p, <1>m, <1>2 DEF Plan, Start, Work, Close, turnKeeps
<1>3. CASE Complete(t)
  BY <1>0, <1>p, <1>m, <1>3 DEF Complete, turnKeeps
<1> QED
  BY <1>1, <1>2, <1>3 DEF Turn

\* A step of a stop keeps the types of what is the stop's own.
LEMMA StopTypes ==
  ASSUME Typed, StopStep
  PROVE  /\ cancelled' \in SUBSET Tasks /\ sweep' \in [{Stop, Emergency} -> Sweeps]
         /\ lockdown' \in BOOLEAN /\ LinksTyped'
         /\ UNCHANGED <<order, accepted, turn, row>>
<1> USE DEF stopKeeps, links
<1>0. /\ cancelled \in SUBSET Tasks /\ sweep \in [{Stop, Emergency} -> Sweeps]
      /\ lockdown \in BOOLEAN /\ LinksTyped
  BY DEF Typed, TypeOK, Sweeps, LinksTyped
<1>f. ASSUME NEW c \in {Stop, Emergency}, NEW to \in Sweeps
      PROVE  [sweep EXCEPT ![c] = to] \in [{Stop, Emergency} -> Sweeps]
  BY <1>0
<1>p. ASSUME NEW c \in {Stop, Emergency},
             NEW p \in {"off", "cancelling", "disconnecting", "done", "raised", "refused"}
      PROVE  [sweep EXCEPT ![c].phase = p] \in [{Stop, Emergency} -> Sweeps]
  BY <1>0 DEF Sweeps
<1>1. ASSUME NEW c \in {Stop, Emergency}, BeginStop(c)
      PROVE  sweep' \in [{Stop, Emergency} -> Sweeps]
  <2> DEFINE todo == newest(c = Stop)
  <2>1. todo \in Seq(Tasks)
    BY NewestTypes
  <2> HIDE DEF todo
  <2>2. [phase |-> "cancelling", snapshot |-> ToSet(todo), left |-> todo] \in Sweeps
    BY <2>1 DEF Sweeps, ToSet
  <2>3. sweep' = [sweep EXCEPT ![c] = [phase |-> "cancelling", snapshot |-> ToSet(todo),
                                       left |-> todo]]
    BY <1>1 DEF BeginStop, Begin, todo
  <2> QED
    BY <1>f, <2>2, <2>3
<1>2. ASSUME NEW c \in {Stop, Emergency}, CancelNext(c)
      PROVE  sweep' \in [{Stop, Emergency} -> Sweeps] /\ cancelled' \in SUBSET Tasks
  <2>1. sweep[c].left \in Seq(Tasks) /\ sweep[c].left # <<>>
    BY <1>0, <1>2 DEF CancelNext, Sweeps
  <2>2. Head(sweep[c].left) \in Tasks /\ Tail(sweep[c].left) \in Seq(Tasks)
    BY <2>1
  <2>3. advanced(c) \in [{Stop, Emergency} -> Sweeps]
    BY <1>0, <2>2 DEF advanced, Sweeps
  <2>4. sweep' = advanced(c) \/ sweep' = [sweep EXCEPT ![c].phase = "refused"]
    BY <1>2 DEF CancelNext
  <2>5. cancelled' = cancelled \/ cancelled' = cancelled \cup {Head(sweep[c].left)}
    BY <1>2 DEF CancelNext
  <2> QED
    BY <1>0, <1>p, <2>2, <2>3, <2>4, <2>5
<1>3. ASSUME NEW c \in {Stop, Emergency}, Cancelled(c) \/ SayAgain(c)
      PROVE  sweep' \in [{Stop, Emergency} -> Sweeps]
  <2>1. NoSweep \in Sweeps
    BY DEF NoSweep, Sweeps
  <2> QED
    BY <1>3, <1>p, <1>f, <2>1 DEF Cancelled, SayAgain
<1>4. CASE NodeStep \/ SetLockdown \/ ReleaseLockdown
  <2>1. NoSweep \in Sweeps
    BY DEF NoSweep, Sweeps
  <2>2. CASE NodeStep
    <3>1. PICK d \in Devices : DisconnectNext(d) \/ DisconnectFails(d) \/ Dial(d) \/ HangUp(d)
      BY <2>2 DEF NodeStep
    <3>2. sweep' = sweep \/ sweep' = [sweep EXCEPT ![Emergency].phase = "raised"]
      BY <3>1 DEF DisconnectNext, DisconnectFails, Dial, HangUp
    <3>3. sweep' \in [{Stop, Emergency} -> Sweeps]
      BY <1>0, <1>p, <3>2
    <3>4. LinksTyped' /\ UNCHANGED <<cancelled, lockdown, order, accepted, turn, row>>
      BY <1>0, <3>1
         DEF DisconnectNext, DisconnectFails, Disconnects, Dial, HangUp, LinksTyped
    <3> QED
      BY <1>0, <3>3, <3>4
  <2>3. CASE SetLockdown \/ ReleaseLockdown
    <3>1. sweep' \in [{Stop, Emergency} -> Sweeps]
      BY <2>3, <1>p, <1>f, <2>1 DEF SetLockdown, ReleaseLockdown
    <3> QED
      BY <1>0, <2>3, <3>1 DEF SetLockdown, ReleaseLockdown, LinksTyped
  <2> QED
    BY <1>4, <2>2, <2>3
<1>5. ASSUME NEW c \in {Stop, Emergency}, BeginStop(c) \/ CancelNext(c) \/ Cancelled(c) \/ SayAgain(c)
      PROVE  UNCHANGED <<order, accepted, turn, row, lockdown>> /\ LinksTyped'
  <2>1. UNCHANGED links \/ (uncut' = connected /\ older' = connected /\ connected' = connected)
    BY <1>5 DEF BeginStop, CancelNext, Cancelled, SayAgain
  <2>2. LinksTyped'
    BY <1>0, <2>1 DEF LinksTyped
  <2> QED
    BY <1>5, <2>2 DEF BeginStop, CancelNext, Cancelled, SayAgain
<1>6. ASSUME NEW c \in {Stop, Emergency}, BeginStop(c) \/ Cancelled(c) \/ SayAgain(c)
      PROVE  cancelled' = cancelled
  BY <1>6 DEF BeginStop, Cancelled, SayAgain
<1> QED
  BY <1>0, <1>1, <1>2, <1>3, <1>4, <1>5, <1>6 DEF StopStep

\* Storing keeps the types of everything else.
LEMMA StoreTypes ==
  ASSUME Typed, NEW c \in Callers, Stores(c)
  PROVE  /\ row' \in [Tasks -> RowType] /\ turn' \in [Tasks -> Places]
         /\ sweep' \in [{Stop, Emergency} -> Sweeps]
         /\ UNCHANGED <<order, accepted, cancelled, lockdown, connected, uncut, older>>
<1> USE DEF putOnly
<1>0. /\ row \in [Tasks -> RowType] /\ turn \in [Tasks -> Places]
      /\ sweep \in [{Stop, Emergency} -> Sweeps]
  BY DEF Typed, TypeOK, Places, Sweeps
<1>1. CASE ReadRow(c)
  BY <1>0, <1>1 DEF ReadRow
<1>2. CASE WriteLands(c)
  <2> DEFINE old == row[target(c)]
             new == Committed(write[c].row, write[c].seen, old)
  <2>1. /\ write[c].row \in RowType /\ write[c].seen \in RowType /\ old \in RowType
    BY <1>0, <1>2, WrittenRows DEF WriteLands
  <2>2. new \in RowType
    BY <2>1 DEF Committed, RowType
  <2>3. row' = [row EXCEPT ![target(c)] = new]
    BY <1>2 DEF WriteLands
  <2> HIDE DEF new
  <2> QED
    BY <1>0, <1>2, <2>2, <2>3 DEF WriteLands
<1>3. CASE WriteFails(c)
  <2>1. turn' \in [Tasks -> Places]
    BY <1>0, <1>3 DEF WriteFails, Places
  <2>2. sweep' \in [{Stop, Emergency} -> Sweeps]
    BY <1>0, <1>3 DEF WriteFails, Sweeps
  <2> QED
    BY <1>0, <1>3, <2>1, <2>2 DEF WriteFails
<1> QED
  BY <1>1, <1>2, <1>3 DEF Stores

\* A restart keeps the types of everything it rebuilds.
LEMMA RestartTypes ==
  ASSUME Typed, Restart
  PROVE  /\ order' \in Seq(Tasks) /\ accepted' \in SUBSET Tasks /\ cancelled' \in SUBSET Tasks
         /\ turn' \in [Tasks -> Places] /\ row' \in [Tasks -> RowType]
         /\ sweep' \in [{Stop, Emergency} -> Sweeps]
         /\ lockdown' \in BOOLEAN /\ LinksTyped'
<1>1. order' \in Seq(Tasks)
  BY ChosenIs DEF Restart, Typed, TypeOK
<1>2. NoSweep \in Sweeps
  BY DEF NoSweep, Sweeps
<1>3. sweep' \in [{Stop, Emergency} -> Sweeps]
  BY <1>2 DEF Restart
<1>4. turn' \in [Tasks -> Places] /\ row' \in [Tasks -> RowType]
  BY DEF Restart, Typed, TypeOK, Places
<1> QED
  BY <1>1, <1>3, <1>4 DEF Restart, LinksTyped

\* Every step keeps the types.
LEMMA TypedStep == Typed /\ [Next]_vars => Typed'
<1> SUFFICES ASSUME Typed, [Next]_vars PROVE Typed'
  OBVIOUS
<1> DEFINE Rest == /\ order \in Seq(Tasks) /\ accepted \in SUBSET Tasks /\ cancelled \in SUBSET Tasks
                   /\ turn \in [Tasks -> Places] /\ row \in [Tasks -> RowType]
                   /\ sweep \in [{Stop, Emergency} -> Sweeps]
                   /\ lockdown \in BOOLEAN /\ LinksTyped
<1>0. Rest
  BY DEF Typed, TypeOK, Places, Sweeps, LinksTyped
<1>1. ASSUME NEW t \in Tasks, Turn(t) PROVE Rest'
  BY <1>0, <1>1, TurnTypes DEF LinksTyped
<1>2. ASSUME NEW t \in Tasks, OwnerStep(t) PROVE Rest'
  <2>1. cancelled' = cancelled \/ cancelled' = cancelled \cup {t}
    BY <1>2 DEF OwnerStep, OwnerCancels, OwnerPauses, OwnerResumes
  <2> QED
    BY <1>0, <1>2, <2>1
       DEF OwnerStep, OwnerCancels, OwnerPauses, OwnerResumes, OwnerMoves, LinksTyped
<1>3. StopStep => Rest'
  BY <1>0, StopTypes
<1>4. ASSUME NEW c \in Callers, Stores(c) PROVE Rest'
  BY <1>0, <1>4, StoreTypes DEF LinksTyped
<1>5. Restart => Rest'
  BY RestartTypes
<1>6. CASE Next
  <2>1. Rest'
    BY <1>1, <1>2, <1>3, <1>4, <1>5, <1>6 DEF Next, OwnerStep, StopStep, NodeStep, Stores
  <2> QED
    BY <1>6, <2>1, SharedTypes
       DEF Typed, TypeOK, Places, Sweeps, Writes, LinksTyped
<1>7. CASE UNCHANGED vars
  BY <1>7 DEF vars, Typed, TypeOK
<1> QED
  BY <1>6, <1>7

\* Every state is well typed, whatever is created, saved, overtaken, stopped or restarted.
THEOREM TypeCorrect == Spec => []TypeOK
<1>1. Typed => TypeOK
  BY DEF Typed
<1> QED
  BY <1>1, TypedInit, TypedStep, PTL DEF Spec

-------------------------------------------------------------------------------
(* The row follows the dict.                                                 *)

\* What Followed says of one task.
FollowedOne(t) ==
  Persistent /\ t \notin raced =>
    /\ \A c \in Callers : Busy(c, t) =>
         /\ write[c].row.status = status[t]
         /\ write[c].seen # Unread => write[c].seen = row[t]
         /\ \A d \in Callers : Busy(d, t) => c = d
    /\ (\A c \in Callers : ~Busy(c, t)) /\ status[t] # Absent => Agrees(t)

\* At the start nothing is being written and no task exists.
LEMMA FollowedInit == Init => Followed
BY DEF Init, Followed, Busy

\* A caller's own move leaves one write under way, which carries it.
LEMMA MoveIsFollowed ==
  ASSUME Typed, Followed, NEW c \in Callers, NEW t \in Tasks, Moves(c, t), NEW x \in Tasks
  PROVE  FollowedOne(x)'
<1>0. FollowedOne(x)
  BY DEF Followed, FollowedOne
<1>t. /\ write \in [Callers -> Writes] /\ status \in [Tasks -> TaskState \cup {Absent}]
      /\ write[c] = Idle /\ row' = row
  BY DEF Typed, TypeOK, Writes, Moves
<1> SUFFICES ASSUME Persistent PROVE FollowedOne(x)'
  BY DEF FollowedOne
<1> DEFINE W == [row |-> Row(t, status'[t], t \in accepted'), seen |-> Unread]
<1>1. /\ write' = [write EXCEPT ![c] = W]
      /\ raced' = IF writing(t) = {} THEN raced ELSE raced \cup {t}
  BY DEF Moves, Save
<1>2. W.row.task = t /\ W.row.status = status'[t] /\ W.seen = Unread /\ W # Idle
  <2>1. Row(t, status'[t], t \in accepted') # Unread
    BY RowsAreRead
  <2> QED
    BY <2>1 DEF Row, Idle
<1> HIDE DEF W
<1>3. write'[c] = W /\ \A d \in Callers : d # c => write'[d] = write[d]
  BY <1>t, <1>1
<1>4. CASE x # t
  <2>1. status'[x] = status[x]
    BY <1>t, <1>4 DEF Moves, Keep, Enter
  <2>2. \A d \in Callers : Busy(d, x)' <=> Busy(d, x)
    BY <1>t, <1>2, <1>3, <1>4 DEF Busy, target
  <2>3. \A d \in Callers : Busy(d, x) => write'[d] = write[d]
    BY <1>t, <1>3 DEF Busy
  <2>4. x \notin raced' => x \notin raced
    BY <1>1
  <2> QED
    BY <1>0, <1>t, <2>1, <2>2, <2>3, <2>4 DEF FollowedOne, Agrees
<1>5. CASE x = t
  <2> SUFFICES ASSUME t \notin raced' PROVE FollowedOne(t)'
    BY <1>5 DEF FollowedOne
  <2>1. \A d \in Callers : ~Busy(d, t)
    BY <1>1 DEF writing, Busy
  <2>2. \A d \in Callers : Busy(d, t)' <=> d = c
    BY <1>2, <1>3, <2>1 DEF Busy, target
  <2> QED
    BY <1>2, <1>3, <2>2 DEF FollowedOne
<1> QED
  BY <1>4, <1>5

\* Reading a row, writing it and failing to write it keep the rest as they were; what
\* lands is what the dict says.
LEMMA StoreIsFollowed ==
  ASSUME Typed, Followed, NEW c \in Callers, Stores(c), NEW x \in Tasks
  PROVE  FollowedOne(x)'
<1>0. FollowedOne(x)
  BY DEF Followed, FollowedOne
<1>t. /\ write \in [Callers -> Writes] /\ row \in [Tasks -> RowType] /\ status' = status
      /\ write[c] # Idle /\ target(c) \in Tasks /\ write[c].row \in RowType
  BY WrittenRows
     DEF Typed, TypeOK, Writes, Stores, ReadRow, WriteLands, WriteFails, putOnly
<1>1. CASE ReadRow(c)
  <2>1. /\ write' = [write EXCEPT ![c].seen = row[target(c)]] /\ raced' = raced /\ row' = row
        /\ row[target(c)] # Unread
    BY <1>t, <1>1, RowsAreRead DEF ReadRow
  <2>2. /\ write'[c].row = write[c].row /\ write'[c].seen = row[target(c)]
        /\ \A d \in Callers : d # c => write'[d] = write[d]
    BY <1>t, <2>1 DEF Writes
  <2>3. write'[c] # Idle
    BY <1>t, <2>1, <2>2 DEF Idle
  <2>4. \A d \in Callers : Busy(d, x)' <=> Busy(d, x)
    BY <1>t, <2>2, <2>3 DEF Busy, target
  <2>5. \A d \in Callers : write'[d].row = write[d].row
    BY <2>2
  <2>6. \A d \in Callers : Busy(d, x) => write'[d].seen = write[d].seen \/ write'[d].seen = row[x]
    BY <2>2 DEF Busy
  <2> QED
    BY <1>0, <1>t, <2>1, <2>4, <2>5, <2>6 DEF FollowedOne, Agrees
<1>2. CASE x # target(c) /\ (WriteLands(c) \/ WriteFails(c))
  <2>1. /\ write' = [write EXCEPT ![c] = Idle] /\ raced \subseteq raced' /\ row'[x] = row[x]
    BY <1>t, <1>2 DEF WriteLands, WriteFails
  <2>2. \A d \in Callers : Busy(d, x)' <=> Busy(d, x)
    BY <1>t, <1>2, <2>1 DEF Busy, target
  <2>3. \A d \in Callers : Busy(d, x) => write'[d] = write[d]
    BY <1>t, <1>2, <2>1 DEF Busy
  <2> QED
    BY <1>0, <1>t, <2>1, <2>2, <2>3 DEF FollowedOne, Agrees
<1>3. CASE x = target(c) /\ WriteLands(c)
  <2> SUFFICES ASSUME Persistent, x \notin raced' PROVE FollowedOne(x)'
    BY DEF FollowedOne
  <2>1. Busy(c, x) /\ x \notin raced /\ write[c].seen # Unread
    BY <1>t, <1>3 DEF Busy, WriteLands
  <2>2. /\ write[c].row.status = status[x] /\ write[c].seen = row[x]
        /\ \A d \in Callers : Busy(d, x) => c = d
    BY <1>0, <2>1 DEF FollowedOne
  <2>3. \A d \in Callers : ~Busy(d, x)'
    BY <1>t, <1>3, <2>2 DEF WriteLands, Busy, target
  <2>4. row'[x] = Committed(write[c].row, row[x], row[x])
    BY <1>t, <1>3, <2>2 DEF WriteLands
  <2>5. row'[x].status = status[x]
    BY <1>t, <2>2, <2>4 DEF Committed, RowType
  <2> QED
    BY <1>t, <2>3, <2>5 DEF FollowedOne, Agrees, Recovered
<1>4. CASE x = target(c) /\ WriteFails(c)
  BY <1>4 DEF WriteFails, FollowedOne
<1> QED
  BY <1>1, <1>2, <1>3, <1>4 DEF Stores

\* Without storage nothing is ever being written.
LEMMA NothingStored ==
  ASSUME Followed, Typed, Next, ~Persistent
  PROVE  \A c \in Callers : write'[c] = Idle
<1>1. \A c \in Callers : write[c] = Idle
  BY DEF Followed
<1>2. ASSUME NEW c \in Callers, NEW t \in Tasks, Moves(c, t) PROVE write' = write
  BY <1>2 DEF Moves, Save
<1>3. ASSUME NEW c \in Callers, Stores(c) PROVE FALSE
  BY <1>1, <1>3 DEF Stores, ReadRow, WriteLands, WriteFails
<1> QED
  BY <1>1, <1>2, <1>3, Shapes DEF Still, Restart

\* Every step keeps it.
LEMMA FollowedStep == Typed /\ Followed /\ [Next]_vars => Followed'
<1> SUFFICES ASSUME Typed, Followed, [Next]_vars PROVE Followed'
  OBVIOUS
<1>1. CASE Next
  <2>1. ASSUME NEW x \in Tasks PROVE FollowedOne(x)'
    <3>0. FollowedOne(x)
      BY DEF Followed, FollowedOne
    <3>1. Still => FollowedOne(x)'
      BY <3>0 DEF Still, Keep, FollowedOne, Busy, target, Agrees
    <3>2. Restart => FollowedOne(x)'
      BY DEF Restart, FollowedOne, Busy, Agrees, Recovered
    <3> QED
      BY <1>1, <3>1, <3>2, Shapes, MoveIsFollowed, StoreIsFollowed
  <2> QED
    BY <1>1, <2>1, NothingStored DEF Followed, FollowedOne
<1>2. CASE UNCHANGED vars
  BY <1>2 DEF vars, Followed, Busy, target, Agrees
<1> QED
  BY <1>1, <1>2

\* The table and the dict agree on every task whose writes have neither overlapped nor
\* failed: no move of a task is made that is not also saved.
THEOREM RowAgrees == Spec => []RowAgreesUnlessRaced
<1>1. Typed /\ Followed => RowAgreesUnlessRaced
  BY DEF Followed, Busy, Agrees, RowAgreesUnlessRaced, writing
<1>2. Init => Typed /\ Followed
  BY TypedInit, FollowedInit
<1>3. Typed /\ Followed /\ [Next]_vars => Typed' /\ Followed'
  BY TypedStep, FollowedStep
<1> QED
  BY <1>1, <1>2, <1>3, PTL DEF Spec

-------------------------------------------------------------------------------
(* The stops.                                                                *)

\* Nothing but a restart moves a task out of a terminal state.
LEMMA SettledStays ==
  ASSUME Typed, Next, ~Restart, NEW x \in Tasks, status[x] \in Terminal
  PROVE  status'[x] \in Terminal
<1>0. status \in [Tasks -> TaskState \cup {Absent}] /\ status[x] # Absent
  BY DEF Typed, TypeOK, Terminal, Absent
<1>e. ASSUME NEW t \in Tasks, NEW s \in Terminal, Enter(t, s) PROVE status'[x] \in Terminal
  BY <1>0, <1>e DEF Enter
<1>m. ASSUME NEW t \in Tasks, NEW s \in TaskState, NEW next, TurnMoves(t, s, next)
      PROVE  status'[x] \in Terminal
  BY <1>0, <1>m, MovesNamed DEF TurnMoves, Enter, Keep, Allowed
<1>1. ASSUME NEW t \in Tasks, Turn(t) PROVE status'[x] \in Terminal
  <2> USE StatesNamed
  <2>1. CASE CreateTask(t)
    BY <1>0, <2>1 DEF CreateTask, Enter
  <2>2. CASE Plan(t) \/ Start(t) \/ Close(t) \/ Complete(t)
    BY <2>2, <1>m DEF Plan, Start, Close, Complete
  <2>3. CASE Work(t)
    BY <2>3 DEF Work, Keep
  <2> QED
    BY <1>1, <2>1, <2>2, <2>3 DEF Turn
<1>2. ASSUME NEW t \in Tasks, OwnerStep(t) PROVE status'[x] \in Terminal
  BY <1>0, <1>2
     DEF OwnerStep, OwnerCancels, OwnerPauses, OwnerResumes, OwnerMoves, Enter, Terminal
<1>3. CASE StopStep
  <2>1. ASSUME NEW c \in {Stop, Emergency}, CancelNext(c) PROVE status'[x] \in Terminal
    <3>1. Keep \/ \E t : Enter(t, "CANCELLED")
      BY <2>1 DEF CancelNext
    <3> QED
      BY <1>0, <3>1 DEF Keep, Enter, Terminal
  <2> QED
    BY <1>3, <2>1 DEF StopStep, BeginStop, Cancelled, SayAgain, NodeStep, DisconnectNext, DisconnectFails, Disconnects, Dial, HangUp, SetLockdown,
                      ReleaseLockdown, Keep
<1>4. ASSUME NEW c \in Callers, Stores(c) PROVE status'[x] \in Terminal
  BY <1>4 DEF Stores, ReadRow, WriteLands, WriteFails, putOnly
<1> QED
  BY <1>1, <1>2, <1>3, <1>4 DEF Next, OwnerStep, StopStep, NodeStep, Stores

\* What Swept says of the spoken stop, and of the emergency stop.
Asked(s) ==
  /\ s.phase = "cancelling" => s.snapshot \subseteq cancelled \cup ToSet(s.left)
  /\ s.phase \in {"disconnecting", "done"} => s.snapshot \subseteq cancelled
Settled(s) ==
  /\ s.phase = "cancelling" =>
       \A t \in s.snapshot : t \in ToSet(s.left) \/ status[t] \in Terminal
  /\ s.phase \in {"disconnecting", "done"} => \A t \in s.snapshot : status[t] \in Terminal
  /\ s.phase = "disconnecting" => older \subseteq uncut
  /\ s.phase = "done" => lockdown /\ older = {}
  /\ s.phase # "refused"

\* Swept is the two together.
LEMMA SweptParts == Swept <=> Asked(sweep[Stop]) /\ Settled(sweep[Emergency])
BY DEF Swept, Asked, Settled

\* The list without its head holds everything but the head.
LEMMA HeadAndTail ==
  ASSUME NEW s \in Seq(Tasks), s # <<>>
  PROVE  Head(s) \in Tasks /\ ToSet(s) \subseteq {Head(s)} \cup ToSet(Tail(s))
<1>1. \A i \in 1..Len(s) : i = 1 \/ (i - 1 \in 1..Len(Tail(s)) /\ Tail(s)[i - 1] = s[i])
  OBVIOUS
<1>2. Head(s) = s[1] /\ Head(s) \in Tasks
  OBVIOUS
<1>3. ASSUME NEW x \in ToSet(s) PROVE x = Head(s) \/ x \in ToSet(Tail(s))
  <2>1. PICK i \in 1..Len(s) : x = s[i]
    BY DEF ToSet
  <2>2. i # 1 => x = Tail(s)[i - 1] /\ i - 1 \in 1..Len(Tail(s))
    BY <1>1, <2>1
  <2>3. DOMAIN Tail(s) = 1..Len(Tail(s))
    OBVIOUS
  <2>4. CASE i = 1
    BY <1>2, <2>1, <2>4
  <2>5. CASE i # 1
    <3> DEFINE r == Tail(s)
    <3>1. x = r[i - 1] /\ i - 1 \in DOMAIN r
      BY <2>2, <2>3, <2>5
    <3> HIDE DEF r
    <3>2. x \in ToSet(r)
      BY <3>1 DEF ToSet
    <3> QED
      BY <3>2 DEF r
  <2> QED
    BY <2>4, <2>5
<1> QED
  BY <1>2, <1>3

\* At the start no stop has been said.
LEMMA SweptInit == Init => Swept
BY DEF Init, Swept, NoSweep

\* A step that leaves a stop's own record alone leaves what it settled settled.
LEMMA SweepWaits ==
  ASSUME Typed, Swept, Next, ~Restart,
         cancelled \subseteq cancelled'
  PROVE  /\ sweep'[Stop] = sweep[Stop] => Asked(sweep[Stop])'
         /\ sweep'[Emergency] = sweep[Emergency] /\ UNCHANGED <<lockdown, uncut, older>> =>
              Settled(sweep[Emergency])'
<1>1. \A t \in sweep[Emergency].snapshot : status[t] \in Terminal => status'[t] \in Terminal
  BY SettledStays DEF Typed, TypeOK
<1> QED
  BY <1>1, SweptParts DEF Asked, Settled

\* The two stops are two.
LEMMA StopsDiffer == Stop # Emergency
<1> SUFFICES ASSUME Stop = Emergency PROVE FALSE
  OBVIOUS
<1>1. {Owner, Stop, Emergency} = ({} \cup {Owner}) \cup {Stop}
  OBVIOUS
<1>2. IsFiniteSet({}) /\ Cardinality({}) = 0
  BY FS_EmptySet
<1>3. IsFiniteSet({} \cup {Owner}) /\ Cardinality({} \cup {Owner}) \in {0, 1}
  BY <1>2, FS_AddElement
<1>4. Cardinality(({} \cup {Owner}) \cup {Stop}) \in {0, 1, 2}
  BY <1>3, FS_AddElement
<1> QED
  BY <1>1, <1>4, ControlAssumption

\* Every step keeps it.
LEMMA SweptStep == Typed /\ Living /\ Swept /\ [Next]_vars => Swept'
<1> SUFFICES ASSUME Typed, Living, Swept, [Next]_vars PROVE Swept'
  OBVIOUS
<1> DEFINE Both == Asked(sweep[Stop]) /\ Settled(sweep[Emergency])
<1>g. Both /\ (Both' => Swept')
  BY SweptParts DEF Swept, Asked, Settled
<1> HIDE DEF Both
<1>t. sweep \in [{Stop, Emergency} -> Sweeps] /\ Stop # Emergency
  BY StopsDiffer DEF Typed, TypeOK, Sweeps
<1>1. CASE UNCHANGED vars
  BY <1>1, <1>g DEF vars, Both, Asked, Settled
<1>2. CASE Restart
  BY <1>2 DEF Restart, NoSweep, Swept
<1>3. ASSUME Next, ~Restart PROVE Both'
  <2> USE <1>3
  <2>1. ASSUME UNCHANGED <<sweep, lockdown, uncut, older>>, cancelled \subseteq cancelled'
        PROVE  Both'
    BY <2>1, SweepWaits DEF Both
  <2>2. ASSUME NEW t \in Tasks, Turn(t) PROVE Both'
    BY <2>1, <2>2, TurnTypes
  <2>3. ASSUME NEW t \in Tasks, OwnerStep(t) PROVE Both'
    BY <2>1, <2>3 DEF OwnerStep, OwnerCancels, OwnerPauses, OwnerResumes, OwnerMoves
  <2>4. ASSUME NEW c \in Callers, Stores(c) PROVE Both'
    <3>1. UNCHANGED <<cancelled, lockdown, uncut, older>>
      BY <2>4, StoreTypes
    <3>2. CASE sweep' = sweep
      BY <2>1, <3>1, <3>2
    <3>3. CASE c \in {Stop, Emergency} /\ sweep' = [sweep EXCEPT ![c].phase = "raised"]
      <4>1. /\ c = Stop => sweep'[Emergency] = sweep[Emergency] /\ sweep'[Stop].phase = "raised"
            /\ c = Emergency => sweep'[Stop] = sweep[Stop] /\ sweep'[Emergency].phase = "raised"
        BY <1>t, <3>3 DEF Sweeps
      <4> QED
        BY <3>1, <3>3, <4>1, SweepWaits DEF Both, Asked, Settled
    <3> QED
      BY <2>4, <3>2, <3>3 DEF Stores, ReadRow, WriteLands, WriteFails
  <2>5. ASSUME NEW c \in {Stop, Emergency}, BeginStop(c) PROVE Both'
    <3>1. /\ UNCHANGED <<cancelled, lockdown, uncut, older>>
          /\ sweep' = [sweep EXCEPT ![c] = [phase |-> "cancelling", snapshot |-> ToSet(newest(c = Stop)),
                                            left |-> newest(c = Stop)]]
      BY <2>5 DEF BeginStop, Begin, links
    <3>2. /\ c = Stop => sweep'[Emergency] = sweep[Emergency]
          /\ c = Emergency => sweep'[Stop] = sweep[Stop]
          /\ sweep'[c].phase = "cancelling" /\ sweep'[c].snapshot = ToSet(sweep'[c].left)
      BY <1>t, <3>1
    <3> QED
      BY <3>1, <3>2, SweepWaits DEF Both, Asked, Settled
  <2>6. ASSUME NEW c \in {Stop, Emergency}, CancelNext(c) PROVE Both'
    <3> DEFINE t == Head(sweep[c].left)
    <3>1. /\ UNCHANGED <<lockdown, uncut, older>> /\ cancelled \subseteq cancelled'
          /\ sweep[c].phase = "cancelling" /\ sweep[c].left \in Seq(Tasks) /\ sweep[c].left # <<>>
      BY <1>t, <2>6 DEF CancelNext, Sweeps, links
    <3>2. t \in Tasks /\ ToSet(sweep[c].left) \subseteq {t} \cup ToSet(Tail(sweep[c].left))
      BY <3>1, HeadAndTail
    <3>3. sweep' = advanced(c) \/ sweep' = [sweep EXCEPT ![c].phase = "refused"]
      BY <2>6 DEF CancelNext
    <3>4. /\ c = Stop => sweep'[Emergency] = sweep[Emergency]
          /\ c = Emergency => sweep'[Stop] = sweep[Stop]
      BY <1>t, <3>3 DEF advanced
    <3>5. CASE sweep' = [sweep EXCEPT ![c].phase = "refused"]
      <4>1. sweep'[c].phase = "refused" /\ sweep' # advanced(c)
        <5>1. sweep'[c].phase = "refused"
          BY <1>t, <3>5 DEF Sweeps
        <5>2. advanced(c)[c].phase = "cancelling"
          BY <1>t, <3>1 DEF advanced, Sweeps
        <5> QED
          BY <5>1, <5>2
      <4>2. c # Emergency
        <5> SUFFICES ASSUME c = Emergency PROVE FALSE
          OBVIOUS
        <5>1. ~skips(c, t) /\ status[t] # "CANCELLED" /\ "CANCELLED" \notin TASK_TRANSITIONS[status[t]]
          BY <2>6, <4>1 DEF CancelNext
        <5>2. status[t] \notin Terminal
          BY <5>1 DEF skips
        <5>3. t \in ToSet(sweep[c].left)
          BY <3>1 DEF ToSet
        <5>4. status[t] \in TaskState
          BY <3>2, <5>3 DEF Living, Typed, TypeOK
        <5>5. \A s \in TaskState \ Terminal : "CANCELLED" \in TASK_TRANSITIONS[s]
          BY DEF TASK_TRANSITIONS, TaskState, Terminal, Waiting, GiveUp
        <5> QED
          BY <5>1, <5>2, <5>4, <5>5
      <4> QED
        BY <3>1, <3>4, <4>1, <4>2, SweepWaits DEF Both, Asked
    <3>6. CASE sweep' # [sweep EXCEPT ![c].phase = "refused"]
      <4>1. sweep' = advanced(c)
        BY <3>3, <3>6
      <4>2. /\ sweep'[c].phase = "cancelling" /\ sweep'[c].snapshot = sweep[c].snapshot
            /\ sweep'[c].left = Tail(sweep[c].left)
        BY <1>t, <3>1, <4>1 DEF advanced, Sweeps
      <4>3. CASE c = Stop
        <5>1. t \in cancelled'
          BY <1>t, <2>6, <4>3 DEF CancelNext, skips
        <5>2. Asked(sweep[Stop])'
          BY <1>g, <3>1, <3>2, <4>2, <4>3, <5>1 DEF Both, Asked
        <5> QED
          BY <3>1, <3>4, <4>3, <5>2, SweepWaits DEF Both
      <4>4. CASE c = Emergency
        <5>1. status'[t] \in Terminal
          <6>1. CASE status[t] \in Terminal
            BY <3>2, <6>1, SettledStays
          <6>2. CASE status[t] \notin Terminal
            <7>1. Enter(t, "CANCELLED")
              BY <2>6, <3>6, <6>2 DEF CancelNext, skips, Terminal
            <7> HIDE DEF t
            <7> QED
              BY <3>2, <7>1 DEF Enter, Typed, TypeOK, Terminal
          <6> QED
            BY <6>1, <6>2
        <5>2. \A x \in sweep[c].snapshot : status[x] \in Terminal => status'[x] \in Terminal
          BY <1>t, SettledStays DEF Sweeps
        <5>3. Settled(sweep[Emergency])'
          BY <1>g, <3>1, <3>2, <4>2, <4>4, <5>1, <5>2 DEF Both, Settled
        <5> QED
          BY <3>1, <3>4, <4>4, <5>3, SweepWaits DEF Both
      <4> QED
        BY <4>3, <4>4
    <3> QED
      BY <3>5, <3>6
  <2>7. ASSUME NEW c \in {Stop, Emergency}, Cancelled(c) PROVE Both'
    <3>1. /\ UNCHANGED <<cancelled, lockdown>>
          /\ c = Stop => UNCHANGED <<uncut, older>>
          /\ c # Stop => uncut' = connected /\ older' = connected
          /\ sweep[c].phase = "cancelling" /\ sweep[c].left = <<>>
          /\ sweep' = [sweep EXCEPT ![c].phase = IF c = Stop THEN "done" ELSE "disconnecting"]
      BY <2>7 DEF Cancelled
    <3>2. /\ c = Stop => sweep'[Emergency] = sweep[Emergency]
          /\ c = Emergency => sweep'[Stop] = sweep[Stop]
          /\ sweep'[c].phase = IF c = Stop THEN "done" ELSE "disconnecting"
          /\ sweep'[c].snapshot = sweep[c].snapshot
      BY <1>t, <3>1 DEF Sweeps
    <3>3. ToSet(sweep[c].left) = {}
      BY <3>1 DEF ToSet
    <3>4. c = Stop => Asked(sweep[Stop])'
      BY <1>g, <3>1, <3>2, <3>3 DEF Both, Asked
    <3>5. \A x \in sweep[c].snapshot : status[x] \in Terminal => status'[x] \in Terminal
      BY <1>t, SettledStays DEF Sweeps
    <3>6. c = Emergency => Settled(sweep[Emergency])'
      BY <1>g, <1>t, <3>1, <3>2, <3>3, <3>5 DEF Both, Settled
    <3> QED
      BY <3>1, <3>2, <3>4, <3>6, SweepWaits DEF Both
  <2>8. ASSUME NEW c \in {Stop, Emergency}, SayAgain(c) PROVE Both'
    <3>1. /\ UNCHANGED <<cancelled, lockdown, uncut, older>>
          /\ sweep' = [sweep EXCEPT ![c] = NoSweep]
      BY <2>8 DEF SayAgain, links
    <3>2. /\ c = Stop => sweep'[Emergency] = sweep[Emergency]
          /\ c = Emergency => sweep'[Stop] = sweep[Stop]
          /\ sweep'[c].phase = "off"
      BY <1>t, <3>1 DEF NoSweep
    <3> QED
      BY <3>1, <3>2, SweepWaits DEF Both, Asked, Settled
  <2>9. ASSUME NodeStep \/ SetLockdown \/ ReleaseLockdown PROVE Both'
    <3>1. UNCHANGED <<cancelled, status>> /\ sweep'[Stop] = sweep[Stop]
      BY <1>t, <2>9 DEF NodeStep, DisconnectNext, DisconnectFails, Disconnects, Dial, HangUp, SetLockdown, ReleaseLockdown, Keep
    <3>2. Asked(sweep[Stop])'
      BY <1>g, <3>1 DEF Both, Asked
    <3>3. CASE NodeStep
      <4>1. PICK d \in Devices : DisconnectNext(d) \/ DisconnectFails(d) \/ Dial(d) \/ HangUp(d)
        BY <3>3 DEF NodeStep
      <4>2. lockdown' = lockdown /\ older' = older \ {d}
        BY <4>1 DEF DisconnectNext, DisconnectFails, Disconnects, Dial, HangUp
      <4>3. CASE DisconnectFails(d)
        <5>1. sweep'[Emergency].phase = "raised"
          BY <1>t, <4>3 DEF DisconnectFails, Sweeps
        <5> QED
          BY <3>2, <5>1 DEF Both, Settled
      <4>4. CASE ~DisconnectFails(d)
        <5>1. sweep' = sweep /\ uncut' \in {uncut, uncut \ {d}}
          BY <4>1, <4>4 DEF DisconnectNext, Dial, HangUp
        <5> QED
          BY <1>g, <3>1, <3>2, <4>2, <5>1 DEF Both, Settled
      <4> QED
        BY <4>3, <4>4
    <3>4. CASE SetLockdown
      <4>1. /\ sweep[Emergency].phase = "disconnecting" /\ sweep'[Emergency].phase = "done"
            /\ sweep'[Emergency].snapshot = sweep[Emergency].snapshot
            /\ uncut = {} /\ older' = older /\ lockdown'
        BY <1>t, <3>4 DEF SetLockdown, Sweeps, links
      <4> QED
        BY <1>g, <3>1, <3>2, <4>1 DEF Both, Settled
    <3>5. CASE ReleaseLockdown
      <4>1. sweep'[Emergency].phase = "off"
        BY <1>t, <3>5 DEF ReleaseLockdown, NoSweep
      <4> QED
        BY <3>2, <4>1 DEF Both, Settled
    <3> QED
      BY <2>9, <3>3, <3>4, <3>5
  <2> QED
    BY <2>2, <2>3, <2>4, <2>5, <2>6, <2>7, <2>8, <2>9
       DEF Next, OwnerStep, NodeStep, Stores
<1> QED
  BY <1>g, <1>1, <1>2, <1>3

-------------------------------------------------------------------------------
(* COMPLETED and the verification it needs.                                  *)

\* What Accepted says of one task, and of what one caller is writing.
AcceptedTask(t) ==
  /\ status[t] = "COMPLETED" => t \in accepted
  /\ t \in accepted => turn[t] \in Over
  /\ row[t].accepted => t \in accepted
  /\ row[t].status = "COMPLETED" => row[t].accepted
AcceptedWrite(c, t) ==
  /\ write[c].row.accepted => t \in accepted
  /\ write[c].seen # Unread /\ write[c].seen.accepted => t \in accepted
  /\ write[c].row.status = "COMPLETED" =>
       /\ c = t /\ status[t] = "COMPLETED" /\ write[c].row.accepted /\ ~row[t].accepted
       /\ \A d \in Callers : Busy(d, t) =>
            /\ write[d].seen # Unread => ~write[d].seen.accepted
            /\ d # c => ~write[d].row.accepted
  /\ row[t].status = "COMPLETED" /\ write[c].seen # Unread /\ write[c].seen.accepted =>
       write[c].seen.status = "COMPLETED"

\* Accepted is the two of every task.
LEMMA AcceptedParts ==
  ASSUME Typed
  PROVE  Accepted <=> \A t \in Tasks : /\ AcceptedTask(t)
                                       /\ \A c \in Callers : Busy(c, t) => AcceptedWrite(c, t)
<1>1. \A c \in Callers : write[c] # Idle => target(c) \in Tasks
  BY WrittenRows
<1> QED
  BY <1>1 DEF Accepted, AcceptedTask, AcceptedWrite, Busy

\* At the start nothing has been accepted.
LEMMA AcceptedInit == Init => Accepted
BY DEF Init, Accepted, Row, Absent

\* A turn that is over stays over.
LEMMA OverStaysOver ==
  ASSUME Typed, Next, NEW x \in Tasks, turn[x] \in Over
  PROVE  turn'[x] \in Over
<1>0. turn \in [Tasks -> Places]
  BY DEF Typed, TypeOK, Places
<1>1. ASSUME NEW t \in Tasks, Turn(t) PROVE turn'[x] \in Over
  <2>1. turn[t] \in {"none", "created", "planned", "running", "completing"}
    BY <1>1 DEF Turn, CreateTask, Plan, Start, Work, Close, Complete, TurnIs
  <2>2. \A y \in Tasks : y # t => turn'[y] = turn[y]
    BY <1>0, <1>1 DEF Turn, CreateTask, Plan, Start, Work, Close, Complete, TurnMoves
  <2> QED
    BY <2>1, <2>2 DEF Over
<1>2. ASSUME NEW t \in Tasks, OwnerStep(t) PROVE turn'[x] \in Over
  BY <1>2 DEF OwnerStep, OwnerCancels, OwnerPauses, OwnerResumes, OwnerMoves
<1>3. StopStep => turn'[x] \in Over
  BY StopTypes
<1>4. ASSUME NEW c \in Callers, Stores(c) PROVE turn'[x] \in Over
  BY <1>0, <1>4 DEF Stores, ReadRow, WriteLands, WriteFails, putOnly, Over
<1>5. Restart => turn'[x] \in Over
  BY DEF Restart, Over
<1> QED
  BY <1>1, <1>2, <1>3, <1>4, <1>5 DEF Next, OwnerStep, StopStep, NodeStep, Stores

\* The steps that make or keep a task COMPLETED, and those that do not.
PlainMove(c, t) ==
  Moves(c, t) /\ accepted' = accepted /\ status[t] # "COMPLETED" /\ status'[t] # "COMPLETED"
Accepting(t) ==
  /\ Moves(t, t) /\ Enter(t, "COMPLETED") /\ t \notin accepted
  /\ accepted' = accepted \cup {t} /\ turn'[t] \in Over
Refusing(t) == Still /\ accepted' = accepted \cup {t} /\ turn'[t] \in Over

\* A turn completes its task once, with what it accepts, or is refused.
LEMMA TurnAccepts ==
  ASSUME Typed, Accepted, NEW t \in Tasks, Turn(t)
  PROVE  PlainMove(t, t) \/ Accepting(t) \/ Refusing(t) \/ (Still /\ accepted' = accepted)
<1>0. /\ status \in [Tasks -> TaskState \cup {Absent}] /\ turn \in [Tasks -> Places]
      /\ AcceptedTask(t)
  BY AcceptedParts DEF Typed, TypeOK, Places
<1>1. turn[t] \notin Over
  BY DEF Turn, CreateTask, Plan, Start, Work, Close, Complete, TurnIs, Over
<1>2. status[t] # "COMPLETED" /\ t \notin accepted
  BY <1>0, <1>1 DEF AcceptedTask
<1>m. ASSUME NEW s \in TaskState, NEW next, TurnMoves(t, s, next), TurnIs(t, turn[t]),
             UNCHANGED <<row, accepted>>, s # "COMPLETED"
      PROVE  PlainMove(t, t) \/ (Still /\ accepted' = accepted)
  BY <1>0, <1>2, <1>m, TurnMovesShape DEF TurnIs, PlainMove, Enter
<1> USE StatesNamed DEF turnKeeps
<1>3. CASE CreateTask(t)
  <2>1. Enter(t, "NEW") /\ Save(t, t) /\ write[t] = Idle /\ UNCHANGED <<accepted, row>>
    BY <1>3 DEF CreateTask, TurnIs
  <2>2. status'[t] = "NEW"
    BY <1>0, <2>1 DEF Enter
  <2> QED
    BY <1>2, <2>1, <2>2 DEF PlainMove, Moves
<1>4. CASE Plan(t)
  BY <1>4, <1>m DEF Plan, TurnIs
<1>5. CASE Start(t)
  BY <1>5, <1>m DEF Start, TurnIs
<1>6. CASE Work(t)
  BY <1>2, <1>6 DEF Work, TurnIs, PlainMove, Moves, Keep
<1>7. CASE Close(t)
  BY <1>7, <1>m DEF Close, TurnIs
<1>8. CASE Complete(t)
  <2>1. /\ TurnMoves(t, "COMPLETED", "ended") /\ write[t] = Idle /\ UNCHANGED row
        /\ accepted' = accepted \cup {t}
    BY <1>8 DEF Complete, TurnIs
  <2>2. CASE Moves(t, t) /\ Enter(t, "COMPLETED") /\ turn' = [turn EXCEPT ![t] = "ended"]
    BY <1>0, <1>2, <2>1, <2>2 DEF Accepting, Over
  <2>3. CASE Still /\ turn' = [turn EXCEPT ![t] = "raised"]
    BY <1>0, <2>1, <2>3 DEF Refusing, Over
  <2> QED
    BY <2>1, <2>2, <2>3, TurnMovesShape
<1> QED
  BY <1>3, <1>4, <1>5, <1>6, <1>7, <1>8 DEF Turn

\* Neither the owner nor a stop makes a task COMPLETED, or moves one that is.
LEMMA OthersArePlain ==
  ASSUME Typed
  PROVE  /\ \A t \in Tasks : OwnerStep(t) => PlainMove(Owner, t)
         /\ StopStep => \/ Still /\ accepted' = accepted
                        \/ \E c \in Callers, t \in Tasks : PlainMove(c, t)
<1>0. status \in [Tasks -> TaskState \cup {Absent}]
  BY DEF Typed, TypeOK
<1>1. ASSUME NEW t \in Tasks, OwnerStep(t) PROVE PlainMove(Owner, t)
  <2>1. Moves(Owner, t) /\ accepted' = accepted
    BY <1>1, OwnerShape DEF OwnerStep, OwnerCancels, OwnerPauses, OwnerResumes, OwnerMoves
  <2>2. \E s \in {"CANCELLED", "PAUSED", "RUNNING"} : Enter(t, s)
    BY <1>1 DEF OwnerStep, OwnerCancels, OwnerPauses, OwnerResumes, OwnerMoves
  <2>3. status[t] # "COMPLETED"
    BY <1>1 DEF OwnerStep, OwnerCancels, OwnerPauses, OwnerResumes, Terminal
  <2> QED
    BY <1>0, <2>1, <2>2, <2>3 DEF PlainMove, Enter
<1>2. ASSUME NEW c \in {Stop, Emergency}, CancelNext(c)
      PROVE  (Still /\ accepted' = accepted) \/ \E t \in Tasks : PlainMove(c, t)
  <2> DEFINE t == Head(sweep[c].left)
  <2>1. t \in Tasks
    <3>1. sweep[c].left \in Seq(Tasks) /\ sweep[c].left # <<>>
      BY <1>2 DEF CancelNext, Typed, TypeOK
    <3> QED
      BY <3>1
  <2>2. UNCHANGED <<row, accepted>> /\ write[c] = Idle
    BY <1>2 DEF CancelNext, stopKeeps, links
  <2>3. CASE ~Still
    <3>1. /\ Enter(t, "CANCELLED") /\ Save(c, t)
          /\ "CANCELLED" \in TASK_TRANSITIONS[status[t]]
      BY <1>2, <2>2, <2>3 DEF CancelNext, Still
    <3> HIDE DEF t
    <3>2. status[t] # "COMPLETED"
      BY <3>1, MovesNamed DEF Terminal
    <3>3. status'[t] = "CANCELLED"
      BY <1>0, <2>1, <3>1 DEF Enter
    <3> QED
      BY <2>1, <2>2, <3>1, <3>2, <3>3, StatesNamed DEF PlainMove, Moves
  <2> QED
    BY <2>2, <2>3
<1>3. StopStep /\ (\A c \in {Stop, Emergency} : ~CancelNext(c)) => Still /\ accepted' = accepted
  BY DEF StopStep, BeginStop, Cancelled, SayAgain, NodeStep, DisconnectNext, DisconnectFails, Disconnects, Dial, HangUp, SetLockdown, ReleaseLockdown,
         stopKeeps, links, Still
<1>4. {Stop, Emergency} \subseteq Callers
  BY DEF Callers
<1> QED
  BY <1>1, <1>2, <1>3, <1>4

\* What Accepted says of a task and of what is being written to it.
Sound(t) == AcceptedTask(t) /\ \A c \in Callers : Busy(c, t) => AcceptedWrite(c, t)

\* A task that a step neither moves, accepts, stores nor begins to write stays sound.
LEMMA Untouched ==
  ASSUME Typed, Next, NEW x \in Tasks, Sound(x),
         status'[x] = status[x], row'[x] = row[x], x \in accepted' <=> x \in accepted,
         \A c \in Callers : Busy(c, x)' <=> Busy(c, x),
         \A c \in Callers : Busy(c, x) => write'[c] = write[c]
  PROVE  Sound(x)'
<1>1. AcceptedTask(x)'
  BY OverStaysOver DEF Sound, AcceptedTask
<1>2. ASSUME NEW c \in Callers, Busy(c, x)' PROVE AcceptedWrite(c, x)'
  BY <1>2 DEF Sound, AcceptedWrite
<1> QED
  BY <1>1, <1>2 DEF Sound

\* A caller's save puts what the task is now beside what others are writing.
LEMMA SaveWrites ==
  ASSUME Typed, NEW c \in Callers, NEW t \in Tasks, Moves(c, t)
  PROVE  /\ \A d \in Callers : d # c => write'[d] = write[d]
         /\ \A d \in Callers, x \in Tasks : d # c \/ x # t => (Busy(d, x)' <=> Busy(d, x))
         /\ Busy(c, t)' => /\ write'[c].row.status = status'[t] /\ write'[c].seen = Unread
                           /\ write'[c].row.accepted <=> t \in accepted'
         /\ \A x \in Tasks : ~Busy(c, x)
         /\ \A x \in Tasks : x # t => status'[x] = status[x]
         /\ row' = row
<1>t. /\ write \in [Callers -> Writes] /\ status \in [Tasks -> TaskState \cup {Absent}]
      /\ write[c] = Idle /\ row' = row
  BY DEF Typed, TypeOK, Writes, Moves
<1>1. \A x \in Tasks : ~Busy(c, x)
  BY <1>t DEF Busy
<1>2. \A x \in Tasks : x # t => status'[x] = status[x]
  BY <1>t DEF Moves, Keep, Enter
<1>3. CASE write' = write
  BY <1>t, <1>1, <1>2, <1>3 DEF Busy, target
<1>4. CASE write' # write
  <2> DEFINE W == [row |-> Row(t, status'[t], t \in accepted'), seen |-> Unread]
  <2>1. write' = [write EXCEPT ![c] = W]
    BY <1>4 DEF Moves, Save
  <2>2. /\ W.row.status = status'[t] /\ W.seen = Unread /\ W.row.task = t
        /\ W.row.accepted = (t \in accepted')
    BY DEF Row
  <2> HIDE DEF W
  <2>3. write'[c] = W /\ \A d \in Callers : d # c => write'[d] = write[d]
    BY <1>t, <2>1
  <2> QED
    BY <1>t, <1>1, <1>2, <2>2, <2>3 DEF Busy, target
<1> QED
  BY <1>3, <1>4

\* A move that has nothing to do with COMPLETED keeps every task sound.
LEMMA PlainIsSound ==
  ASSUME Typed, Next, NEW c \in Callers, NEW t \in Tasks, PlainMove(c, t), NEW x \in Tasks, Sound(x)
  PROVE  Sound(x)'
<1>1. Moves(c, t) /\ accepted' = accepted /\ status[t] # "COMPLETED" /\ status'[t] # "COMPLETED"
  BY DEF PlainMove
<1>2. CASE x # t
  BY <1>1, <1>2, SaveWrites, Untouched
<1>3. CASE x = t
  <2>1. AcceptedTask(t)'
    BY <1>1, <1>3, SaveWrites, OverStaysOver DEF Sound, AcceptedTask
  <2>2. Busy(c, t)' => AcceptedWrite(c, t)'
    BY <1>1, SaveWrites DEF AcceptedWrite
  <2>3. ASSUME NEW d \in Callers, d # c, Busy(d, t)' PROVE AcceptedWrite(d, t)'
    <3>1. AcceptedWrite(d, t) /\ write'[d] = write[d] /\ row' = row
      BY <1>1, <1>3, <2>3, SaveWrites DEF Sound
    <3> QED
      BY <1>1, <3>1 DEF AcceptedWrite
  <2> QED
    BY <1>3, <2>1, <2>2, <2>3 DEF Sound
<1> QED
  BY <1>2, <1>3

\* The accepting move writes the one COMPLETED, over a row and beside writes that have none.
LEMMA AcceptingIsSound ==
  ASSUME Typed, Next, NEW t \in Tasks, Accepting(t), NEW x \in Tasks, Sound(x)
  PROVE  Sound(x)'
<1>0. t \in Callers
  BY DEF Callers
<1>1. /\ Moves(t, t) /\ Enter(t, "COMPLETED") /\ t \notin accepted
      /\ accepted' = accepted \cup {t} /\ turn'[t] \in Over
  BY DEF Accepting
<1>2. CASE x # t
  BY <1>0, <1>1, <1>2, SaveWrites, Untouched
<1>3. CASE x = t
  <2>1. status'[t] = "COMPLETED" /\ row' = row
    BY <1>0, <1>1, SaveWrites DEF Enter, Typed, TypeOK
  <2>2. ~row[t].accepted /\ row[t].status # "COMPLETED"
    BY <1>1, <1>3 DEF Sound, AcceptedTask
  <2>3. AcceptedTask(t)'
    BY <1>1, <2>1, <2>2 DEF AcceptedTask
  <2>4. \A d \in Callers : Busy(d, t)' /\ d # t =>
          /\ ~write'[d].row.accepted /\ (write'[d].seen # Unread => ~write'[d].seen.accepted)
          /\ write'[d].row.status # "COMPLETED"
    BY <1>0, <1>1, <1>3, SaveWrites DEF Sound, AcceptedWrite
  <2>5. Busy(t, t)' => write'[t].row.accepted /\ write'[t].seen = Unread
    BY <1>0, <1>1, SaveWrites
  <2>6. ASSUME NEW d \in Callers, Busy(d, t)' PROVE AcceptedWrite(d, t)'
    BY <1>1, <2>1, <2>2, <2>4, <2>5, <2>6 DEF AcceptedWrite
  <2> QED
    BY <1>3, <2>3, <2>6 DEF Sound
<1> QED
  BY <1>2, <1>3

\* A refused completion leaves the states and the rows, and carries its verification.
LEMMA RefusingIsSound ==
  ASSUME Typed, Next, NEW t \in Tasks, Refusing(t), NEW x \in Tasks, Sound(x)
  PROVE  Sound(x)'
<1>1. UNCHANGED <<status, write, row>> /\ accepted' = accepted \cup {t} /\ turn'[t] \in Over
  BY DEF Refusing, Still, Keep
<1>2. AcceptedTask(x)'
  BY <1>1, OverStaysOver DEF Sound, AcceptedTask
<1>3. ASSUME NEW c \in Callers, Busy(c, x)' PROVE AcceptedWrite(c, x)'
  BY <1>1, <1>3 DEF Sound, AcceptedWrite, Busy, target
<1> QED
  BY <1>2, <1>3 DEF Sound

\* Reading a row shows a session what the row says.
LEMMA ReadIsSound ==
  ASSUME Typed, Next, NEW c \in Callers, ReadRow(c), NEW x \in Tasks, Sound(x)
  PROVE  Sound(x)'
<1>t. /\ write \in [Callers -> Writes] /\ row \in [Tasks -> RowType]
      /\ write[c] # Idle /\ target(c) \in Tasks /\ UNCHANGED <<status, accepted, row>>
  BY WrittenRows DEF Typed, TypeOK, Writes, ReadRow, putOnly
<1>1. /\ write'[c].row = write[c].row /\ write'[c].seen = row[target(c)]
      /\ write'[c].seen # Unread
      /\ \A d \in Callers : d # c => write'[d] = write[d]
  BY <1>t, RowsAreRead DEF Writes, ReadRow
<1>2. \A d \in Callers : Busy(d, x)' <=> Busy(d, x)
  BY <1>t, <1>1 DEF Busy, target, Idle
<1>3. CASE x # target(c)
  BY <1>t, <1>1, <1>2, <1>3, Untouched DEF Busy
<1>4. CASE x = target(c)
  <2>1. AcceptedTask(x)'
    BY <1>t, OverStaysOver DEF Sound, AcceptedTask
  <2>2. ASSUME NEW d \in Callers, Busy(d, x)' PROVE AcceptedWrite(d, x)'
    <3>1. AcceptedWrite(d, x) /\ AcceptedTask(x) /\ write'[d].row = write[d].row
      BY <1>1, <1>2, <2>2 DEF Sound
    <3>2. \A e \in Callers : /\ write'[e].row = write[e].row
                             /\ write'[e].seen \in {write[e].seen, row[x]}
      <4>1. ASSUME NEW e \in Callers, e # c PROVE write'[e] = write[e]
        BY <1>1, <4>1
      <4>2. write'[c].row = write[c].row /\ write'[c].seen = row[x]
        BY <1>1, <1>4
      <4> QED
        BY <4>1, <4>2
    <3> QED
      BY <1>t, <1>2, <3>1, <3>2 DEF AcceptedWrite, AcceptedTask
  <2> QED
    BY <2>1, <2>2 DEF Sound
<1> QED
  BY <1>3, <1>4

\* What lands is COMPLETED only with the verification: either it is the accepting turn's
\* own write, over a row and past a session that saw none, or the column was left alone.
LEMMA LandedIsSound ==
  ASSUME Typed, Next, NEW c \in Callers, WriteLands(c) \/ WriteFails(c), NEW x \in Tasks, Sound(x)
  PROVE  Sound(x)'
<1>t. /\ write \in [Callers -> Writes] /\ row \in [Tasks -> RowType]
      /\ write[c] # Idle /\ target(c) \in Tasks /\ UNCHANGED <<status, accepted>>
      /\ write[c].row \in RowType /\ write[c].seen \in RowType /\ write[c].seen # Unread
  BY WrittenRows, RowsAreRead DEF Typed, TypeOK, Writes, WriteLands, WriteFails, putOnly
<1>1. write'[c] = Idle /\ \A d \in Callers : d # c => write'[d] = write[d]
  BY <1>t DEF WriteLands, WriteFails
<1>2. \A d \in Callers : Busy(d, x)' <=> Busy(d, x) /\ d # c
  BY <1>1 DEF Busy, target
<1>3. CASE row'[x] = row[x]
  <2>1. AcceptedTask(x)'
    BY <1>t, <1>3, OverStaysOver DEF Sound, AcceptedTask
  <2>2. ASSUME NEW d \in Callers, Busy(d, x)' PROVE AcceptedWrite(d, x)'
    <3>1. AcceptedWrite(d, x) /\ \A e \in Callers : Busy(e, x)' => Busy(e, x) /\ write'[e] = write[e]
      BY <1>1, <1>2, <2>2 DEF Sound
    <3>2. write'[d] = write[d]
      BY <2>2, <3>1
    <3> QED
      BY <1>t, <1>3, <3>1, <3>2 DEF AcceptedWrite
  <2> QED
    BY <2>1, <2>2 DEF Sound
<1>4. CASE row'[x] # row[x]
  <2>1. x = target(c) /\ row'[x] = Committed(write[c].row, write[c].seen, row[x])
    BY <1>t, <1>4 DEF WriteLands, WriteFails
  <2> DEFINE new == write[c].row
             seen == write[c].seen
             old == row[x]
  <2>2. /\ row'[x].status = IF new.status = seen.status THEN old.status ELSE new.status
        /\ row'[x].accepted = IF new.accepted = seen.accepted THEN old.accepted ELSE new.accepted
    BY <1>t, <2>1 DEF Committed, RowType
  <2>3. Busy(c, x) /\ AcceptedWrite(c, x) /\ AcceptedTask(x)
    BY <1>t, <2>1 DEF Sound, Busy
  <2>b. /\ new.accepted \in BOOLEAN /\ seen.accepted \in BOOLEAN /\ old.accepted \in BOOLEAN
    BY <1>t DEF RowType
  <2>4. row'[x].status = "COMPLETED" => row'[x].accepted
    <3>1. CASE new.status = "COMPLETED" /\ new.status # seen.status
      BY <1>t, <2>2, <2>3, <2>b, <3>1 DEF AcceptedWrite
    <3>2. CASE new.status = seen.status /\ old.status = "COMPLETED"
      BY <1>t, <2>2, <2>3, <2>b, <3>2 DEF AcceptedWrite, AcceptedTask
    <3> QED
      BY <2>2, <3>1, <3>2
  <2>5. row'[x].accepted => x \in accepted
    BY <1>t, <2>2, <2>3 DEF AcceptedWrite, AcceptedTask
  <2>6. AcceptedTask(x)'
    BY <1>t, <2>3, <2>4, <2>5, OverStaysOver DEF AcceptedTask
  <2>7. ASSUME NEW d \in Callers, Busy(d, x)' PROVE AcceptedWrite(d, x)'
    <3>1. AcceptedWrite(d, x) /\ write'[d] = write[d] /\ d # c
      BY <1>1, <1>2, <2>7 DEF Sound
    <3>2. \A e \in Callers : Busy(e, x)' => Busy(e, x) /\ write'[e] = write[e]
      BY <1>1, <1>2
    <3>3. write[d].row.status = "COMPLETED" => ~row'[x].accepted
      BY <1>t, <2>2, <2>3, <3>1 DEF AcceptedWrite
    <3>4. row'[x].status = "COMPLETED" /\ write[d].seen # Unread /\ write[d].seen.accepted =>
            write[d].seen.status = "COMPLETED"
      <4>1. CASE old.status = "COMPLETED"
        BY <3>1, <4>1 DEF AcceptedWrite
      <4>2. CASE new.status = "COMPLETED"
        BY <1>2, <2>3, <2>7, <4>2 DEF AcceptedWrite
      <4> QED
        BY <2>2, <4>1, <4>2
    <3> QED
      BY <1>t, <3>1, <3>2, <3>3, <3>4 DEF AcceptedWrite
  <2> QED
    BY <2>6, <2>7 DEF Sound
<1> QED
  BY <1>3, <1>4

\* A restart loads what the rows say, and a row that says COMPLETED says accepted.
LEMMA RestartIsSound ==
  ASSUME Typed, Restart, NEW x \in Tasks, Sound(x)
  PROVE  Sound(x)'
<1>1. /\ status'[x] = IF x \in kept THEN Recovered(row[x].status) ELSE Absent
      /\ x \in accepted' <=> row[x].accepted
      /\ turn'[x] = IF turn[x] = "none" THEN "none" ELSE "dead"
      /\ row' = row /\ \A c \in Callers : write'[c] = Idle
  BY DEF Restart
<1>2. row[x].accepted => turn'[x] \in Over
  BY <1>1 DEF Sound, AcceptedTask, Over
<1>3. status'[x] = "COMPLETED" => row[x].status = "COMPLETED"
  BY <1>1 DEF Recovered, Absent
<1> QED
  BY <1>1, <1>2, <1>3 DEF Sound, AcceptedTask, Busy

\* Every step keeps it.
LEMMA AcceptedStep == Typed /\ Accepted /\ [Next]_vars => Accepted'
<1> SUFFICES ASSUME Typed, Accepted, [Next]_vars PROVE Accepted'
  OBVIOUS
<1>t. Typed'
  BY TypedStep
<1>1. CASE Next
  <2>1. ASSUME NEW x \in Tasks PROVE Sound(x)'
    <3>0. Sound(x)
      BY AcceptedParts DEF Sound
    <3>1. ASSUME NEW t \in Tasks, Turn(t) PROVE Sound(x)'
      <4>1. CASE Still /\ accepted' = accepted
        BY <1>1, <3>0, <4>1, Untouched DEF Still, Keep, Busy, target
      <4>2. t \in Callers
        BY DEF Callers
      <4> QED
        BY <1>1, <3>0, <3>1, <4>1, <4>2, TurnAccepts, PlainIsSound, AcceptingIsSound,
           RefusingIsSound
    <3>2. ASSUME NEW t \in Tasks, OwnerStep(t) PROVE Sound(x)'
      <4>1. Owner \in Callers
        BY DEF Callers
      <4> QED
        BY <1>1, <3>0, <3>2, <4>1, OthersArePlain, PlainIsSound
    <3>3. ASSUME StopStep PROVE Sound(x)'
      <4>1. CASE Still /\ accepted' = accepted
        BY <1>1, <3>0, <4>1, Untouched DEF Still, Keep, Busy, target
      <4> QED
        BY <1>1, <3>0, <3>3, <4>1, OthersArePlain, PlainIsSound
    <3>4. ASSUME NEW c \in Callers, Stores(c) PROVE Sound(x)'
      BY <1>1, <3>0, <3>4, ReadIsSound, LandedIsSound DEF Stores
    <3>5. Restart => Sound(x)'
      BY <3>0, RestartIsSound
    <3> QED
      BY <1>1, <3>1, <3>2, <3>3, <3>4, <3>5 DEF Next, OwnerStep, StopStep, NodeStep, Stores
  <2>2. (\A x \in Tasks : Sound(x))' => Accepted'
    <3>1. \A c \in Callers : write'[c] # Idle => target(c)' \in Tasks
      <4> SUFFICES ASSUME NEW c \in Callers, write'[c] # Idle PROVE target(c)' \in Tasks
        OBVIOUS
      <4>1. write'[c] \in Writes /\ (write'[c].row = Unread => write'[c].seen = Unread)
        BY <1>t DEF Typed, TypeOK, Writes
      <4>2. write'[c].row \in RowType
        BY <4>1 DEF Writes, Idle
      <4> QED
        BY <4>2 DEF target, RowType
    <3> QED
      BY <3>1 DEF Accepted, Sound, AcceptedTask, AcceptedWrite, Busy
  <2> QED
    BY <2>1, <2>2
<1>2. CASE UNCHANGED vars
  BY <1>2 DEF vars, Accepted, Busy, target
<1> QED
  BY <1>1, <1>2

\* Storage never says COMPLETED without the verification that made it so, whatever the
\* order in which writes land and whichever of them fail.
THEOREM CompletedIsVerified == Spec => []CompletedRowWasVerified
<1>1. Typed /\ Accepted => CompletedRowWasVerified
  BY DEF Accepted, CompletedRowWasVerified
<1>2. Init => Typed /\ Accepted
  BY TypedInit, AcceptedInit
<1>3. Typed /\ Accepted /\ [Next]_vars => Typed' /\ Accepted'
  BY TypedStep, AcceptedStep
<1> QED
  BY <1>1, <1>2, <1>3, PTL DEF Spec

-------------------------------------------------------------------------------
(* The lifecycle.                                                            *)

\* What Living says of the lists, of one task, and of what one caller is writing.
ListsLive ==
  /\ \A t \in ToSet(order) : status[t] # Absent
  /\ \A c \in {Stop, Emergency} : \A t \in ToSet(sweep[c].left) : status[t] # Absent
TaskLives(t) ==
  /\ status[t] # Absent => status[t] \in lived[t]
  /\ turn[t] \in {"created", "planned", "running", "completing"} => status[t] # Absent
  /\ turn[t] = "completing" => status[t] \in {"VERIFYING", "CANCELLED", "FAILED"}
  /\ row[t].status \in lived[t] \cup {Absent}
WritesLive == \A c \in Callers : write[c] # Idle => write[c].row.status \in lived[target(c)]

\* Living is the three together.
LEMMA LivingParts == Living <=> ListsLive /\ (\A t \in Tasks : TaskLives(t)) /\ WritesLive
BY DEF Living, ListsLive, TaskLives, WritesLive

\* At the start no task exists.
LEMMA LivingInit == Init => Living
BY DEF Init, Living, Row, Absent, NoSweep, ToSet

\* Short of a restart no task ceases to exist, and what it has been is remembered.
LEMMA LivesGrow ==
  ASSUME Typed, Next, ~Restart, NEW x \in Tasks
  PROVE  /\ lived[x] \subseteq lived'[x]
         /\ status[x] # Absent => status'[x] # Absent
         /\ status'[x] = status[x] \/ status'[x] \in lived'[x]
<1>0. status \in [Tasks -> TaskState \cup {Absent}] /\ lived \in [Tasks -> SUBSET TaskState]
  BY DEF Typed, TypeOK
<1>1. ASSUME NEW c \in Callers, Stores(c) PROVE UNCHANGED <<status, lived>>
  BY <1>1 DEF Stores, ReadRow, WriteLands, WriteFails, putOnly
<1>2. ASSUME NEW t \in Tasks, NEW s \in TaskState, Enter(t, s)
      PROVE  /\ lived[x] \subseteq lived'[x]
             /\ status[x] # Absent => status'[x] # Absent
             /\ status'[x] = status[x] \/ status'[x] \in lived'[x]
  BY <1>0, <1>2, MovesNamed DEF Enter
<1> QED
  BY <1>1, <1>2, Shapes DEF Moves, Still, Keep

\* Adding to the end of a list adds one member.
LEMMA AppendedSet ==
  ASSUME NEW s \in Seq(Tasks), NEW t \in Tasks
  PROVE  ToSet(Append(s, t)) \subseteq ToSet(s) \cup {t}
<1> SUFFICES ASSUME NEW i \in DOMAIN Append(s, t) PROVE Append(s, t)[i] \in ToSet(s) \cup {t}
  BY DEF ToSet
<1>1. i \in 1..(Len(s) + 1) /\ DOMAIN s = 1..Len(s)
  OBVIOUS
<1>2. CASE i = Len(s) + 1
  BY <1>2
<1>3. CASE i # Len(s) + 1
  <2>1. Append(s, t)[i] = s[i] /\ i \in DOMAIN s
    BY <1>1, <1>3
  <2> QED
    BY <2>1 DEF ToSet
<1> QED
  BY <1>2, <1>3

\* What is on a list exists.
LEMMA ListsStep == Typed /\ ListsLive /\ Next => ListsLive'
<1> SUFFICES ASSUME Typed, ListsLive, Next PROVE ListsLive'
  OBVIOUS
<1>0. /\ order \in Seq(Tasks) /\ sweep \in [{Stop, Emergency} -> Sweeps]
      /\ status \in [Tasks -> TaskState \cup {Absent}] /\ row \in [Tasks -> RowType]
  BY DEF Typed, TypeOK, Sweeps
<1>t. ToSet(order) \subseteq Tasks /\ \A c \in {Stop, Emergency} : ToSet(sweep[c].left) \subseteq Tasks
  <2>1. \A s \in Seq(Tasks) : ToSet(s) \subseteq Tasks
    BY DEF ToSet
  <2> QED
    BY <1>0, <2>1 DEF Sweeps
<1>g. ASSUME ~Restart, NEW x \in Tasks, status[x] # Absent PROVE status'[x] # Absent
  BY <1>g, LivesGrow
<1>1. ASSUME Restart PROVE ListsLive'
  <2>1. ASSUME NEW x \in ToSet(order)' PROVE status'[x] # Absent
    <3>1. PICK i \in DOMAIN order' : order'[i] = x
      BY DEF ToSet
    <3>2. order' \in Seq(Tasks) /\ order' = Chosen(order, kept)
      BY <1>1, RestartTypes DEF Restart
    <3>3. DOMAIN order' = 1..Len(order')
      BY <3>2
    <3>4. x \in kept
      BY <1>0, <3>1, <3>2, <3>3, ChosenIs
    <3>5. status'[x] = Recovered(row[x].status) /\ x \in Tasks
      BY <1>1, <3>4 DEF Restart, kept
    <3> QED
      BY <3>4, <3>5 DEF kept, Recovered, Absent
  <2>2. \A c \in {Stop, Emergency} : sweep'[c].left = <<>>
    BY <1>1 DEF Restart, NoSweep
  <2>3. ToSet(<<>>) = {}
    BY DEF ToSet
  <2> QED
    BY <2>1, <2>2, <2>3 DEF ListsLive
<1>2. ASSUME ~Restart PROVE ListsLive'
  <2> DEFINE Short(c) == ToSet(sweep'[c].left) \subseteq ToSet(sweep[c].left) \cup ToSet(order)
  <2>1. (\A c \in {Stop, Emergency} : Short(c)) /\ order' = order => ListsLive'
    BY <1>2, <1>t, <1>g DEF ListsLive
  <2>2. ASSUME NEW t \in Tasks, Turn(t) PROVE ListsLive'
    <3>1. sweep' = sweep
      BY <2>2, TurnTypes
    <3>2. CASE CreateTask(t)
      <4>1. order' = Append(order, t) /\ status'[t] # Absent
        BY <1>0, <3>2 DEF CreateTask, Enter, Absent
      <4>2. ToSet(order') \subseteq ToSet(order) \cup {t}
        BY <1>0, <4>1, AppendedSet
      <4> QED
        BY <1>2, <1>t, <1>g, <3>1, <4>1, <4>2 DEF ListsLive
    <3>3. CASE ~CreateTask(t)
      <4>1. order' = order
        BY <2>2, <3>3 DEF Turn, Plan, Start, Work, Close, Complete
      <4> QED
        BY <2>1, <3>1, <4>1
    <3> QED
      BY <3>2, <3>3
  <2>3. ASSUME NEW t \in Tasks, OwnerStep(t) PROVE ListsLive'
    BY <2>1, <2>3 DEF OwnerStep, OwnerCancels, OwnerPauses, OwnerResumes, OwnerMoves
  <2>4. ASSUME StopStep PROVE ListsLive'
    <3>0. order' = order
      BY <2>4, StopTypes
    <3>n. ToSet(NoSweep.left) = {}
      BY DEF NoSweep, ToSet
    <3>p. ASSUME NEW c \in {Stop, Emergency}, NEW p,
                 sweep' = [sweep EXCEPT ![c].phase = p]
          PROVE  \A d \in {Stop, Emergency} : Short(d)
      <4>1. \A d \in {Stop, Emergency} : sweep'[d].left = sweep[d].left
        BY <1>0, <3>p DEF Sweeps
      <4> QED
        BY <4>1
    <3>o. ASSUME NEW c \in {Stop, Emergency}, sweep' = [sweep EXCEPT ![c] = NoSweep]
          PROVE  \A d \in {Stop, Emergency} : Short(d)
      BY <1>0, <3>n, <3>o
    <3>1. ASSUME NEW c \in {Stop, Emergency}, BeginStop(c) PROVE \A d \in {Stop, Emergency} : Short(d)
      <4>1. sweep' = [sweep EXCEPT ![c] = [phase |-> "cancelling", snapshot |-> ToSet(newest(c = Stop)),
                                          left |-> newest(c = Stop)]]
        BY <3>1 DEF BeginStop, Begin
      <4>2. /\ sweep'[c].left = newest(c = Stop)
            /\ \A d \in {Stop, Emergency} : d # c => sweep'[d] = sweep[d]
        BY <1>0, <4>1
      <4> QED
        BY <4>2, NewestTypes
    <3>2. ASSUME NEW c \in {Stop, Emergency}, CancelNext(c) PROVE \A d \in {Stop, Emergency} : Short(d)
      <4>1. CASE sweep' = advanced(c)
        <5>1. sweep[c].left \in Seq(Tasks) /\ sweep[c].left # <<>>
          BY <1>0, <3>2 DEF CancelNext, Sweeps
        <5>2. ToSet(Tail(sweep[c].left)) \subseteq ToSet(sweep[c].left)
          <6> DEFINE l == sweep[c].left
          <6>1. \A i \in DOMAIN Tail(l) : i + 1 \in DOMAIN l /\ Tail(l)[i] = l[i + 1]
            BY <5>1
          <6> HIDE DEF l
          <6> QED
            BY <6>1 DEF ToSet, l
        <5>3. /\ sweep'[c].left = Tail(sweep[c].left)
              /\ \A d \in {Stop, Emergency} : d # c => sweep'[d] = sweep[d]
          BY <1>0, <4>1 DEF advanced, Sweeps
        <5> QED
          BY <5>2, <5>3
      <4> QED
        BY <3>2, <3>p, <4>1 DEF CancelNext
    <3>3. ASSUME NEW c \in {Stop, Emergency}, Cancelled(c) \/ SayAgain(c)
          PROVE  \A d \in {Stop, Emergency} : Short(d)
      BY <3>3, <3>p, <3>o DEF Cancelled, SayAgain
    <3>4. ASSUME NodeStep \/ SetLockdown \/ ReleaseLockdown
          PROVE  \A d \in {Stop, Emergency} : Short(d)
      BY <3>4, <3>p, <3>o DEF NodeStep, DisconnectNext, DisconnectFails, Disconnects, Dial, HangUp, SetLockdown, ReleaseLockdown
    <3> HIDE DEF Short
    <3> QED
      BY <2>1, <2>4, <3>0, <3>1, <3>2, <3>3, <3>4 DEF StopStep
  <2>5. ASSUME NEW c \in Callers, Stores(c) PROVE ListsLive'
    <3>1. order' = order
      BY <2>5, StoreTypes
    <3>2. \A d \in {Stop, Emergency} : sweep'[d].left = sweep[d].left
      BY <1>0, <2>5 DEF Stores, ReadRow, WriteLands, WriteFails, Sweeps
    <3> QED
      BY <2>1, <3>1, <3>2
  <2> QED
    BY <1>2, <2>2, <2>3, <2>4, <2>5 DEF Next, OwnerStep, StopStep, NodeStep, Stores
<1> QED
  BY <1>1, <1>2

\* A turn that is under way drives a task that exists, and one that is completing a task
\* can only have been overtaken by a cancellation.
LEMMA TurnLives ==
  ASSUME Typed, NEW x \in Tasks, TaskLives(x), ListsLive, Next, ~Restart
  PROVE  /\ turn'[x] \in {"created", "planned", "running", "completing"} => status'[x] # Absent
         /\ turn'[x] = "completing" => status'[x] \in {"VERIFYING", "CANCELLED", "FAILED"}
<1>0. /\ status \in [Tasks -> TaskState \cup {Absent}] /\ turn \in [Tasks -> Places]
      /\ lived \in [Tasks -> SUBSET TaskState]
  BY DEF Typed, TypeOK, Places
<1>g. status[x] # Absent => status'[x] # Absent
  BY LivesGrow
<1>1. ASSUME turn'[x] = turn[x],
             turn[x] = "completing" => status'[x] \in {status[x], "CANCELLED"}
      PROVE  /\ turn'[x] \in {"created", "planned", "running", "completing"} => status'[x] # Absent
             /\ turn'[x] = "completing" => status'[x] \in {"VERIFYING", "CANCELLED", "FAILED"}
  BY <1>1, <1>g DEF TaskLives
<1>2. ASSUME NEW t \in Tasks, Turn(t)
      PROVE  /\ turn'[x] \in {"created", "planned", "running", "completing"} => status'[x] # Absent
             /\ turn'[x] = "completing" => status'[x] \in {"VERIFYING", "CANCELLED", "FAILED"}
  <2>1. CASE x # t
    <3>1. turn'[x] = turn[x]
      BY <1>0, <1>2, <2>1 DEF Turn, CreateTask, Plan, Start, Work, Close, Complete, TurnMoves
    <3>2. status'[x] = status[x]
      BY <1>0, <1>2, <2>1
         DEF Turn, CreateTask, Plan, Start, Work, Close, Complete, TurnMoves, Enter, Keep
    <3> QED
      BY <1>1, <3>1, <3>2
  <2>2. CASE x = t
    <3> USE StatesNamed
    <3>1. CASE CreateTask(t)
      BY <1>0, <2>2, <3>1, MovesNamed DEF CreateTask, Enter
    <3>2. CASE Plan(t) \/ Start(t)
      BY <1>0, <1>g, <2>2, <3>2, MovesNamed DEF Plan, Start, TurnIs, TurnMoves, Enter, TaskLives
    <3>3. CASE Work(t)
      BY <1>1, <2>2, <3>3 DEF Work, Keep
    <3>4. CASE Close(t)
      BY <1>0, <2>2, <3>4, MovesNamed DEF Close, TurnMoves, Enter
    <3>5. CASE Complete(t)
      BY <1>0, <2>2, <3>5 DEF Complete, TurnMoves
    <3> QED
      BY <1>2, <3>1, <3>2, <3>3, <3>4, <3>5 DEF Turn
  <2> QED
    BY <2>1, <2>2
<1>3. ASSUME NEW t \in Tasks, OwnerStep(t)
      PROVE  turn'[x] = turn[x] /\ (turn[x] = "completing" => status'[x] \in {status[x], "CANCELLED"})
  BY <1>0, <1>3
     DEF OwnerStep, OwnerCancels, OwnerPauses, OwnerResumes, OwnerMoves, Enter, TaskLives
<1>4. ASSUME StopStep
      PROVE  turn'[x] = turn[x] /\ status'[x] \in {status[x], "CANCELLED"}
  <2>1. turn'[x] = turn[x]
    BY <1>4, StopTypes
  <2>2. Keep \/ \E t : Enter(t, "CANCELLED")
    BY <1>4 DEF StopStep, BeginStop, CancelNext, Cancelled, SayAgain, NodeStep, DisconnectNext, DisconnectFails, Disconnects, Dial, HangUp, SetLockdown,
                ReleaseLockdown
  <2> QED
    BY <1>0, <2>1, <2>2 DEF Keep, Enter
<1>5. ASSUME NEW c \in Callers, Stores(c)
      PROVE  /\ turn'[x] \in {"created", "planned", "running", "completing"} => status'[x] # Absent
             /\ turn'[x] = "completing" => status'[x] \in {"VERIFYING", "CANCELLED", "FAILED"}
  <2>1. status' = status /\ (turn'[x] = turn[x] \/ turn'[x] = "raised")
    BY <1>0, <1>5 DEF Stores, ReadRow, WriteLands, WriteFails, putOnly
  <2> QED
    BY <2>1 DEF TaskLives
<1> QED
  BY <1>1, <1>2, <1>3, <1>4, <1>5 DEF Next, OwnerStep, StopStep, NodeStep, Stores

\* What is written is a state the task has had.
LEMMA WritesStep ==
  ASSUME Typed, WritesLive, \A t \in Tasks : TaskLives(t), ListsLive, Next
  PROVE  WritesLive' /\ \A t \in Tasks : TaskLives(t)'
<1>0. /\ status \in [Tasks -> TaskState \cup {Absent}] /\ lived \in [Tasks -> SUBSET TaskState]
      /\ write \in [Callers -> Writes] /\ row \in [Tasks -> RowType]
  BY DEF Typed, TypeOK, Writes
<1>1. ASSUME Restart, NEW x \in Tasks PROVE TaskLives(x)' /\ WritesLive'
  <2>1. /\ status'[x] = IF x \in kept THEN Recovered(row[x].status) ELSE Absent
        /\ turn'[x] \in {"none", "dead"} /\ row' = row /\ write' = [c \in Callers |-> Idle]
        /\ lived'[x] = IF x \in kept THEN lived[x] \cup {status'[x]} ELSE {}
    BY <1>1 DEF Restart
  <2>2. row[x].status = Absent => x \notin kept
    BY DEF kept
  <2>3. x \notin kept => row[x].status = Absent
    BY DEF kept
  <2> QED
    BY <2>1, <2>2, <2>3 DEF TaskLives, WritesLive
<1>2. ASSUME ~Restart, NEW x \in Tasks, row'[x] = row[x] PROVE TaskLives(x)'
  BY <1>2, LivesGrow, TurnLives DEF TaskLives
<1>3. ASSUME ~Restart, NEW c \in Callers, NEW t \in Tasks, Moves(c, t)
      PROVE  WritesLive' /\ \A x \in Tasks : TaskLives(x)'
  <2>1. row' = row /\ \A d \in Callers : d # c => write'[d] = write[d]
    BY <1>3, SaveWrites
  <2>2. \A x \in Tasks : TaskLives(x)'
    BY <1>2, <1>3, <2>1
  <2>3. ASSUME NEW d \in Callers, write'[d] # Idle PROVE write'[d].row.status \in lived'[target(d)']
    <3>1. CASE write'[d] = write[d]
      <4>1. target(d) \in Tasks /\ target(d)' = target(d)
        BY <2>3, <3>1, WrittenRows DEF target
      <4> QED
        BY <1>3, <2>3, <3>1, <4>1, LivesGrow DEF WritesLive
    <3>2. CASE write'[d] # write[d]
      <4> DEFINE W == [row |-> Row(t, status'[t], t \in accepted'), seen |-> Unread]
      <4>1. d = c /\ write' = [write EXCEPT ![c] = W]
        BY <1>3, <2>1, <3>2 DEF Moves, Save
      <4>2. W.row.status = status'[t] /\ W.row.task = t
        BY DEF Row
      <4> HIDE DEF W
      <4>3. write'[d].row.status = status'[t] /\ target(d)' = t
        BY <1>0, <4>1, <4>2 DEF target
      <4>4. status'[t] # Absent
        BY <1>0, <1>3, MovesNamed DEF Moves, Keep, Enter, TaskLives
      <4> QED
        BY <1>3, <2>2, <4>3, <4>4 DEF TaskLives
    <3> QED
      BY <3>1, <3>2
  <2> QED
    BY <2>2, <2>3 DEF WritesLive
<1>4. ASSUME ~Restart, NEW c \in Callers, Stores(c)
      PROVE  WritesLive' /\ \A x \in Tasks : TaskLives(x)'
  <2>0. /\ UNCHANGED <<status, lived>> /\ write[c] # Idle /\ target(c) \in Tasks
        /\ \A d \in Callers : d # c => write'[d] = write[d]
    BY <1>0, <1>4, WrittenRows DEF Stores, ReadRow, WriteLands, WriteFails, putOnly
  <2>1. write'[c] = Idle \/ write'[c].row = write[c].row
    BY <1>0, <1>4 DEF Stores, ReadRow, WriteLands, WriteFails, Writes
  <2>2. WritesLive'
    BY <2>0, <2>1 DEF WritesLive, target
  <2>3. ASSUME NEW x \in Tasks PROVE TaskLives(x)'
    <3>1. CASE row'[x] = row[x]
      BY <1>2, <1>4, <3>1
    <3>2. CASE row'[x] # row[x]
      <4>1. /\ row'[x] = Committed(write[c].row, write[c].seen, row[x]) /\ x = target(c)
            /\ write[c].seen # Unread
        BY <1>0, <1>4, <2>0, <3>2 DEF Stores, ReadRow, WriteLands, WriteFails
      <4>2. row'[x].status \in {write[c].row.status, row[x].status}
        <5>1. write[c].row \in RowType
          BY <2>0, WrittenRows
        <5> QED
          BY <4>1, <5>1 DEF Committed, RowType
      <4>3. write[c].row.status \in lived[x]
        BY <2>0, <4>1 DEF WritesLive
      <4>4. row'[x].status \in lived'[x] \cup {Absent}
        BY <2>0, <4>2, <4>3 DEF TaskLives
      <4> QED
        BY <1>4, <2>0, <4>4, TurnLives DEF TaskLives
    <3> QED
      BY <3>1, <3>2
  <2> QED
    BY <2>2, <2>3
<1>5. ASSUME ~Restart, Still PROVE WritesLive' /\ \A x \in Tasks : TaskLives(x)'
  BY <1>2, <1>5 DEF Still, Keep, WritesLive, target
<1>6. Restart => WritesLive'
  BY DEF Restart, WritesLive
<1> QED
  BY <1>1, <1>3, <1>4, <1>5, <1>6, Shapes

\* Every step keeps it.
LEMMA LivingStep == Typed /\ Living /\ [Next]_vars => Living'
<1>1. Typed /\ Living /\ Next => ListsLive' /\ WritesLive' /\ \A t \in Tasks : TaskLives(t)'
  BY LivingParts, ListsStep, WritesStep
<1>2. ListsLive' /\ WritesLive' /\ (\A t \in Tasks : TaskLives(t)') => Living'
  BY DEF Living, ListsLive, WritesLive, TaskLives
<1>3. Living /\ UNCHANGED vars => Living'
  BY DEF vars, Living, target
<1> QED
  BY <1>1, <1>2, <1>3

-------------------------------------------------------------------------------
(* The stops.                                                                *)

\* A stop that answers has asked for every cancellation on its list; an emergency stop that
\* answers has settled them, ended every session it found and locked down, and no task that
\* moved while it waited made it give up.  That a listed task exists is needed for the last.
THEOREM StopsAreWhole == Spec => []AnsweredStopIsWhole
<1>1. Typed /\ Living /\ Swept => AnsweredStopIsWhole
  BY DEF Swept, AnsweredStopIsWhole
<1>2. Init => Typed /\ Living /\ Swept
  BY TypedInit, LivingInit, SweptInit
<1>3. Typed /\ Living /\ Swept /\ [Next]_vars => Typed' /\ Living' /\ Swept'
  BY TypedStep, LivingStep, SweptStep
<1> QED
  BY <1>1, <1>2, <1>3, PTL DEF Spec

-------------------------------------------------------------------------------
(* TaskControl implements TaskLifecycle.                                     *)

\* The lifecycle speaks of the same states, and of the same table.
LEMMA SameVocabulary ==
  /\ Lifecycle!TaskState = TaskState /\ Lifecycle!Absent = Absent
  /\ Lifecycle!TASK_TRANSITIONS = TASK_TRANSITIONS
  /\ \A s : Lifecycle!Recovered(s) = Recovered(s)
<1>1. /\ Lifecycle!TaskState = TaskState /\ Lifecycle!Absent = Absent
      /\ Lifecycle!Waiting = Waiting /\ Lifecycle!GiveUp = GiveUp
      /\ Lifecycle!Terminal = Terminal
  BY DEF Lifecycle!TaskState, TaskState, Lifecycle!Absent, Absent, Lifecycle!Waiting, Waiting,
         Lifecycle!GiveUp, GiveUp, Lifecycle!Terminal, Terminal
<1>2. Lifecycle!TASK_TRANSITIONS = TASK_TRANSITIONS
  BY <1>1 DEF Lifecycle!TASK_TRANSITIONS, TASK_TRANSITIONS
<1>3. \A s : Lifecycle!Recovered(s) = Recovered(s)
  BY DEF Lifecycle!Recovered, Recovered
<1> QED
  BY <1>1, <1>2, <1>3

\* The steps of the lifecycle that enter a state: a creation, a move, an acceptance.
LEMMA MoveIsPromised ==
  ASSUME Typed, Living, NEW t \in Tasks, NEW s \in TaskState, Enter(t, s), accepted' = accepted,
         status[t] \in TaskState, Allowed(status[t], s), s \notin {"INTERRUPTED", "COMPLETED"}
  PROVE  Lifecycle!Move(t, s) \/ UNCHANGED Lifecycle!vars
<1>0. status \in [Tasks -> TaskState \cup {Absent}] /\ lived \in [Tasks -> SUBSET TaskState]
  BY DEF Typed, TypeOK
<1>1. CASE s = status[t]
  <2>1. status[t] \in lived[t]
    BY MovesNamed DEF Living
  <2> QED
    BY <1>0, <1>1, <2>1 DEF Enter, Lifecycle!vars
<1>2. CASE s # status[t]
  <2>1. s \in TASK_TRANSITIONS[status[t]] \ {"INTERRUPTED", "COMPLETED"}
    BY <1>2 DEF Allowed
  <2>2. Lifecycle!Enter(t, s)
    BY DEF Enter, Lifecycle!Enter
  <2> QED
    BY <2>1, <2>2, SameVocabulary DEF Lifecycle!Move
<1> QED
  BY <1>1, <1>2

\* A step of a turn is one the lifecycle allows.
LEMMA TurnIsPromised ==
  ASSUME Typed, Accepted, Living, NEW t \in Tasks, Turn(t)
  PROVE  Lifecycle!Next \/ UNCHANGED Lifecycle!vars
<1>0. /\ status \in [Tasks -> TaskState \cup {Absent}] /\ turn \in [Tasks -> Places]
      /\ TaskLives(t)
  BY LivingParts DEF Typed, TypeOK, Places
<1> USE StatesNamed
<1>1. CASE CreateTask(t)
  <2>1. status[t] = Absent /\ Enter(t, "NEW") /\ accepted' = accepted
    BY <1>1 DEF CreateTask
  <2>2. Lifecycle!Create(t)
    BY <2>1 DEF Lifecycle!Create, Lifecycle!Enter, Lifecycle!Absent, Enter, Absent
  <2> QED
    BY <2>2 DEF Lifecycle!Next
<1>m. ASSUME NEW s \in {"PLANNING", "RUNNING", "VERIFYING", "FAILED"}, NEW next,
             TurnMoves(t, s, next), turn[t] \in {"created", "planned", "running"},
             accepted' = accepted
      PROVE  Lifecycle!Next \/ UNCHANGED Lifecycle!vars
  <2>1. status[t] \in TaskState
    BY <1>0, <1>m DEF TaskLives
  <2>2. CASE Allowed(status[t], s) /\ Enter(t, s)
    <3>1. Lifecycle!Move(t, s) \/ UNCHANGED Lifecycle!vars
      BY <1>m, <2>1, <2>2, MoveIsPromised
    <3> QED
      BY <3>1, SameVocabulary DEF Lifecycle!Next
  <2>3. CASE Keep
    BY <1>m, <2>3 DEF Keep, Lifecycle!vars
  <2> QED
    BY <1>m, <2>2, <2>3 DEF TurnMoves
<1>2. CASE Plan(t)
  BY <1>2, <1>m DEF Plan, TurnIs
<1>3. CASE Start(t)
  BY <1>3, <1>m DEF Start, TurnIs
<1>4. CASE Work(t)
  BY <1>4 DEF Work, Keep, Lifecycle!vars
<1>5. CASE Close(t)
  BY <1>5, <1>m DEF Close, TurnIs
<1>6. CASE Complete(t)
  <2>1. /\ turn[t] = "completing" /\ accepted' = accepted \cup {t}
        /\ TurnMoves(t, "COMPLETED", "ended")
    BY <1>6 DEF Complete, TurnIs
  <2>2. status[t] \in {"VERIFYING", "CANCELLED", "FAILED"}
    BY <1>0, <2>1 DEF TaskLives
  <2>3. CASE Allowed(status[t], "COMPLETED") /\ Enter(t, "COMPLETED")
    <3>1. status[t] = "VERIFYING"
      BY <2>2, <2>3, MovesNamed DEF Allowed, Terminal
    <3>2. Lifecycle!Accept(t)
      BY <2>1, <2>3, <3>1 DEF Lifecycle!Accept, Lifecycle!Enter, Enter
    <3> QED
      BY <3>2 DEF Lifecycle!Next
  <2>4. CASE ~Allowed(status[t], "COMPLETED") /\ Keep
    <3>1. status[t] # "VERIFYING"
      BY <2>4 DEF Allowed, TASK_TRANSITIONS, TaskState, Terminal, Waiting, GiveUp
    <3>2. Lifecycle!AttachLate(t)
      BY <2>1, <2>2, <2>4, <3>1 DEF Lifecycle!AttachLate, Keep
    <3> QED
      BY <3>2 DEF Lifecycle!Next
  <2> QED
    BY <2>1, <2>3, <2>4 DEF TurnMoves
<1> QED
  BY <1>1, <1>2, <1>3, <1>4, <1>5, <1>6 DEF Turn

\* So is a step of the owner, and of a stop.
LEMMA OwnerIsPromised ==
  ASSUME Typed, Living, NEW t \in Tasks, OwnerStep(t)
  PROVE  Lifecycle!Next \/ UNCHANGED Lifecycle!vars
<1>1. /\ status[t] \in TaskState
      /\ \E s \in {"CANCELLED", "PAUSED", "RUNNING"} : Enter(t, s) /\ Allowed(status[t], s)
      /\ accepted' = accepted
  BY DEF OwnerStep, OwnerCancels, OwnerPauses, OwnerResumes, OwnerMoves, Allowed,
         TASK_TRANSITIONS, TaskState, Terminal, Waiting, GiveUp
<1>2. PICK s \in {"CANCELLED", "PAUSED", "RUNNING"} : Enter(t, s) /\ Allowed(status[t], s)
  BY <1>1
<1>3. Lifecycle!Move(t, s) \/ UNCHANGED Lifecycle!vars
  BY <1>1, <1>2, StatesNamed, MoveIsPromised
<1> QED
  BY <1>3, StatesNamed, SameVocabulary DEF Lifecycle!Next

\* A cancellation by a stop moves its task; what else a stop does moves none.
LEMMA StopIsPromised ==
  ASSUME Typed, Living, StopStep
  PROVE  Lifecycle!Next \/ UNCHANGED Lifecycle!vars
<1>0. accepted' = accepted
  BY StopTypes
<1>1. CASE Keep
  BY <1>0, <1>1 DEF Keep, Lifecycle!vars
<1>2. CASE ~Keep
  <2>1. PICK c \in {Stop, Emergency} : CancelNext(c)
    BY <1>2 DEF StopStep, BeginStop, Cancelled, SayAgain, NodeStep, DisconnectNext, DisconnectFails, Disconnects, Dial, HangUp, SetLockdown,
                ReleaseLockdown
  <2> DEFINE t == Head(sweep[c].left)
  <2>2. sweep[c].left \in Seq(Tasks) /\ sweep[c].left # <<>>
    BY <2>1 DEF CancelNext, Typed, TypeOK
  <2>3. t \in Tasks /\ t \in ToSet(sweep[c].left)
    BY <2>2 DEF ToSet
  <2>4. status[t] \in TaskState
    BY <2>3 DEF Living, Typed, TypeOK
  <2>5. Enter(t, "CANCELLED") /\ "CANCELLED" \in TASK_TRANSITIONS[status[t]]
    BY <1>2, <2>1 DEF CancelNext
  <2> HIDE DEF t
  <2>6. Lifecycle!Move(t, "CANCELLED") \/ UNCHANGED Lifecycle!vars
    BY <1>0, <2>3, <2>4, <2>5, StatesNamed, MoveIsPromised DEF Allowed
  <2> QED
    BY <2>3, <2>6, StatesNamed, SameVocabulary DEF Lifecycle!Next
<1> QED
  BY <1>1, <1>2

\* A restart loads, of every task, a state it has been in, and no verification it never had.
LEMMA RestartIsPromised ==
  ASSUME Typed, Accepted, Living, Restart
  PROVE  Lifecycle!Restart
<1> DEFINE loaded == [t \in Tasks |-> row[t].status]
<1>0. row \in [Tasks -> RowType]
  BY DEF Typed, TypeOK
<1>1. loaded \in [Tasks -> TaskState \cup {Absent}]
  BY <1>0 DEF RowType
<1>2. \A t \in Tasks : loaded[t] \in lived[t] \cup {Absent}
  BY LivingParts DEF TaskLives
<1>3. \A t \in Tasks : t \in kept <=> loaded[t] # Absent
  BY DEF kept
<1>4. /\ status' = [t \in Tasks |-> IF loaded[t] = Absent THEN Absent ELSE Recovered(loaded[t])]
      /\ lived' = [t \in Tasks |-> IF loaded[t] = Absent THEN {} ELSE lived[t] \cup {status'[t]}]
  BY <1>3 DEF Restart
<1>5. accepted' \in SUBSET accepted
  BY AcceptedParts DEF Restart, AcceptedTask
<1>6. \A t \in Tasks : status'[t] = "COMPLETED" => t \in accepted'
  BY AcceptedParts DEF Restart, AcceptedTask, Recovered, Absent
<1> HIDE DEF loaded
<1> QED
  BY <1>1, <1>2, <1>4, <1>5, <1>6, SameVocabulary DEF Lifecycle!Restart

\* Every step maps to a step of the lifecycle, or to none.
LEMMA LifecycleStep ==
  Typed /\ Accepted /\ Living /\ [Next]_vars => [Lifecycle!Next]_(Lifecycle!vars)
<1> SUFFICES ASSUME Typed, Accepted, Living, [Next]_vars
             PROVE  Lifecycle!Next \/ UNCHANGED Lifecycle!vars
  OBVIOUS
<1>1. ASSUME NEW c \in Callers, Stores(c) PROVE UNCHANGED Lifecycle!vars
  BY <1>1 DEF Stores, ReadRow, WriteLands, WriteFails, putOnly, Lifecycle!vars
<1>2. Restart => Lifecycle!Next
  BY RestartIsPromised DEF Lifecycle!Next
<1>3. UNCHANGED vars => UNCHANGED Lifecycle!vars
  BY DEF vars, Lifecycle!vars
<1> QED
  BY <1>1, <1>2, <1>3, TurnIsPromised, OwnerIsPromised, StopIsPromised
     DEF Next, OwnerStep, StopStep, NodeStep, Stores

\* Late, overtaking and failing writes and all, restarts included, this is the lifecycle
\* promised: tasks move along the table, COMPLETED is verified, and storage holds the past.
THEOREM ControlImplementsLifecycle == Spec => ImplementsLifecycle
<1>1. Init => Lifecycle!Init
  BY DEF Init, Lifecycle!Init, Lifecycle!Absent, Absent
<1>2. Init => Typed /\ Accepted /\ Living
  BY TypedInit, AcceptedInit, LivingInit
<1>3. Typed /\ Accepted /\ Living /\ [Next]_vars => Typed' /\ Accepted' /\ Living'
  BY TypedStep, AcceptedStep, LivingStep
<1> QED
  BY <1>1, <1>2, <1>3, LifecycleStep, PTL DEF Spec, ImplementsLifecycle, Lifecycle!Spec
=============================================================================
