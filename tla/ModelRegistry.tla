----------------------------- MODULE ModelRegistry -----------------------------
(***************************************************************************)
(* Which model is on which machine (model_registry.py): what the nodes     *)
(* report as they connect, what the owner said about it, and the table     *)
(* that keeps it.  Every save is awaited, so a report, a disconnection and *)
(* a correction interleave at each model.                                  *)
(***************************************************************************)
EXTENDS Naturals, Sequences, FiniteSets

CONSTANTS Machines, Kept,     \* devices, and the models found on each
          Callers, MaxJobs

VARIABLES models,     \* _models: what is known of each model
          order,      \* the dictionary's order
          rows,       \* the models table
          connected,  \* machines with a session, and what each reported last
          jobs,       \* the coroutines that are saving models
          started, loose  \* jobs so far; models and machines on which jobs overlapped or failed

vars == <<models, order, rows, connected, jobs, started, loose>>

Keys == UNION {{<<d, m>> : m \in Kept[d]} : d \in Machines}
Opinions == {"none", "corrected"}
Unknown == [known |-> FALSE, online |-> FALSE, opinion |-> "none"]
NoRow == "absent"
Idle == [op |-> "idle", machine |-> "", reported |-> {}, todo |-> {}, at |-> 0, size |-> 0, put |-> <<>>]

TypeOK ==
  /\ models \in [Keys -> [known : BOOLEAN, online : BOOLEAN, opinion : Opinions]]
  /\ rows \in [Keys -> Opinions \cup {NoRow}]
  /\ {order[i] : i \in 1..Len(order)} = {k \in Keys : models[k].known}
  /\ \A c \in Callers : jobs[c].op \in {"idle", "observe", "offline", "correct"}

Init ==
  /\ models = [k \in Keys |-> Unknown] /\ order = <<>>
  /\ rows = [k \in Keys |-> NoRow]
  /\ connected = [d \in Machines |-> {}]
  /\ jobs = [c \in Callers |-> Idle] /\ started = 0 /\ loose = {}

---------------------------------------------------------------------------
\* A new job on machine d, or on one of its models.
busyWith(d) == \E c \in Callers : jobs[c].machine = d

Begins(c, d, job) ==
  /\ jobs[c] = Idle /\ started < MaxJobs /\ started' = started + 1
  /\ jobs' = [jobs EXCEPT ![c] = job]

whole(d) == <<d, "">>
overlaps(d) == IF busyWith(d) THEN {whole(d)} ELSE {}

\* DeviceHub.register with an inventory: observe(), which starts with the models reported.
Connect(c, d) ==
  /\ \E inventory \in (SUBSET Kept[d]) \ {{}} :
       /\ Begins(c, d, [Idle EXCEPT !.op = "observe", !.machine = d,
                                    !.reported = inventory,
                                    !.todo = {<<d, m>> : m \in inventory}])
       /\ connected' = [connected EXCEPT ![d] = inventory]
  /\ loose' = loose \cup overlaps(d)
  /\ UNCHANGED <<models, order, rows>>

\* DeviceHub.unregister: the session is gone, then device_offline().
Disconnect(c, d) ==
  /\ connected[d] # {}
  /\ Begins(c, d, [Idle EXCEPT !.op = "offline", !.machine = d])
  /\ connected' = [connected EXCEPT ![d] = {}]
  /\ loose' = loose \cup overlaps(d)
  /\ UNCHANGED <<models, order, rows>>

\* _save(): the row is built from the entry as it is now, and then written.
row(k, entry) == <<k, entry.opinion>>
puts(k) == {c \in Callers : jobs[c].put # <<>> /\ jobs[c].put[1] = k}
Saves(c, k, job) ==
  /\ jobs' = [jobs EXCEPT ![c] = [job EXCEPT !.put = row(k, models'[k])]]
  /\ loose' = loose \cup (IF puts(k) # {} THEN {k} ELSE {})

\* set_kind() and set_enabled(): the owner's opinion, kept apart from what is observed.
Correct(c, k, opinion) ==
  /\ models[k].known
  /\ jobs[c] = Idle /\ started < MaxJobs /\ started' = started + 1
  /\ models' = [models EXCEPT ![k].opinion = opinion]
  /\ Saves(c, k, [Idle EXCEPT !.op = "correct"])
  /\ UNCHANGED <<order, rows, connected>>

\* observe(), one model: only the observation is replaced.
Record(c) ==
  /\ jobs[c].op = "observe" /\ jobs[c].put = <<>>
  /\ \E k \in jobs[c].todo :
       /\ models' = [models EXCEPT ![k].known = TRUE, ![k].online = TRUE]
       /\ order' = IF models[k].known THEN order ELSE Append(order, k)
       /\ Saves(c, k, [jobs[c] EXCEPT !.todo = @ \ {k}])
  /\ UNCHANGED <<rows, connected, started>>

\* The walk over the dictionary: from where it is, the next model to take offline.
sweeping(c) == jobs[c].op \in {"observe", "offline"} /\ jobs[c].todo = {} /\ jobs[c].put = <<>>
unreported(c, k) ==
  /\ k[1] = jobs[c].machine /\ models[k].online
  /\ jobs[c].op = "observe" => k[2] \notin jobs[c].reported
ahead(c) == {i \in (jobs[c].at + 1)..Len(order) : unreported(c, order[i])}
\* A dictionary that grew while the walk was suspended cannot be walked on.
grown(c) == jobs[c].at > 0 /\ jobs[c].size # Len(order)

Sweep(c) ==
  /\ sweeping(c) /\ ~grown(c) /\ ahead(c) # {}
  /\ LET i == CHOOSE j \in ahead(c) : \A l \in ahead(c) : j <= l IN
       /\ models' = [models EXCEPT ![order[i]].online = FALSE]
       /\ Saves(c, order[i], [jobs[c] EXCEPT !.at = i, !.size = Len(order)])
  /\ UNCHANGED <<order, rows, connected, started>>

SweepEnds(c) ==
  /\ sweeping(c) /\ ~grown(c) /\ ahead(c) = {}
  /\ jobs' = [jobs EXCEPT ![c] = Idle]
  /\ UNCHANGED <<models, order, rows, connected, started, loose>>

SweepRaises(c) ==
  /\ sweeping(c) /\ grown(c)
  /\ jobs' = [jobs EXCEPT ![c] = Idle]
  /\ loose' = loose \cup {whole(jobs[c].machine)}
  /\ UNCHANGED <<models, order, rows, connected, started>>

\* The write commits, in any order among those under way; or it raises and ends its job.
Commit(c) ==
  /\ jobs[c].put # <<>>
  /\ rows' = [rows EXCEPT ![jobs[c].put[1]] = jobs[c].put[2]]
  /\ jobs' = [jobs EXCEPT ![c] = IF @.op = "correct" THEN Idle ELSE [@ EXCEPT !.put = <<>>]]
  /\ UNCHANGED <<models, order, connected, started, loose>>

CommitFails(c) ==
  /\ jobs[c].put # <<>>
  /\ jobs' = [jobs EXCEPT ![c] = Idle]
  /\ loose' = loose \cup {jobs[c].put[1], whole(jobs[c].put[1][1])}
  /\ UNCHANGED <<models, order, rows, connected, started>>

\* The process ends, and restore() reads the table: nothing is online.
Restart ==
  /\ models' = [k \in Keys |-> IF rows[k] = NoRow THEN Unknown
                               ELSE [known |-> TRUE, online |-> FALSE, opinion |-> rows[k]]]
  /\ \E o \in [1..Cardinality({k \in Keys : rows[k] # NoRow}) -> {k \in Keys : rows[k] # NoRow}] :
       /\ \A i, j \in DOMAIN o : i # j => o[i] # o[j]
       /\ order' = o
  /\ connected' = [d \in Machines |-> {}]
  /\ jobs' = [c \in Callers |-> Idle]
  /\ loose' = {}
  /\ UNCHANGED <<rows, started>>

Next ==
  \/ \E c \in Callers : \/ \E d \in Machines : Connect(c, d) \/ Disconnect(c, d)
                        \/ \E k \in Keys, o \in Opinions : Correct(c, k, o)
                        \/ Record(c) \/ Sweep(c) \/ SweepEnds(c) \/ SweepRaises(c)
                        \/ Commit(c) \/ CommitFails(c)
  \/ Restart

Spec == Init /\ [][Next]_vars

---------------------------------------------------------------------------
(* Properties.                                                              *)

\* With its last report or disconnection dealt with, a machine's models are online exactly
\* when it is connected and reported them - unless two of them overlapped, a save failed or
\* the walk was broken off by another machine's new model.
OnlineMeansReported ==
  \A d \in Machines : (~busyWith(d) /\ whole(d) \notin loose) =>
    \A m \in Kept[d] : models[<<d, m>>].online <=> m \in connected[d]

\* What the owner said of a model is in the table once no save of it is under way: reports,
\* disconnections and restarts leave it as it was, unless saves overlapped or failed.
CorrectionIsKept ==
  \A k \in Keys : (models[k].known /\ puts(k) = {} /\ k \notin loose) => rows[k] = models[k].opinion

\* Nor does the registry ever change what the owner said by itself.
OnlyTheOwnerCorrects ==
  [][\A k \in Keys : (models[k].known /\ models'[k].known /\ models'[k].opinion # models[k].opinion)
       => \/ \E c \in Callers : jobs'[c].op = "correct" /\ jobs'[c].put[1] = k
          \/ k \in loose \/ puts(k) # {}]_vars
================================================================================
