------------------------------- MODULE Backups --------------------------------
(***************************************************************************)
(* Archives of the running state (backup.py) and the updates that take one *)
(* first (updates.py).  Nothing here awaits: what can come between two     *)
(* steps is the end of the process, a damaged disk and another build.      *)
(***************************************************************************)
EXTENDS Naturals, FiniteSets, Sequences, TLC

CONSTANTS Parts,        \* default_components, in the order they are restored
          Names,        \* archive names: two backups of one second have one name
          Versions, MaxWork, MaxDamages, MaxUpdates

VARIABLES live,         \* what each component holds
          work,         \* how much work was done so far
          damages,      \* how often the disk failed so far
          archive,      \* the files of the backup directory
          taken,        \* what the components held when each archive was written
          current,      \* the installed version
          updates       \* the update attempts: UpdateService._history and the refusals

vars == <<live, work, damages, archive, taken, current, updates>>

PartSet == {Parts[i] : i \in 1..Len(Parts)}
NoArchive == [format |-> 0, data |-> <<>>, sums |-> <<>>]
\* An update's own backup is named for the version, in the directory the process runs in.
preUpdate(v) == <<"pre-update", v>>
Files == {<<"backup", n>> : n \in Names} \cup {preUpdate(v) : v \in Versions}
Releases == [version : Versions, sound : {"yes", "elsewhere", "unsigned"}]

\* What a component's rows come to: the work they are of, and whether a credential is in them.
Rows == [of : 0..MaxWork, secret : BOOLEAN]
NoRows == [of |-> 0, secret |-> FALSE]
Garbled == [of |-> MaxWork + 1, secret |-> FALSE]

TypeOK ==
  /\ live \in [PartSet -> Rows] /\ work \in 0..MaxWork
  /\ damages \in 0..MaxDamages
  /\ \A f \in Files : archive[f].format \in 0..2 /\ DOMAIN archive[f].data \subseteq PartSet
  /\ current \in Versions

Init ==
  /\ live = [p \in PartSet |-> NoRows] /\ work = 0 /\ damages = 0
  /\ archive = [f \in Files |-> NoArchive] /\ taken = [f \in Files |-> live]
  /\ updates = <<>>
  /\ current \in Versions

---------------------------------------------------------------------------
\* A component does its work, and what it holds for it may include a credential: what was
\* said in a conversation, the command of an audited call.
Work(p) ==
  /\ work < MaxWork /\ work' = work + 1
  /\ \E secret \in BOOLEAN : live' = [live EXCEPT ![p] = [of |-> work + 1, secret |-> secret]]
  /\ UNCHANGED <<damages, archive, taken, current, updates>>

\* create(): every component is exported and redacted, and the checksums are of what is left;
\* the file is written aside and moved into place.  Redacted rows are other rows than those
\* with the secret in them, and what was redacted once stays as it is.
redacted(held) == [p \in PartSet |-> [of |-> held[p].of, secret |-> FALSE]]
written == [format |-> 1, data |-> redacted(live), sums |-> redacted(live)]

Create(f) ==
  /\ archive' = [archive EXCEPT ![f] = written]
  /\ taken' = [taken EXCEPT ![f] = live]
  /\ UNCHANGED <<live, work, damages, current, updates>>

\* An archive another build wrote: a newer layout, or one without this build's last component.
Brought(f) ==
  /\ archive[f] = NoArchive
  /\ \E without \in BOOLEAN :
       LET kept == IF without THEN PartSet \ {Parts[Len(Parts)]} ELSE PartSet IN
       archive' = [archive EXCEPT ![f] = [format |-> IF without THEN 1 ELSE 2,
                                          data |-> [p \in kept |-> NoRows],
                                          sums |-> [p \in kept |-> NoRows]]]
  /\ UNCHANGED <<live, work, damages, taken, current, updates>>

\* The disk fails under an archive: the rows of a component change or are cut off.
Damaged(f) ==
  /\ damages < MaxDamages /\ damages' = damages + 1
  /\ \E p \in DOMAIN archive[f].data :
       \/ archive' = [archive EXCEPT ![f].data[p] = Garbled]
       \/ archive' = [archive EXCEPT ![f].data = [q \in DOMAIN @ \ {p} |-> @[q]]]
       \/ archive' = [archive EXCEPT ![f].sums = [q \in DOMAIN @ \ {p} |-> @[q]]]
  /\ UNCHANGED <<live, work, taken, current, updates>>

\* read() and verify(): a newer layout is refused, and so is whatever does not match.
problems(a) ==
  \/ a.format # 1
  \/ \E p \in DOMAIN a.sums : p \notin DOMAIN a.data \/ a.data[p] # a.sums[p]
  \/ DOMAIN a.data \ DOMAIN a.sums # {}
  \/ PartSet \ DOMAIN a.data # {}

\* restore(), which the owner confirmed: the components are put back one after another.  One
\* that raises leaves those before it restored and the rest as they were.
restored(a, i) == [p \in PartSet |-> IF \E j \in 1..i : Parts[j] = p THEN a.data[p] ELSE live[p]]

Restore(f) ==
  /\ ~problems(archive[f])
  /\ live' = restored(archive[f], Len(Parts))
  /\ UNCHANGED <<work, damages, archive, taken, current, updates>>

RestoreRaises(f) ==
  /\ ~problems(archive[f])
  /\ \E i \in 0..(Len(Parts) - 1) : live' = restored(archive[f], i)
  /\ UNCHANGED <<work, damages, archive, taken, current, updates>>

---------------------------------------------------------------------------
\* latest(): the channel is asked each time, and one entry outside it refuses them all.
Manifests == {m \in SUBSET Releases : \A r, s \in m : r.version = s.version => r = s}
offered ==
  {r \in Releases : \E m \in Manifests : r \in m /\ \A s \in m : s.sound # "elsewhere"
                                                             /\ s.version <= r.version}

\* apply() with the owner's confirmation: the release that was chosen, verified again, not
\* older than what runs, after a backup.  outcome is what the installer makes of it; this
\* build has none.
attempted(r, outcome) == [version |-> r.version, over |-> current, outcome |-> outcome, state |-> live]

Applies(r, outcome) ==
  /\ Len(updates) < MaxUpdates
  /\ r.sound = "yes" /\ r.version >= current
  /\ archive' = [archive EXCEPT ![preUpdate(r.version)] = written]
  /\ taken' = [taken EXCEPT ![preUpdate(r.version)] = live]
  /\ updates' = Append(updates, attempted(r, outcome))
  /\ UNCHANGED <<work, damages>>

Install ==
  \E r \in offered :
    /\ Applies(r, "installed") /\ current' = r.version
    /\ UNCHANGED live

\* The installer fails or is not there.
InstallFails ==
  \E r \in offered : Applies(r, "failed") /\ UNCHANGED <<live, current>>

\* The backup fails: nothing is installed.
BackupFails ==
  /\ Len(updates) < MaxUpdates
  /\ \E r \in offered : /\ r.sound = "yes" /\ r.version >= current
                        /\ updates' = Append(updates, attempted(r, "refused"))
  /\ UNCHANGED <<live, work, damages, archive, taken, current>>

Next ==
  \/ \E p \in PartSet : Work(p)
  \/ \E n \in Names : Create(<<"backup", n>>) \/ Brought(<<"backup", n>>)
  \/ \E f \in Files : Damaged(f) \/ Restore(f) \/ RestoreRaises(f)
  \/ Install \/ InstallFails \/ BackupFails

Spec == Init /\ [][Next]_vars

---------------------------------------------------------------------------
(* Properties.                                                              *)

\* An archive that verifies is the redaction of what every component held when it was written,
\* however often the file was replaced or damaged in between: no credential is in it, and what
\* a component held comes back exactly unless there was one in it.
VerifiedIsWhole ==
  \A f \in Files : ~problems(archive[f]) =>
    /\ DOMAIN archive[f].data = PartSet
    /\ \A p \in PartSet : ~archive[f].data[p].secret /\ archive[f].data[p].of = taken[f][p].of
    /\ \A p \in PartSet : taken[f][p].secret \/ archive[f].data[p] = taken[f][p]

\* An update that went in has a backup of the state it went in over, without the credentials,
\* as long as that file is not damaged and no later attempt has written its own; and no version
\* was ever replaced by an older one.
UpdateCanBeTakenBack ==
  \A i \in 1..Len(updates) :
    updates[i].outcome = "installed" =>
      /\ updates[i].version >= updates[i].over
      /\ \A j \in (i + 1)..Len(updates) : updates[j].over >= updates[i].version
      /\ (/\ ~problems(archive[preUpdate(updates[i].version)])
          /\ \A j \in (i + 1)..Len(updates) :
               updates[j].outcome = "refused" \/ updates[j].version # updates[i].version)
         => archive[preUpdate(updates[i].version)].data = redacted(updates[i].state)
===============================================================================
