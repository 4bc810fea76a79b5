----------------------------- MODULE AuditTrail -----------------------------
(***************************************************************************)
(* The hash-chained record of what was done: the chain in memory, the      *)
(* table behind it, and the backup that can replace the first of the two   *)
(* (security/audit.py, core/backup.py).                                    *)
(*                                                                         *)
(* An entry is a number, given in the order the entries are made, which is *)
(* also the order of their timestamps.  Its prev is the entry its hash is  *)
(* chained to.  A row of the table is read back as it was written; a row   *)
(* of a backup was redacted on its way to the file, and an entry whose     *)
(* hash covers what was taken out no longer has that hash.                 *)
(***************************************************************************)
EXTENDS Naturals, Sequences, FiniteSets, SequencesExt

CONSTANTS
  MaxEntries,
  Revealing  \* entries that hold a secret in what is hashed as it was given: action, resource

Genesis == 0
Entries == 1..MaxEntries

VARIABLES
  chain,     \* _entries
  altered,   \* the entries of the chain that came back from a backup without their secret
  prev,      \* prev[e] as it was hashed, for every entry made
  beneath,   \* history: beneath[e], what the chain held when e was put on top of it
  puts,      \* entries whose row is being written
  table,     \* entries on the table
  writing,   \* the archive in its temporary file, while one is being written
  archive,   \* the last whole archive
  lost,      \* history: a row could not be written, or died with the process
  replaced,  \* history: a backup took the place of the chain
  acked      \* history: entries whose record() returned

trailVars ==
  <<chain, altered, prev, beneath, puts, table, writing, archive, lost, replaced, acked>>

NoArchive == <<Genesis>>
Chains == BoundedSeq(Entries, MaxEntries)

TypeOK ==
  /\ chain \in Chains /\ altered \subseteq Revealing
  /\ prev \in BoundedSeq(0..MaxEntries, MaxEntries)
  /\ DOMAIN beneath = DOMAIN prev /\ \A e \in DOMAIN prev : beneath[e] \subseteq 1..(e - 1)
  /\ {puts, table, acked} \subseteq SUBSET DOMAIN prev
  /\ {writing, archive} \subseteq Chains \cup {NoArchive}
  /\ {lost, replaced} \subseteq BOOLEAN

Init ==
  /\ chain = <<>> /\ altered = {} /\ prev = <<>> /\ beneath = <<>> /\ puts = {}
  /\ table = {} /\ acked = {}
  /\ writing = NoArchive /\ archive = NoArchive /\ lost = FALSE /\ replaced = FALSE
-----------------------------------------------------------------------------
\* record up to the await: chained and in memory before anything can fail.
lastStored == IF table = {} THEN Genesis ELSE Max(table)
chainedTo_Stored == lastStored
chainedTo == IF chain = <<>> THEN Genesis ELSE Last(chain)
Record ==
  LET e == Len(prev) + 1 IN
  /\ e \in Entries
  /\ prev' = Append(prev, chainedTo) /\ beneath' = Append(beneath, ToSet(chain))
  /\ chain' = Append(chain, e) /\ puts' = puts \cup {e}
  /\ UNCHANGED <<altered, table, writing, archive, lost, replaced, acked>>

\* Rows are written by concurrent sessions and may land in any order; a failure is raised to
\* the caller and is never made good.
PutReturns(e, ok) ==
  /\ e \in puts /\ puts' = puts \ {e}
  /\ table' = IF ok THEN table \cup {e} ELSE table
  /\ acked' = IF ok THEN acked \cup {e} ELSE acked
  /\ lost' = (lost \/ ~ok)
  /\ UNCHANGED <<chain, altered, prev, beneath, writing, archive, replaced>>

\* create: exported, redacted and written to a temporary file, which then takes the archive's
\* place.  Redacting leaves an entry its id, its prev_hash and its hash, and changes what else
\* it says if there was a secret in it.
redacted(c) == ToSet(c) \cap Revealing
BackupBegins ==
  /\ writing' = chain
  /\ UNCHANGED <<chain, altered, prev, beneath, puts, table, archive, lost, replaced, acked>>
BackupLands ==
  /\ writing # NoArchive /\ archive' = writing /\ writing' = NoArchive
  /\ UNCHANGED <<chain, altered, prev, beneath, puts, table, lost, replaced, acked>>

\* import_state replaces the chain in memory with the entries of the file, hashes untouched,
\* and writes no row.
RestoreBackup ==
  /\ archive # NoArchive
  /\ chain' = archive /\ altered' = redacted(archive) /\ replaced' = TRUE
  /\ UNCHANGED <<prev, beneath, puts, table, writing, archive, lost, acked>>

\* The process dies with rows still on their way, and restore() reads the table in the
\* order of the timestamps.
restored(S) == {c \in Chains : ToSet(c) = S /\ \A i, j \in DOMAIN c : i < j => c[i] < c[j]}
Restart(landed) ==
  /\ landed \subseteq puts /\ puts' = {} /\ table' = table \cup landed
  /\ lost' = (lost \/ landed # puts)
  /\ chain' \in restored(table') /\ altered' = {} /\ writing' = NoArchive
  /\ UNCHANGED <<prev, beneath, archive, replaced, acked>>

\* verify_chain: every entry follows the one it was chained to and still has its hash.
linked(c) == \A i \in DOMAIN c : prev[c[i]] = IF i = 1 THEN Genesis ELSE c[i - 1]
intact(c, changed) == linked(c) /\ ToSet(c) \cap changed = {}

\* A backup is written without giving way to anything else; only the process can die in it.
Next ==
  \/ /\ writing = NoArchive
     /\ Record \/ BackupBegins \/ RestoreBackup \/ \E e \in puts, ok \in BOOLEAN : PutReturns(e, ok)
  \/ BackupLands
  \/ \E landed \in SUBSET puts : Restart(landed)

Spec == Init /\ [][Next]_trailVars
-----------------------------------------------------------------------------
\* The health check cries "BROKEN" only when a row really was lost, whatever order the rows
\* landed in and however often the process died, as long as no backup has taken the chain's
\* place.
AlarmIsTrue == ~intact(chain, altered) => lost \/ replaced

\* Everything record() returned for is in the trail, in the order it was done, after any
\* restart, unless a backup took the chain's place.
AckedIsKept ==
  ~replaced => /\ acked \subseteq ToSet(chain)
               /\ \A i, j \in DOMAIN chain : i < j => chain[i] < chain[j]

\* A gap cannot hide: in a chain that verifies, everything is still there that an entry was
\* written on top of, so a lost row shows as soon as a later one was stored.
GapIsSeen ==
  ~replaced /\ intact(chain, altered) => \A i \in DOMAIN chain : beneath[chain[i]] \subseteq ToSet(chain)

\* "A process killed halfway through leaves the previous backup intact": unless something had
\* been lost before, an archive holds the chain whole up to its last entry, each entry on the
\* one it was chained to.  What was read back of it verifies if the redactor changed none of it.
ArchiveIsWhole ==
  archive # NoArchive /\ ~lost /\ ~replaced =>
    /\ linked(archive) /\ (redacted(archive) = {} => intact(archive, redacted(archive)))
    /\ \A e \in DOMAIN prev : e <= (IF archive = <<>> THEN 0 ELSE Last(archive)) => e \in ToSet(archive)

\* "The audit chain still verifies after a restore", and after what was done since and a
\* restart, is refuted: a restored entry may have been redacted, and no row was written.
RestoredTrailVerifies == ~intact(chain, altered) => lost
=============================================================================
