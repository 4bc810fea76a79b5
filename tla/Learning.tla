------------------------------- MODULE Learning -------------------------------
(***************************************************************************)
(* What the owner is taught: the record of what they know (learning.py),   *)
(* the lessons that move it (lessons.py) and the tips offered after work   *)
(* (tips.py).  An attempt awaits the step's own check between reading the  *)
(* step and marking it; everything else is one step.  Every lesson that is *)
(* shipped has one step.                                                   *)
(***************************************************************************)
EXTENDS Naturals, Sequences, FiniteSets, TLC

CONSTANTS Lessons,         \* LESSONS in order: the lesson's capability and the lessons it follows
          Teaches,         \* _AFTER_USING: the capability a tip teaches after another was used
          Attempts,        \* attempts that can overlap
          ForLearned, ForMastered, MaxIntroductions, BeforeUpgrade,
          Quiet, DecayAfter, DismissedFor, Pause,   \* in days; Pause is the tips' cooldown
          MaxDays, MaxOps

VARIABLES day, ops, known, tutorials, attempts, lastTip,
          told   \* tips given on a capability, and when the owner dismissed it, since the last reset

vars == <<day, ops, known, tutorials, attempts, lastTip, told>>

Ids == 1..Len(Lessons)
Capabilities == {Lessons[l].capability : l \in Ids} \cup {Teaches[c] : c \in DOMAIN Teaches}
Never == MaxDays + 1
Levels == <<"NOT_DISCOVERED", "DISCOVERED", "TRIED", "LEARNED", "MASTERED">>

NewKnowledge == [level |-> 1, uses |-> 0, introductions |-> 0, used |-> Never, taught |-> Never,
                 dismissed |-> FALSE]
Untold == [given |-> <<>>, dismissed |-> Never]
NewProgress == [status |-> "NOT_STARTED", completed |-> FALSE, skipped |-> FALSE]

TypeOK ==
  /\ day \in 0..MaxDays /\ ops \in 0..MaxOps /\ lastTip \in 0..Never
  /\ \A c \in Capabilities : known[c].level \in DOMAIN Levels /\ known[c].taught \in 0..Never
  /\ \A l \in Ids : tutorials[l].status \in {"NOT_STARTED", "IN_PROGRESS", "COMPLETED", "SKIPPED"}
  /\ attempts \in [Attempts -> {0} \cup Ids]

Init ==
  /\ day = 0 /\ ops = 0 /\ lastTip = Never /\ told = [c \in Capabilities |-> Untold]
  /\ known = [c \in Capabilities |-> NewKnowledge]
  /\ tutorials = [l \in Ids |-> NewProgress]
  /\ attempts = [a \in Attempts |-> 0]

---------------------------------------------------------------------------
\* The record (LearningRecord).

higher(m, n) == IF m < n THEN n ELSE m
since(d) == IF d = Never THEN Never ELSE day - d

\* What is not used for long is known one level less.
knows(c) ==
  IF known[c].level > 3 /\ known[c].used # Never /\ since(known[c].used) >= DecayAfter
    THEN known[c].level - 1 ELSE known[c].level

\* Being told raises the level to DISCOVERED and no further.
introduced(k) ==
  [k EXCEPT !.introductions = @ + 1, !.taught = day, !.level = higher(@, 2)]

quietFor(k) == k.taught = Never \/ since(k.taught) >= Quiet

\* Using it successfully is what raises it to LEARNED and, unprompted, to MASTERED.
used(k) ==
  LET n == k.uses + 1 IN
  [k EXCEPT !.uses = n, !.used = day,
            !.level = IF n >= ForMastered /\ quietFor(k) THEN 5
                      ELSE higher(@, IF n >= ForLearned THEN 4 ELSE 3)]

finished(l) == tutorials[l].status \in {"COMPLETED", "SKIPPED"}
\* current_step counts what was done and what was skipped: past 0 there is no step left.
stepLeft(l) == ~tutorials[l].completed /\ ~tutorials[l].skipped

---------------------------------------------------------------------------
\* The lessons (LessonRunner).

Spend == ops < MaxOps /\ ops' = ops + 1

Start(l) ==
  /\ Spend
  /\ tutorials' = [tutorials EXCEPT ![l].status = "IN_PROGRESS"]
  /\ known' = [known EXCEPT ![Lessons[l].capability] = introduced(@)]
  /\ UNCHANGED <<day, attempts, lastTip, told>>

\* The step is read, then its check is awaited.
Attempt(a, l) ==
  /\ Spend /\ attempts[a] = 0 /\ stepLeft(l)
  /\ attempts' = [attempts EXCEPT ![a] = l]
  /\ UNCHANGED <<day, known, tutorials, lastTip, told>>

\* The check passed.  The step is marked in the record as it is now, the capability was used,
\* and with no step left the lesson is complete.
Passes(a) ==
  /\ attempts[a] # 0
  /\ tutorials' = [tutorials EXCEPT ![attempts[a]].completed = TRUE,
                                    ![attempts[a]].status = "COMPLETED"]
  /\ known' = [known EXCEPT ![Lessons[attempts[a]].capability] = used(@)]
  /\ attempts' = [attempts EXCEPT ![a] = 0]
  /\ UNCHANGED <<day, ops, lastTip, told>>

Fails(a) ==
  /\ attempts[a] # 0
  /\ attempts' = [attempts EXCEPT ![a] = 0]
  /\ UNCHANGED <<day, ops, known, tutorials, lastTip, told>>

\* Declining marks the step that is left as skipped, never as completed.
Skip_AsDone(l) ==
  /\ Spend
  /\ tutorials' = [tutorials EXCEPT ![l].status = IF stepLeft(l) THEN "SKIPPED" ELSE "COMPLETED",
                                    ![l].skipped = @ \/ stepLeft(l)]
  /\ UNCHANGED <<day, known, attempts, lastTip, told>>
Skip(l) ==
  /\ Spend
  /\ tutorials' = [tutorials EXCEPT ![l].status = "SKIPPED",
                                    ![l].skipped = @ \/ stepLeft(l)]
  /\ UNCHANGED <<day, known, attempts, lastTip, told>>

\* The three resets: offers, lessons, everything.
ResetTips ==
  /\ Spend
  /\ known' = [c \in Capabilities |->
       [known[c] EXCEPT !.dismissed = FALSE, !.introductions = 0,
                        !.taught = IF known[c].dismissed \/ known[c].introductions > 0
                                     THEN Never ELSE @]]
  /\ told' = [c \in Capabilities |-> Untold]
  /\ UNCHANGED <<day, tutorials, attempts, lastTip>>

ResetTutorials ==
  /\ Spend
  /\ tutorials' = [l \in Ids |-> NewProgress]
  /\ UNCHANGED <<day, known, attempts, lastTip, told>>

ResetAll ==
  /\ Spend
  /\ tutorials' = [l \in Ids |-> NewProgress]
  /\ known' = [c \in Capabilities |-> NewKnowledge]
  /\ told' = [c \in Capabilities |-> Untold]
  /\ UNCHANGED <<day, attempts, lastTip>>

---------------------------------------------------------------------------
\* The tips (TipEngine).

\* score() > 0, for a capability this machine has.
deserved(c, after) ==
  /\ ~(known[c].dismissed /\ (known[c].taught = Never \/ since(known[c].taught) < DismissedFor))
  /\ known[c].introductions < MaxIntroductions
  /\ knows(c) < 4
  /\ known[after].uses >= BeforeUpgrade

\* A piece of work with capability c succeeded: one tip at most, and none too soon after the
\* last.  What the teaching dial and the attention gate refuse is no step.
AfterUsing(c) ==
  /\ c \in DOMAIN Teaches /\ Spend
  /\ lastTip = Never \/ since(lastTip) >= Pause
  /\ deserved(Teaches[c], c)
  /\ lastTip' = day
  /\ known' = [known EXCEPT ![Teaches[c]] = introduced(@)]
  /\ told' = [told EXCEPT ![Teaches[c]].given = Append(@, day)]
  /\ UNCHANGED <<day, tutorials, attempts>>

Dismiss(c) ==
  /\ Spend
  /\ known' = [known EXCEPT ![c].dismissed = TRUE, ![c].taught = day]
  /\ told' = [told EXCEPT ![c].dismissed = day]
  /\ UNCHANGED <<day, tutorials, attempts, lastTip>>

NextDay ==
  /\ day < MaxDays /\ day' = day + 1
  /\ UNCHANGED <<ops, known, tutorials, attempts, lastTip, told>>

Next ==
  \/ \E l \in Ids : Start(l) \/ Skip(l) \/ \E a \in Attempts : Attempt(a, l)
  \/ \E a \in Attempts : Passes(a) \/ Fails(a)
  \/ ResetTips \/ ResetTutorials \/ ResetAll \/ NextDay
  \/ \E c \in Capabilities : AfterUsing(c) \/ Dismiss(c)

Spec == Init /\ [][Next]_vars

---------------------------------------------------------------------------
(* Properties.                                                              *)

\* What the owner is said to know was done and not only told: LEARNED and MASTERED rest on
\* that many successful uses, whatever was introduced, declined, reset or attempted at once.
KnownIsEarned ==
  \A c \in Capabilities :
    /\ known[c].level >= 4 => known[c].uses >= ForLearned
    /\ known[c].level = 5 => known[c].uses >= ForMastered
    /\ known[c].uses > 0 => known[c].level >= 3

\* A capability is not brought up more often than MaxIntroductions, nor in the days after
\* the owner dismissed it, although lessons also count as introductions.
NoNagging ==
  \A c \in Capabilities :
    /\ Len(told[c].given) <= MaxIntroductions
    /\ \A i \in 1..Len(told[c].given), d \in 0..MaxDays :
         (told[c].dismissed = d /\ told[c].given[i] > d) => told[c].given[i] >= d + DismissedFor

\* A lesson that is done was tried and its check passed: declining it, starting it again or
\* resetting the lessons while a check is awaited leaves no completion behind.
CompletedWasDone ==
  [][\A l \in Ids :
       (tutorials'[l].status = "COMPLETED" /\ tutorials[l].status # "COMPLETED")
       => /\ tutorials'[l].completed
          /\ known'[Lessons[l].capability].uses > known[Lessons[l].capability].uses
          /\ \E a \in Attempts : attempts[a] = l]_vars
===============================================================================
