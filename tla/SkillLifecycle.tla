--------------------------- MODULE SkillLifecycle ---------------------------
(***************************************************************************)
(* Learned skills (automation/skills): captured or composed as drafts,     *)
(* given new versions, tested in a sandbox that is awaited case by case,   *)
(* approved, activated, rolled back and deprecated.  A turn runs the       *)
(* current version of an active skill (planning.py, engine.py).            *)
(***************************************************************************)
EXTENDS Naturals, Sequences, FiniteSets

CONSTANTS SkillNames,  \* skills the owner may capture
          MaxVersions, \* bound: versions in the registry
          MaxTests     \* bound: tests under way at a time

VARIABLES skills,      \* SkillRegistry._skills, the captured ones
          sandbox      \* tests whose cases are still running

skillVars == <<skills, sandbox>>

Version == [risky : BOOLEAN, approved : BOOLEAN]

\* proven, shelved and rolled record how the status and the current version were reached:
\* a sandbox pass since the skill was last a draft, a deprecation since then, a rollback
\* since it was last activated.
Skill == [status : {"DRAFT", "TESTING", "ACTIVE", "DEPRECATED"},
          current : 1..MaxVersions, versions : Seq(Version),
          proven : BOOLEAN, shelved : BOOLEAN, rolled : BOOLEAN]

TypeOK ==
  /\ DOMAIN skills \subseteq SkillNames
  /\ \A s \in DOMAIN skills : /\ skills[s] \in Skill
                              /\ skills[s].current \in DOMAIN skills[s].versions
  /\ sandbox \subseteq (SkillNames \X (1..MaxVersions))

Init == skills = [s \in {} |-> 0] /\ sandbox = {}

captured(risky) ==
  [status |-> "DRAFT", current |-> 1, versions |-> <<[risky |-> risky, approved |-> FALSE]>>,
   proven |-> FALSE, shelved |-> FALSE, rolled |-> FALSE]

Added(s, skill) == [t \in DOMAIN skills \cup {s} |-> IF t = s THEN skill ELSE skills[t]]
Became(s, skill) == skills' = [skills EXCEPT ![s] = skill]

versions == {v \in SkillNames \X (1..MaxVersions) :
               v[1] \in DOMAIN skills /\ v[2] \in DOMAIN skills[v[1]].versions}
room == Cardinality(versions) < MaxVersions

\* plan_from_skill runs nothing else.
runnable(s) == skills[s].status = "ACTIVE"
currentOf(s) == skills[s].versions[skills[s].current]

\* skill.version(version) or skill.latest: no number means the current version, a number
\* nobody gave out means the newest.
target(s, n) == IF n \in DOMAIN skills[s].versions THEN n ELSE Len(skills[s].versions)
-----------------------------------------------------------------------------
\* A demonstration, or a proposal of the observer that the owner adopts.
Capture(s, risky) ==
  /\ s \notin DOMAIN skills /\ room
  /\ skills' = Added(s, captured(risky))
  /\ UNCHANGED sandbox

\* Chains at least two active skills, every step as it is in its part.
Compose(s, parts) ==
  /\ s \notin DOMAIN skills /\ room
  /\ parts # <<>> /\ Len(parts) >= 2
  /\ \A i \in DOMAIN parts : runnable(parts[i])
  /\ skills' = Added(s, captured(\E i \in DOMAIN parts : currentOf(parts[i]).risky))
  /\ UNCHANGED sandbox

AddVersion(s, risky) ==
  /\ room
  /\ Became(s, [skills[s] EXCEPT !.versions = Append(@, [risky |-> risky, approved |-> FALSE]),
                                 !.status = "DRAFT", !.proven = FALSE, !.shelved = FALSE])
  /\ UNCHANGED sandbox

\* The target is taken before the first case is awaited.
TestBegins(s, n) ==
  /\ Cardinality(sandbox) < MaxTests
  /\ sandbox' = sandbox \cup {<<s, target(s, n)>>}
  /\ UNCHANGED skills

\* A pass moves the skill to TESTING, whatever it has become meanwhile; a structural fault
\* or a failed case moves nothing.
TestEnds(t, ok) ==
  /\ t \in sandbox /\ sandbox' = sandbox \ {t}
  /\ IF ok THEN Became(t[1], [skills[t[1]] EXCEPT !.status = "TESTING", !.proven = TRUE])
           ELSE UNCHANGED skills

Approve(s, n) ==
  /\ Became(s, [skills[s] EXCEPT !.versions[target(s, n)].approved = TRUE])
  /\ UNCHANGED sandbox

\* Anything but a draft may be activated, and a risky version only once it is approved.
Activate_Unreviewed(s, n) ==
  /\ skills[s].status # "DRAFT"
  /\ Became(s, [skills[s] EXCEPT !.status = "ACTIVE", !.current = target(s, n), !.rolled = FALSE])
  /\ UNCHANGED sandbox
Activate(s, n) ==
  LET v == skills[s].versions[target(s, n)] IN
  /\ skills[s].status # "DRAFT"
  /\ v.risky => v.approved
  /\ Became(s, [skills[s] EXCEPT !.status = "ACTIVE", !.current = target(s, n), !.rolled = FALSE])
  /\ UNCHANGED sandbox

Rollback(s, n) ==
  /\ n \in DOMAIN skills[s].versions
  /\ Became(s, [skills[s] EXCEPT !.current = n, !.rolled = TRUE])
  /\ UNCHANGED sandbox

Deprecate(s) ==
  /\ Became(s, [skills[s] EXCEPT !.status = "DEPRECATED", !.shelved = TRUE])
  /\ UNCHANGED sandbox

Next ==
  \/ \E s \in SkillNames :
       \/ \E risky \in BOOLEAN : Capture(s, risky)
       \/ \E p, q \in DOMAIN skills : Compose(s, <<p, q>>)
  \/ \E s \in DOMAIN skills :
       \/ \E risky \in BOOLEAN : AddVersion(s, risky)
       \/ \E n \in 1..MaxVersions : \/ TestBegins(s, n) \/ Approve(s, n)
                                    \/ Activate(s, n) \/ Rollback(s, n)
       \/ Deprecate(s)
  \/ \E t \in sandbox, ok \in BOOLEAN : TestEnds(t, ok)

Spec == Init /\ [][Next]_skillVars
-----------------------------------------------------------------------------
\* What a turn may run was earned step by step, whichever order the owner's calls and the
\* sandbox's answers come in: some sandbox pass since the skill was last a draft (or it was
\* deprecated in between), and for a version that destroys, spends or reaches outside the
\* owner's review of that very version (or a rollback, which asks for none).
ActiveIsEarned ==
  \A s \in DOMAIN skills : runnable(s) =>
    /\ skills[s].proven \/ skills[s].shelved
    /\ currentOf(s).risky => currentOf(s).approved \/ skills[s].rolled

===============================================================================
