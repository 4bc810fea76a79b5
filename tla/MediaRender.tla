----------------------------- MODULE MediaRender -----------------------------
(***************************************************************************)
(* Rendering an edit plan step by step, with the checkpoint that lets the  *)
(* next call skip what is already made (media/plan.py, tools.py, and       *)
(* ffmpeg.py where it starts and stops the program).  Calls follow each    *)
(* other; the process may die, a step may fail and a call may be cut short *)
(* at any point; the owner changes the plan and the picture between calls, *)
(* and deletes files at any time.                                          *)
(*                                                                         *)
(* A file is what it was made of: the arguments of its step and the files  *)
(* that step read.  All whole renders of a step are of one size, the worst *)
(* case for a check of sizes; a file ffmpeg has not finished is of another.*)
(***************************************************************************)
EXTENDS Naturals, Sequences, FiniteSets

CONSTANTS
  Plan,          \* for each step, in order, the files it reads
  Cuts,          \* the arguments a step may be given
  Pictures,      \* what the owner's own file may show
  MaxCalls, MaxTouches   \* bounds: calls, and what the owner does beside them

Source == 0                   \* the owner's own file; the file of step i is i
StepIds == 1..Len(Plan)
Files == 0..Len(Plan)

VARIABLES
  steps,       \* the arguments of each step in the plan the owner asks for
  disk,        \* [Files -> what the file is]
  checkpoint,  \* what the checkpoint file lists as completed
  render,      \* the call under way
  report,      \* the answer of the last call
  touches, rendered,   \* how many of MaxTouches and MaxCalls are used up
  loose,       \* the file that an ffmpeg nobody waits for is writing, or Source
  changed,     \* history: plan or picture changed after a step had been made
  cut          \* history: a call was cancelled while its ffmpeg ran

renderVars == <<steps, disk, checkpoint, render, report, touches, rendered, loose, changed, cut>>

Missing == [is |-> "missing"]
Partial == [is |-> "partial"]
Whole(of) == [is |-> "whole", of |-> of]
Idle == [at |-> "idle"]
Failed == [ok |-> FALSE, created |-> {}]

TypeOK ==
  /\ steps \in [StepIds -> Cuts]
  /\ DOMAIN disk = Files /\ \A f \in Files : disk[f].is \in {"missing", "partial", "whole"}
  /\ checkpoint \subseteq StepIds
  /\ render.at \in {"idle", "next", "run"}
  /\ render # Idle => render.step \in StepIds /\ render.entries \cup render.created \subseteq StepIds
  /\ report.ok \in BOOLEAN /\ report.created \subseteq StepIds
  /\ touches \in 0..MaxTouches /\ rendered \in 0..MaxCalls /\ loose \in Files
  /\ {changed, cut} \subseteq BOOLEAN

Init ==
  /\ steps = [i \in StepIds |-> CHOOSE c \in Cuts : TRUE]
  /\ disk = [f \in Files |-> IF f = Source THEN Whole(CHOOSE p \in Pictures : TRUE) ELSE Missing]
  /\ checkpoint = {} /\ render = Idle /\ report = Failed
  /\ touches = 0 /\ rendered = 0 /\ loose = Source /\ changed = FALSE /\ cut = FALSE
-----------------------------------------------------------------------------
\* What an uninterrupted render of the plan makes of each file.
wanted[f \in Files] ==
  IF f = Source THEN disk[Source]
  ELSE Whole([args |-> steps[f], from |-> [g \in Plan[f] |-> wanted[g]]])

\* render(): the checkpoint is read once.
Begin ==
  /\ render = Idle /\ rendered < MaxCalls /\ rendered' = rendered + 1
  /\ render' = [at |-> "next", step |-> 1, entries |-> checkpoint, created |-> {}]
  /\ report' = Failed
  /\ UNCHANGED <<steps, disk, checkpoint, touches, loose, changed, cut>>

reusable_Present(i) == i \in render.entries /\ disk[i] # Missing

\* Recorded as completed, and on disk at the size that was recorded.
reusable(i) == i \in render.entries /\ disk[i].is = "whole"

Answer(ok, files) ==
  /\ render' = Idle
  /\ report' = IF ok THEN [ok |-> TRUE, created |-> files, got |-> disk'[Len(Plan)],
                             asked |-> wanted[Len(Plan)]]
             ELSE Failed

GoOn(entries, created) ==
  IF render.step = Len(Plan) THEN Answer(TRUE, created)
  ELSE /\ render' = [at |-> "next", step |-> render.step + 1, entries |-> entries,
                     created |-> created]
       /\ UNCHANGED report

Reuse ==
  /\ render.at = "next" /\ reusable(render.step)
  /\ disk' = disk /\ GoOn(render.entries, render.created)
  /\ UNCHANGED <<steps, checkpoint, touches, rendered, loose, changed, cut>>

\* _check_sources, and ffmpeg -y begins the file anew.
StartStep ==
  LET i == render.step IN
  /\ render.at = "next" /\ ~reusable(i)
  /\ \A f \in Plan[i] : disk[f] # Missing
  /\ render' = [at |-> "run", step |-> i, entries |-> render.entries, created |-> render.created,
                making |-> Whole([args |-> steps[i], from |-> [f \in Plan[i] |-> disk[f]]])]
  /\ disk' = [disk EXCEPT ![i] = Partial]
  /\ UNCHANGED <<steps, checkpoint, report, touches, rendered, loose, changed, cut>>

\* ffmpeg exits with 0 and the file is there: recorded at once.  A checkpoint that cannot
\* be written is left as it was, or unreadable.
StepDone ==
  LET i == render.step IN
  /\ render.at = "run" /\ disk[i] # Missing
  /\ disk' = [disk EXCEPT ![i] = render.making]
  /\ checkpoint' \in {render.entries \cup {i}, checkpoint, {}}
  /\ GoOn(render.entries \cup {i}, render.created \cup {i})
  /\ UNCHANGED <<steps, touches, rendered, loose, changed, cut>>

\* A source is missing, ffmpeg fails, or it is killed for its time: the rest is not tried.
StepFails ==
  /\ \/ render.at = "run"
     \/ /\ render.at = "next" /\ ~reusable(render.step)
        /\ \E f \in Plan[render.step] : disk[f] = Missing
  /\ Answer(FALSE, {})
  /\ UNCHANGED <<steps, disk, checkpoint, touches, rendered, loose, changed, cut>>

\* The process dies with the ffmpeg it started, perhaps while it writes the checkpoint.
Dies ==
  /\ render # Idle /\ Answer(FALSE, {})
  /\ checkpoint' \in {checkpoint, {}} /\ loose' = Source
  /\ UNCHANGED <<steps, disk, touches, rendered, changed, cut>>

\* The caller's own time is up: the coroutine goes, the ffmpeg it started stays.
Cancelled ==
  /\ render.at = "run" /\ Answer(FALSE, {})
  /\ loose' = render.step /\ cut' = TRUE
  /\ UNCHANGED <<steps, disk, checkpoint, touches, rendered, changed>>

\* It ends on its own, into whatever that file has become since.
LooseEnds ==
  /\ loose # Source /\ loose' = Source
  /\ disk' = [disk EXCEPT ![loose] = IF @ = Missing THEN @ ELSE Whole("mixed")]
  /\ UNCHANGED <<steps, checkpoint, render, report, touches, rendered, changed, cut>>
-----------------------------------------------------------------------------
Touches == touches < MaxTouches /\ touches' = touches + 1
begun == \E i \in StepIds : disk[i] # Missing

\* A request carries its plan; the next one may carry another, or find another picture.
ChangeStep(i, c) ==
  /\ Touches /\ render = Idle /\ steps[i] # c
  /\ steps' = [steps EXCEPT ![i] = c] /\ changed' = (changed \/ begun)
  /\ UNCHANGED <<disk, checkpoint, render, report, rendered, loose, cut>>

ChangePicture(p) ==
  /\ Touches /\ render = Idle /\ disk[Source] # Whole(p)
  /\ disk' = [disk EXCEPT ![Source] = Whole(p)] /\ changed' = (changed \/ begun)
  /\ UNCHANGED <<steps, checkpoint, render, report, rendered, loose, cut>>

DeleteFile(i) ==
  /\ Touches /\ disk[i] # Missing
  /\ disk' = [disk EXCEPT ![i] = Missing]
  /\ UNCHANGED <<steps, checkpoint, render, report, rendered, loose, changed, cut>>

\* undo_media_edit: every file the call wrote goes, until one cannot be deleted.
UndoEdit ==
  /\ report.ok /\ render = Idle /\ Touches
  /\ \E S \in SUBSET report.created :
       disk' = [f \in Files |-> IF f \in S THEN Missing ELSE disk[f]]
  /\ report' = Failed
  /\ UNCHANGED <<steps, checkpoint, render, rendered, loose, changed, cut>>

Next ==
  \/ Begin \/ Reuse \/ StartStep \/ StepDone \/ StepFails \/ Dies \/ Cancelled \/ LooseEnds
  \/ \E i \in StepIds : DeleteFile(i) \/ \E c \in Cuts : ChangeStep(i, c)
  \/ \E p \in Pictures : ChangePicture(p)
  \/ UndoEdit

Spec == Init /\ [][Next]_renderVars
-----------------------------------------------------------------------------
\* "The work already done is still good afterwards" (plan.py): a render that was resumed,
\* after failures, crashes, lost checkpoints, deleted files and undos, is the one an
\* uninterrupted call would have made.  Not if the plan or the picture changed in between, and
\* not if a cancelled call left its ffmpeg behind.
ResumeIsFaithful ==
  report.ok /\ ~changed /\ ~cut => report.got = report.asked

\* A half-written file is re-rendered "rather than handed to the next step": no finished
\* file was made from an unfinished one, whatever changed.
NoHalfFileIsRead ==
  \A i \in StepIds :
    disk[i].is = "whole" /\ ~cut => \A f \in Plan[i] : disk[i].of.from[f].is = "whole"

\* "It is not the artefact this plan produced" (reusable): also when the plan or the
\* picture has changed, an answer that says ok holds what was asked for.
AnswerIsWhatWasAsked == report.ok /\ ~cut => report.got = report.asked
=============================================================================
