------------------------------- MODULE Canvas -------------------------------
(***************************************************************************)
(* The workflow builder: the graph the owner draws (WorkflowBuilder.tsx,   *)
(* lib/workflow.ts), the server that previews it and turns it into a rule  *)
(* (automation/workflow.py, routers/automations.py), and the requests      *)
(* between them, which are answered late, refused or lost.                 *)
(*                                                                         *)
(* Conditions are a set that all must hold, and are left out, as are names *)
(* and places.  What a box does is a value; NotSet stands for every        *)
(* setting the server refuses.  A list of rules that overtakes a newer one *)
(* on its way is not modelled.  The engine's side of a rule is in          *)
(* AutomationEngine.                                                       *)
(***************************************************************************)
EXTENDS Naturals, Sequences, FiniteSets, SequencesExt, Selection

CONSTANTS Settings, NotSet,
          Suggested,    \* the rule Thursday suggested before the owner draws one
          MaxBoxes, MaxRules, MaxSaves, MaxActs

VARIABLES
  graph,     \* what is on the canvas
  editing,   \* the rule the next save replaces, or None
  report,    \* the server's last verdict, of this graph or an older one
  saves,     \* the saves under way
  listed,    \* the rules as the client last listed them
  due,       \* a listing is under way
  rules,     \* the server's rules, in the order in which they were made
  drawn,     \* history: the graph each rule was saved from
  mine,      \* history: the rule that the canvas shows
  acts       \* how much the owner has done

canvasVars == <<graph, editing, report, saves, listed, due, rules, drawn, mine, acts>>

None == 0
Ids == 0..MaxBoxes
Box == [kind : {"trigger", "action"}, id : Ids, does : Settings \cup {NotSet}]
Empty == [boxes |-> <<>>, order |-> <<>>, split |-> None]

Rule == [trigger : Settings, actions : Seq(Settings), followUps : Seq(Settings),
         enabled : BOOLEAN, kept : BOOLEAN]

TypeOK ==
  /\ \A i \in DOMAIN graph.boxes : graph.boxes[i] \in Box
  /\ \A i \in DOMAIN graph.order : graph.order[i] \in Ids
  /\ graph.split \in 0..MaxBoxes
  /\ {editing, mine} \subseteq 0..MaxRules /\ report \in {"none", "valid", "errors"}
  /\ due \in BOOLEAN /\ acts \in 0..MaxActs
  /\ \A i \in DOMAIN rules : rules[i] \in Rule
  /\ DOMAIN drawn = DOMAIN rules /\ Len(listed) <= Len(rules)
-----------------------------------------------------------------------------
(* The canvas (lib/workflow.ts).                                           *)

Of(g, kind) == Chosen(g.boxes, {b \in Range(g.boxes) : b.kind = kind})
Actions(g) == Of(g, "action")
named(g, kind) == {b.id : b \in Range(Of(g, kind))}
BoxOf(g, id) == Actions(g)[SelectLastInSeq(Actions(g), LAMBDA b : b.id = id)]
NotAmong(g, ids) == {b \in Range(Actions(g)) : b.id \notin Range(ids)}

\* Unused, and predictable: never the number of boxes, which removal brings back.
nextId(g, kind) == CHOOSE n \in 1..(MaxBoxes + 1) :
  n \notin named(g, kind) /\ \A m \in 1..(n - 1) : m \in named(g, kind)

addNode(g, kind, does) ==
  LET id == nextId(g, kind) IN
  [g EXCEPT !.boxes = Append(@, [kind |-> kind, id |-> id, does |-> does]),
            !.order = IF kind = "action" THEN Append(@, id) ELSE @]

removeNode_Ordered(g, b) ==
  LET without == [g EXCEPT !.boxes = Chosen(g.boxes, Range(g.boxes) \ {b})] IN
  [without EXCEPT !.split = IF @ <= Len(Actions(without)) THEN @ ELSE None]
removeNode(g, b) ==
  LET without == [g EXCEPT !.boxes = Chosen(g.boxes, Range(g.boxes) \ {b})] IN
  [without EXCEPT !.order = IF b.kind = "action" THEN Chosen(@, Range(@) \ {b.id}) ELSE @,
                  !.split = IF @ <= Len(Actions(without)) THEN @ ELSE None]

setNode(g, i, does) == [g EXCEPT !.boxes[i].does = does]

\* Earlier or later is one swap of neighbours.
reorder(g, i) == [g EXCEPT !.order = [@ EXCEPT ![i] = g.order[i + 1], ![i + 1] = g.order[i]]]

\* The order in which the boxes are numbered: as listed, then what the order forgot.
orderedActions(g) ==
  LET inOrder == Chosen(g.order, named(g, "action")) IN
  [i \in DOMAIN inOrder |-> BoxOf(g, inOrder[i])] \o Chosen(Actions(g), NotAmong(g, inOrder))

localProblems(g) == Len(Of(g, "trigger")) # 1 \/ Actions(g) = <<>>
blocked == IF report = "none" THEN localProblems(graph) ELSE report = "errors"
-----------------------------------------------------------------------------
(* The server (automation/workflow.py).                                    *)

\* Workflow.actions takes each id once out of a dictionary, then what the order forgot.
popped(g) ==
  LET upTo[n \in 0..Len(g.order)] ==
        IF n = 0 THEN <<>>
        ELSE IF g.order[n] \in named(g, "action") \ Range(upTo[n - 1])
             THEN Append(upTo[n - 1], g.order[n])
             ELSE upTo[n - 1]
  IN upTo[Len(g.order)]
actions(g) ==
  LET ids == popped(g) IN
  [i \in DOMAIN ids |-> BoxOf(g, ids[i])] \o Chosen(Actions(g), NotAmong(g, ids))

\* validate(): nothing in it is an error.
valid(g) ==
  /\ ~localProblems(g)
  /\ \A i \in DOMAIN g.boxes : g.boxes[i].does # NotSet
  /\ g.split \in 0..Len(actions(g))

\* to_automation and from_automation.
does(boxes) == [i \in DOMAIN boxes |-> boxes[i].does]
toRule(g, enabled) ==
  LET all == does(actions(g))
      split == IF g.split = None THEN Len(all) ELSE g.split
  IN  [trigger |-> Of(g, "trigger")[1].does, enabled |-> enabled, kept |-> TRUE,
       actions |-> SubSeq(all, 1, split), followUps |-> SubSeq(all, split + 1, Len(all))]
toGraph(r) ==
  LET all == r.actions \o r.followUps IN
  [boxes |-> <<[kind |-> "trigger", id |-> 0, does |-> r.trigger]>>
               \o [i \in DOMAIN all |-> [kind |-> "action", id |-> i - 1, does |-> all[i]]],
   order |-> [i \in DOMAIN all |-> i - 1],
   split |-> IF r.followUps = <<>> THEN None ELSE Len(r.actions)]

Init ==
  /\ graph = Empty /\ editing = None /\ report = "none" /\ saves = <<>>
  /\ rules = <<[trigger |-> Suggested.trigger, actions |-> Suggested.actions,
                followUps |-> Suggested.followUps, enabled |-> FALSE, kept |-> TRUE]>>
  /\ listed = <<>> /\ due = TRUE /\ drawn = <<toGraph(rules[1])>> /\ mine = None /\ acts = 0
-----------------------------------------------------------------------------
Act == acts < MaxActs /\ acts' = acts + 1

\* An older graph's preview is dropped; its verdict is shown until the new one comes, unless
\* the canvas is empty.
Shows(g) ==
  /\ graph' = g
  /\ report' = IF g.boxes = <<>> THEN "none" ELSE report
Edit(g) ==
  /\ Act /\ g # graph /\ Shows(g)
  /\ UNCHANGED <<editing, saves, listed, due, rules, drawn, mine>>

Add(kind, setting) == Len(graph.boxes) < MaxBoxes /\ Edit(addNode(graph, kind, setting))
Discard(i) == Edit(removeNode(graph, graph.boxes[i]))
Set(i, setting) == Edit(setNode(graph, i, setting))
Reorder(i) == Edit(reorder(graph, i))

\* Every graph's preview is asked for.  One that fails shows as one that has not returned.
PreviewReturns ==
  /\ graph.boxes # <<>>
  /\ report' = IF valid(graph) THEN "valid" ELSE "errors"
  /\ UNCHANGED <<graph, editing, saves, listed, due, rules, drawn, mine, acts>>

\* Another drawing: the saves under way are not of it.
left == [i \in DOMAIN saves |-> [saves[i] EXCEPT !.here = FALSE]]
Open(r) ==
  /\ Act /\ listed[r].kept
  /\ Shows(toGraph(listed[r])) /\ editing' = r /\ mine' = r /\ saves' = left
  /\ UNCHANGED <<listed, due, rules, drawn>>
StartAgain ==
  /\ Act /\ Shows(Empty) /\ editing' = None /\ mine' = None /\ saves' = left
  /\ UNCHANGED <<listed, due, rules, drawn>>

Save ==
  /\ Act /\ ~blocked /\ Len(saves) < MaxSaves
  /\ saves' = Append(saves, [graph |-> graph, rule |-> editing, at |-> "sent", here |-> TRUE])
  /\ UNCHANGED <<graph, editing, report, listed, due, rules, drawn, mine>>

\* create() and update(): the server looks for itself, and an edit does not arm or disarm.
Create(i) ==
  /\ saves[i].at = "sent" /\ saves[i].rule = None /\ valid(saves[i].graph)
  /\ Len(rules) < MaxRules
  /\ rules' = Append(rules, toRule(saves[i].graph, FALSE))
  /\ drawn' = Append(drawn, saves[i].graph)
  /\ saves' = [saves EXCEPT ![i].at = "answered", ![i].rule = Len(rules) + 1]
  /\ UNCHANGED <<graph, editing, report, listed, due, mine, acts>>
Update(i) ==
  LET r == saves[i].rule IN
  /\ saves[i].at = "sent" /\ r # None /\ rules[r].kept /\ valid(saves[i].graph)
  /\ rules' = [rules EXCEPT ![r] = toRule(saves[i].graph, @.enabled)]
  /\ drawn' = [drawn EXCEPT ![r] = saves[i].graph]
  /\ saves' = [saves EXCEPT ![i].at = "answered"]
  /\ UNCHANGED <<graph, editing, report, listed, due, mine, acts>>

Over(i) == saves' = RemoveAt(saves, i)
SaveReturns(i) ==
  /\ saves[i].at = "answered" /\ Over(i)
  /\ editing' = saves[i].rule /\ due' = TRUE
  /\ mine' = IF saves[i].here THEN saves[i].rule ELSE mine
  /\ UNCHANGED <<graph, report, listed, rules, drawn, acts>>

\* Refused, or the request or its answer is lost: an error is shown, and nothing else happens.
SaveFails(i) ==
  /\ Over(i)
  /\ UNCHANGED <<graph, editing, report, listed, due, rules, drawn, mine, acts>>

Refreshed ==
  /\ due /\ due' = FALSE /\ listed' = rules
  /\ UNCHANGED <<graph, editing, report, saves, rules, drawn, mine, acts>>

\* The buttons of a listed rule; one that is gone answers 404.
Enable(r) ==
  /\ Act /\ listed[r].kept /\ rules[r].kept
  /\ rules' = [rules EXCEPT ![r].enabled = ~listed[r].enabled] /\ due' = TRUE
  /\ UNCHANGED <<graph, editing, report, saves, listed, drawn, mine>>
Delete(r) ==
  /\ Act /\ listed[r].kept /\ rules[r].kept
  /\ rules' = [rules EXCEPT ![r].kept = FALSE] /\ due' = TRUE
  /\ UNCHANGED <<graph, editing, report, saves, listed, drawn, mine>>

Next ==
  \/ \E kind \in {"trigger", "action"}, setting \in Settings \cup {NotSet} : Add(kind, setting)
  \/ \E i \in DOMAIN graph.boxes :
       Discard(i) \/ \E setting \in Settings \cup {NotSet} : Set(i, setting)
  \/ \E i \in 1..(Len(graph.order) - 1) : Reorder(i)
  \/ PreviewReturns \/ StartAgain \/ Save \/ Refreshed
  \/ \E i \in DOMAIN saves : Create(i) \/ Update(i) \/ SaveReturns(i) \/ SaveFails(i)
  \/ \E r \in DOMAIN listed : Open(r) \/ Enable(r) \/ Delete(r)

Spec == Init /\ [][Next]_canvasVars
-----------------------------------------------------------------------------
\* "A picture that disagrees with behaviour is worse than no picture": what a saved rule does,
\* in which order and with which follow-ups, is what the boxes of its drawing were numbered.
\* It is a complete rule, although the button went by the verdict on an earlier graph.
follows(g) == IF g.split = None THEN Len(Actions(g)) ELSE g.split
PictureIsTheRule == \A r \in DOMAIN rules :
  LET g == drawn[r] numbered == does(orderedActions(g)) IN
  /\ numbered = rules[r].actions \o rules[r].followUps
  /\ Len(rules[r].actions) = follows(g) /\ rules[r].actions # <<>>
  /\ NotSet \notin Range(numbered) \cup {rules[r].trigger}

\* "It converts, both ways": a rule that is opened and saved as it is stays what it is.
OpeningChangesNothing == \A r \in DOMAIN rules :
  valid(toGraph(rules[r])) /\ toRule(toGraph(rules[r]), rules[r].enabled) = [rules[r] EXCEPT !.kept = TRUE]

\* Every box is numbered once, whatever was drawn, removed and opened before.
BoxesAreTold == \A kind \in {"trigger", "action"} :
  Cardinality(named(graph, kind)) = Len(Of(graph, kind))

\* Refuted: a save that returns after the owner has gone on to another drawing makes the next
\* save replace the first one's rule.
SavesGoHome == editing = mine

\* Refuted: a drawing that is saved twice before the first answer comes back, or whose answer
\* is lost, becomes two rules.
DrawnOnce == \A i, j \in DOMAIN rules : i # j => drawn[i] # drawn[j]
=============================================================================
