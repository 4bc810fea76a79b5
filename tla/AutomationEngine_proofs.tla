------------------------ MODULE AutomationEngine_proofs ------------------------
(***************************************************************************)
(* What the automation engine keeps for every set of rules, shapes,        *)
(* publishers and limits, proved.  Every step of an actor puts its stack   *)
(* of calls into one form - what stays, and the calls put on top of it -   *)
(* and the invariants are carried over that form.                          *)
(***************************************************************************)
EXTENDS AutomationEngine, Selection_proofs

-------------------------------------------------------------------------------
(* The objects of the rules, the calls, and what is always so of them.       *)

Versions == [rule : Rules, version : Nat \ {0}]
Drawings == [is : UNION {Drawn[r] : r \in Rules}, enabled : BOOLEAN, runs : Nat]
Frames ==
  [in : {"sent"}, kind : Kinds] \cup [in : {"event"}, kind : Kinds, rest : Seq(Versions)]
  \cup [in : {"run"}, of : Versions, pc : Int]
  \cup [in : {"sweep"}, minute : Minutes, rest : Seq(Versions)]

Typed ==
  /\ made \in [Rules -> Seq(Drawings)] /\ listed \in Seq(Rules) /\ armed \subseteq Rules
  /\ fired \in [Rules -> Minutes \cup {None}] /\ raised \in Seq(Minutes)
  /\ level \in Levels /\ clock \in Minutes /\ broken \subseteq Minutes
  /\ swept \in [Rules -> [Minutes -> Nat]]
  /\ stack \in [Actors -> Seq(Frames)]

\* An id is in the registry once, and has an object; a rule that has an object that is enabled
\* was armed.
Registered ==
  /\ \A i, j \in 1..Len(listed) : listed[i] = listed[j] => i = j
  /\ \A i \in 1..Len(listed) : made[listed[i]] # <<>>
  /\ \A r \in Rules : \A v \in 1..Len(made[r]) : made[r][v].enabled => r \in armed

\* What a call holds is there, only the worker sweeps and does so beneath all else, what a
\* sweep has still to run was armed, and what runs was armed or is run by the owner's hand.
Real(o, objects) == o.version \in 1..Len(objects[o.rule])
Stands(a, i, f, objects, arms, minute) ==
  /\ f.in = "sweep" <=> a = "worker" /\ i = 1
  /\ f.in = "run" => Real(f.of, objects) /\ (i > 1 \/ a # "desk" => f.of.rule \in arms)
  /\ f.in \in {"event", "sweep"} => \A j \in 1..Len(f.rest) : Real(f.rest[j], objects)
  /\ f.in = "sweep" => f.minute <= minute /\ \A j \in 1..Len(f.rest) : f.rest[j].rule \in arms
Standing ==
  \A a \in Actors : \A i \in 1..Len(stack[a]) : Stands(a, i, stack[a][i], made, armed, clock)

EngineInv == Typed /\ Registered /\ Standing

\* A step keeps the first k calls of an actor, and puts others on top of them.
Piled(a, k, calls) ==
  /\ stack' \in [Actors -> Seq(Frames)]
  /\ \A b \in Actors \ {a} : stack'[b] = stack[b]
  /\ Len(stack'[a]) = k + Len(calls)
  /\ \A i \in 1..k : stack'[a][i] = stack[a][i]
  /\ \A i \in 1..Len(calls) : stack'[a][k + i] = calls[i]

\* The calls that are left when one returns or goes on.
LEMMA Fronts ==
  ASSUME NEW S, NEW s \in Seq(S), s # <<>>
  PROVE  /\ Front(s) \in Seq(S) /\ Len(Front(s)) = Len(s) - 1 /\ Len(s) \in Nat \ {0}
         /\ \A i \in 1..(Len(s) - 1) : Front(s)[i] = s[i]
         /\ Last(s) = s[Len(s)]
<1>1. Len(s) \in Nat \ {0} /\ \A i \in 1..Len(s) : s[i] \in S
  OBVIOUS
<1>2. \A i \in 1..(Len(s) - 1) : s[i] \in S
  BY <1>1
<1> DEFINE n == Len(s) - 1
           t == SubSeq(s, 1, n)
<1>3. n \in Nat /\ 1 \in Int /\ \A i \in 1..n : s[i] \in S
  BY <1>1, <1>2
<1> HIDE DEF n
<1>4. /\ t \in Seq(S) /\ Len(t) = IF 1 <= n THEN n - 1 + 1 ELSE 0
      /\ \A i \in 1..(n - 1 + 1) : t[i] = s[1 + i - 1]
  BY <1>3, SubSeqProperties
<1> HIDE DEF t
<1>5. Len(t) = n /\ \A i \in 1..n : t[i] = s[i]
  <2>1. Len(t) = n
    BY <1>3, <1>4
  <2>2. ASSUME NEW i \in 1..n PROVE t[i] = s[i]
    <3>1. i \in 1..(n - 1 + 1) /\ 1 + i - 1 = i
      BY <1>3
    <3> QED
      BY <1>4, <3>1
  <2> QED
    BY <2>1, <2>2
<1>6. Front(s) = t
  BY DEF Front, t, n
<1> QED
  BY <1>1, <1>4, <1>5, <1>6 DEF n, Last

\* A call that goes on is replaced by itself and what it calls.
LEMMA Continues ==
  ASSUME Typed, NEW a \in Actors, stack[a] # <<>>, NEW calls \in Seq(Frames), Continue(a, calls)
  PROVE  Piled(a, Len(stack[a]) - 1, calls)
<1> DEFINE s == stack[a]
           new == Front(s) \o calls
<1>1. s \in Seq(Frames) /\ s # <<>>
  BY DEF Typed
<1> HIDE DEF s
<1>2. /\ Front(s) \in Seq(Frames) /\ Len(Front(s)) = Len(s) - 1 /\ Len(s) \in Nat \ {0}
      /\ \A i \in 1..(Len(s) - 1) : Front(s)[i] = s[i]
  BY <1>1, Fronts
<1>3. /\ new \in Seq(Frames) /\ Len(new) = Len(Front(s)) + Len(calls)
      /\ \A i \in 1..(Len(Front(s)) + Len(calls)) :
           new[i] = IF i <= Len(Front(s)) THEN Front(s)[i] ELSE calls[i - Len(Front(s))]
  BY <1>2, ConcatProperties
<1>4. Len(calls) \in Nat
  OBVIOUS
<1> HIDE DEF new
<1>5. ASSUME NEW i \in 1..(Len(s) - 1) PROVE new[i] = s[i]
  <2>1. i \in 1..(Len(Front(s)) + Len(calls)) /\ i <= Len(Front(s))
    BY <1>2, <1>4
  <2> QED
    BY <1>2, <1>3, <2>1
<1>6. ASSUME NEW i \in 1..Len(calls) PROVE new[(Len(s) - 1) + i] = calls[i]
  <2> DEFINE m == Len(Front(s))
  <2>1. m \in Nat /\ m = Len(s) - 1
    BY <1>2
  <2> HIDE DEF m
  <2>2. m + i \in 1..(m + Len(calls)) /\ ~(m + i <= m) /\ (m + i) - m = i
    BY <1>4, <2>1
  <2>3. new[m + i] = calls[i]
    BY <1>3, <2>2 DEF m
  <2> QED
    BY <2>1, <2>3
<1>7. stack' = [stack EXCEPT ![a] = new]
  BY DEF Continue, s, new
<1> QED
  BY <1>2, <1>3, <1>5, <1>6, <1>7 DEF Piled, Typed, s

\* What is called goes on top.
LEMMA Calls ==
  ASSUME Typed, NEW a \in Actors, NEW calls \in Seq(Frames), Call(a, calls)
  PROVE  Piled(a, Len(stack[a]), calls)
<1> DEFINE s == stack[a]
           new == s \o calls
<1>1. s \in Seq(Frames) /\ Len(s) \in Nat /\ Len(calls) \in Nat
  BY DEF Typed
<1> HIDE DEF s
<1>3. /\ new \in Seq(Frames) /\ Len(new) = Len(s) + Len(calls)
      /\ \A i \in 1..(Len(s) + Len(calls)) :
           new[i] = IF i <= Len(s) THEN s[i] ELSE calls[i - Len(s)]
  BY <1>1, ConcatProperties
<1> HIDE DEF new
<1>5. \A i \in 1..Len(s) : new[i] = s[i]
  BY <1>1, <1>3, SMTT(60)
<1>6. \A i \in 1..Len(calls) : new[Len(s) + i] = calls[i]
  BY <1>1, <1>3, SMTT(60)
<1>7. stack' = [stack EXCEPT ![a] = new]
  BY DEF Call, s, new
<1> QED
  BY <1>1, <1>3, <1>5, <1>6, <1>7 DEF Piled, Typed, s

\* A call that returns is gone, and with it the run that had only waited for it.
LEMMA Returns ==
  ASSUME Typed, NEW a \in Actors, stack[a] # <<>>, Return(a)
  PROVE  \/ Piled(a, Len(stack[a]) - 1, <<>>)
         \/ /\ Len(stack[a]) >= 2 /\ ended(stack[a][Len(stack[a]) - 1])
            /\ Piled(a, Len(stack[a]) - 2, <<>>)
<1> DEFINE s == stack[a]
           below == Front(s)
           rest_ == Front(below)
<1>1. s \in Seq(Frames) /\ s # <<>>
  BY DEF Typed
<1> HIDE DEF s
<1>2. /\ below \in Seq(Frames) /\ Len(below) = Len(s) - 1 /\ Len(s) \in Nat \ {0}
      /\ \A i \in 1..(Len(s) - 1) : below[i] = s[i]
  BY <1>1, Fronts
<1>3. stack' = [stack EXCEPT ![a] = IF below # <<>> /\ ended(Last(below)) THEN rest_ ELSE below]
  BY DEF Return, s
<1> HIDE DEF below
<1>4. CASE stack' = [stack EXCEPT ![a] = below]
  <2>1. stack' \in [Actors -> Seq(Frames)] /\ stack'[a] = below
        /\ \A b \in Actors \ {a} : stack'[b] = stack[b]
    BY <1>2, <1>4 DEF Typed
  <2>2. Len(<<>>) = 0 /\ \A i \in 1..Len(<<>>) : FALSE
    OBVIOUS
  <2> QED
    BY <1>2, <2>1, <2>2 DEF Piled, s
<1>5. CASE below # <<>> /\ ended(Last(below)) /\ stack' = [stack EXCEPT ![a] = rest_]
  <2>1. /\ rest_ \in Seq(Frames) /\ Len(rest_) = Len(below) - 1 /\ Len(below) \in Nat \ {0}
        /\ \A i \in 1..(Len(below) - 1) : rest_[i] = below[i]
        /\ Last(below) = below[Len(below)]
    BY <1>2, <1>5, Fronts
  <2> HIDE DEF rest_
  <2>2. stack' \in [Actors -> Seq(Frames)] /\ stack'[a] = rest_
        /\ \A b \in Actors \ {a} : stack'[b] = stack[b]
    BY <1>5, <2>1 DEF Typed
  <2>3. Len(s) >= 2 /\ Last(below) = s[Len(s) - 1]
    BY <1>2, <2>1
  <2>4. Len(rest_) = Len(s) - 2 /\ \A i \in 1..(Len(s) - 2) : rest_[i] = s[i]
    <3>1. Len(rest_) = Len(s) - 2
      BY <1>2, <2>1
    <3>2. ASSUME NEW i \in 1..(Len(s) - 2) PROVE rest_[i] = s[i]
      <4>1. i \in 1..(Len(s) - 1)
        BY <1>2
      <4>2. i \in 1..(Len(below) - 1)
        BY <1>2
      <4> QED
        BY <1>2, <2>1, <4>1, <4>2
    <3> QED
      BY <3>1, <3>2
  <2>5. Len(<<>>) = 0 /\ \A i \in 1..Len(<<>>) : FALSE
    OBVIOUS
  <2>6. Len(s) - 2 \in Nat
    BY <1>2, <2>3
  <2> QED
    BY <1>5, <2>2, <2>3, <2>4, <2>5, <2>6 DEF Piled, s
<1> QED
  BY <1>3, <1>4, <1>5

\* A set of places of a list that is not empty has a last one.
LEMMA LastPlace ==
  ASSUME NEW n \in Nat, NEW P \in SUBSET (1..n), P # {}
  PROVE  Max(P) \in P /\ \A x \in P : x <= Max(P)
<1> DEFINE Q == {n - x : x \in P}
<1>1. Q \in SUBSET Nat /\ Q # {}
  <2>1. PICK x \in P : TRUE
    OBVIOUS
  <2>2. n - x \in Q
    BY <2>1
  <2>3. ASSUME NEW y \in Q PROVE y \in Nat
    <3>1. PICK z \in P : y = n - z
      OBVIOUS
    <3>2. z \in 1..n
      OBVIOUS
    <3> HIDE DEF Q
    <3> QED
      BY <3>1, <3>2
  <2> HIDE DEF Q
  <2> QED
    BY <2>2, <2>3
<1>2. PICK y \in Q : \A z \in Q : ~(z < y)
  <2> HIDE DEF Q
  <2> QED
    BY <1>1, Smallest
<1>3. PICK x \in P : y = n - x
  BY <1>2
<1>4. \A z \in P : x >= z
  <2> SUFFICES ASSUME NEW z \in P, ~(x >= z) PROVE FALSE
    OBVIOUS
  <2>1. n - z \in Q /\ n - z < y
    BY <1>3
  <2> QED
    BY <1>2, <2>1
<1>5. \E m \in P : \A z \in P : m >= z
  BY <1>4
<1>6. Max(P) \in P /\ \A z \in P : Max(P) >= z
  BY <1>5 DEF Max
<1> QED
  BY <1>6

\* An exception ends every call above the last of the engine's handlers, and that one; with
\* none of them it ends all.
LEMMA Raises ==
  ASSUME Typed, NEW a \in Actors, stack[a] # <<>>,
         stack' = [stack EXCEPT ![a] = unwound(stack[a])]
  PROVE  \E k \in 0..(Len(stack[a]) - 1) :
            /\ Piled(a, k, <<>>)
            /\ \A j \in 1..Len(stack[a]) : stack[a][j].in = "event" => j <= k + 1
<1> DEFINE s == stack[a]
           handlers == {i \in 1..Len(s) : s[i].in = "event"}
<1>1. s \in Seq(Frames) /\ s # <<>> /\ Len(s) \in Nat \ {0}
  BY DEF Typed
<1>2. Len(<<>>) = 0 /\ \A i \in 1..Len(<<>>) : FALSE
  OBVIOUS
<1>3. unwound(s) = IF handlers = {} THEN <<>> ELSE SubSeq(s, 1, Max(handlers) - 1)
  BY DEF unwound
<1> HIDE DEF s
<1>4. CASE handlers = {}
  <2>1. stack' = [stack EXCEPT ![a] = <<>>]
    BY <1>3, <1>4 DEF s
  <2>2. <<>> \in Seq(Frames)
    OBVIOUS
  <2>3. Piled(a, 0, <<>>)
    BY <1>2, <2>1, <2>2 DEF Piled, Typed
  <2>4. 0 \in 0..(Len(s) - 1) /\ \A j \in 1..Len(s) : s[j].in # "event"
    BY <1>1, <1>4
  <2> QED
    BY <2>3, <2>4 DEF s
<1>5. CASE handlers # {}
  <2> DEFINE n == Max(handlers) - 1
             t == SubSeq(s, 1, n)
  <2>1. Max(handlers) \in handlers /\ \A x \in handlers : x <= Max(handlers)
    <3>1. handlers \in SUBSET (1..Len(s)) /\ Len(s) \in Nat
      BY <1>1
    <3> HIDE DEF handlers
    <3> QED
      BY <1>5, <3>1, LastPlace
  <2>2. n \in 0..(Len(s) - 1) /\ \A x \in handlers : x <= n + 1
    <3>1. Max(handlers) \in 1..Len(s) /\ \A x \in handlers : x \in 1..Len(s)
      BY <2>1
    <3> DEFINE top_ == Max(handlers)
    <3>2. top_ \in 1..Len(s) /\ \A x \in handlers : x <= top_ /\ x \in Int
      BY <2>1, <3>1
    <3> HIDE DEF top_, handlers
    <3>3. top_ - 1 \in 0..(Len(s) - 1) /\ \A x \in handlers : x <= (top_ - 1) + 1
      BY <1>1, <3>2
    <3> QED
      BY <3>3 DEF top_
  <2> HIDE DEF n
  <2>3. n \in Int /\ 1 \in Int /\ \A i \in 1..n : s[i] \in Frames
    BY <1>1, <2>2
  <2>4. /\ t \in Seq(Frames) /\ Len(t) = IF 1 <= n THEN n - 1 + 1 ELSE 0
        /\ \A i \in 1..(n - 1 + 1) : t[i] = s[1 + i - 1]
    BY <2>3, SubSeqProperties
  <2> HIDE DEF t
  <2>5. Len(t) = n
    BY <2>2, <2>4
  <2>6. ASSUME NEW i \in 1..n PROVE t[i] = s[i]
    <3>1. i \in 1..(n - 1 + 1) /\ 1 + i - 1 = i
      BY <2>2
    <3> QED
      BY <2>4, <3>1
  <2>7. stack' = [stack EXCEPT ![a] = t]
    BY <1>3, <1>5 DEF s, t, n
  <2>8. Piled(a, n, <<>>)
    BY <1>2, <2>2, <2>4, <2>5, <2>6, <2>7 DEF Piled, Typed, s
  <2>9. \A j \in 1..Len(s) : s[j].in = "event" => j <= n + 1
    BY <2>2
  <2> QED
    BY <2>2, <2>8, <2>9 DEF s
<1> QED
  BY <1>4, <1>5

-------------------------------------------------------------------------------
(* Time and the registry only go forward.                                    *)

Grows ==
  /\ made \in [Rules -> Seq(Drawings)] /\ made' \in [Rules -> Seq(Drawings)]
  /\ \A r \in Rules : Len(made[r]) <= Len(made'[r])
  /\ armed \subseteq armed'
  /\ clock \in Minutes /\ clock' \in Minutes /\ clock <= clock'

\* What stands goes on standing while time and the registry go forward.
LEMMA StandsOn ==
  ASSUME Grows, NEW a, NEW i, NEW f \in Frames, Stands(a, i, f, made, armed, clock)
  PROVE  Stands(a, i, f, made', armed', clock')
<1>1. ASSUME NEW o \in Versions, Real(o, made) PROVE Real(o, made')
  <2>1. o.rule \in Rules /\ o.version \in Nat
    BY DEF Versions
  <2>2. Len(made[o.rule]) \in Nat /\ Len(made'[o.rule]) \in Nat
        /\ Len(made[o.rule]) <= Len(made'[o.rule])
    BY <2>1 DEF Grows
  <2> QED
    BY <1>1, <2>1, <2>2 DEF Real
<1>2. f.in = "run" => f.of \in Versions
  BY DEF Frames
<1>3. f.in \in {"event", "sweep"} => \A j \in 1..Len(f.rest) : f.rest[j] \in Versions
  BY DEF Frames
<1>4. f.in = "sweep" => f.minute \in Int
  BY DEF Frames, Minutes
<1>5. clock \in Int /\ clock' \in Int
  BY DEF Grows, Minutes
<1>6. f.in = "run" => Real(f.of, made')
  BY <1>1, <1>2 DEF Stands
<1>7. f.in \in {"event", "sweep"} => \A j \in 1..Len(f.rest) : Real(f.rest[j], made')
  BY <1>1, <1>3 DEF Stands
<1>8. f.in = "sweep" => f.minute <= clock'
  BY <1>4, <1>5 DEF Stands, Grows
<1> QED
  BY <1>6, <1>7, <1>8 DEF Stands, Grows

\* A step that keeps some calls of an actor keeps all calls standing if the ones it adds do.
LEMMA StacksStand ==
  ASSUME EngineInv, Grows, NEW a \in Actors, NEW k \in 0..Len(stack[a]), NEW calls \in Seq(Frames),
         Piled(a, k, calls),
         \A i \in 1..Len(calls) : Stands(a, k + i, calls[i], made', armed', clock')
  PROVE  Standing'
<1>1. \A b \in Actors : \A i \in 1..Len(stack[b]) : stack[b][i] \in Frames
  BY DEF EngineInv, Typed
<1>2. \A b \in Actors : \A i \in 1..Len(stack[b]) : Stands(b, i, stack[b][i], made', armed', clock')
  BY <1>1, StandsOn DEF EngineInv, Standing
<1>3. SUFFICES ASSUME NEW b \in Actors, NEW i \in 1..Len(stack'[b])
               PROVE  Stands(b, i, stack'[b][i], made', armed', clock')
  BY DEF Standing
<1>4. CASE b # a
  BY <1>2, <1>4 DEF Piled
<1>5. CASE b = a /\ i <= k
  <2>1. Len(stack[a]) \in Nat
    BY DEF EngineInv, Typed
  <2>2. i \in 1..k /\ i \in 1..Len(stack[a])
    BY <1>5, <2>1
  <2> QED
    BY <1>2, <1>5, <2>2 DEF Piled
<1>6. CASE b = a /\ ~(i <= k)
  <2>1. Len(stack[a]) \in Nat /\ Len(calls) \in Nat
    BY DEF EngineInv, Typed
  <2>2. PICK n \in 1..Len(calls) : i = k + n
    <3>1. Len(stack'[a]) = k + Len(calls)
      BY DEF Piled
    <3>2. i - k \in 1..Len(calls) /\ i = k + (i - k)
      BY <1>6, <2>1, <3>1
    <3> QED
      BY <3>2
  <2>3. stack'[a][k + n] = calls[n]
    BY DEF Piled
  <2> QED
    BY <1>6, <2>2, <2>3
<1> QED
  BY <1>4, <1>5, <1>6

\* A step that touches no stack keeps all calls standing.
LEMMA StacksRest ==
  ASSUME EngineInv, Grows, UNCHANGED stack
  PROVE  Standing'
<1>1. \A b \in Actors : \A i \in 1..Len(stack[b]) : stack[b][i] \in Frames
  BY DEF EngineInv, Typed
<1>2. \A b \in Actors : \A i \in 1..Len(stack[b]) : Stands(b, i, stack[b][i], made', armed', clock')
  BY <1>1, StandsOn DEF EngineInv, Standing
<1> QED
  BY <1>2 DEF Standing

-------------------------------------------------------------------------------
(* The three ways a call goes on.                                            *)

\* What a step of an actor does to its calls: the ones it keeps, and those it puts on them,
\* stand; of those it drops, none is a run or a sweep cut short beneath a handler; and a sweep
\* beneath others stays as it is, or an exception ends it.
Contained(a) ==
  \A i \in Len(stack'[a]) + 1..Len(stack[a]) :
    stack[a][i].in \in {"run", "sweep"} /\ ~ended(stack[a][i]) =>
      \A j \in i + 1..Len(stack[a]) : stack[a][j].in # "event"
Rooted(a) ==
  Len(stack[a]) >= 2 /\ stack[a][1].in = "sweep" =>
    \/ Len(stack'[a]) >= 1 /\ stack'[a][1] = stack[a][1]
    \/ stack'[a] = <<>> /\ stack[a][1].minute \in broken'
Stacked(a) ==
  /\ \E k \in 0..Len(stack[a]) : \E calls \in Seq(Frames) :
       Piled(a, k, calls) /\ \A i \in 1..Len(calls) : Stands(a, k + i, calls[i], made', armed', clock')
  /\ Contained(a) /\ Rooted(a)

\* Calls that go put nothing on the ones they leave.
LEMMA Drops ==
  ASSUME NEW a \in Actors, NEW k \in 0..Len(stack[a]), Piled(a, k, <<>>), Contained(a), Rooted(a)
  PROVE  Stacked(a)
<1> DEFINE none == <<>>
<1>1. none \in Seq(Frames) /\ Piled(a, k, none) /\ 1..Len(none) = {}
  OBVIOUS
<1> HIDE DEF none
<1>2. \A i \in 1..Len(none) : Stands(a, k + i, none[i], made', armed', clock')
  BY <1>1
<1> QED
  BY <1>1, <1>2 DEF Stacked

\* A call that goes on, or calls others, is replaced in its place.
LEMMA GoesOn ==
  ASSUME EngineInv, NEW a \in Actors, stack[a] # <<>>, NEW calls \in Seq(Frames),
         Len(calls) >= 1, Continue(a, calls),
         \A i \in 1..Len(calls) :
           Stands(a, (Len(stack[a]) - 1) + i, calls[i], made', armed', clock')
  PROVE  Stacked(a)
<1>1. Piled(a, Len(stack[a]) - 1, calls)
  BY Continues DEF EngineInv
<1>2. Len(stack[a]) \in Nat \ {0} /\ Len(calls) \in Nat
  BY DEF EngineInv, Typed
<1>3. Len(stack'[a]) >= Len(stack[a])
  BY <1>1, <1>2 DEF Piled
<1>4. Contained(a)
  <2>1. Len(stack'[a]) + 1..Len(stack[a]) = {}
    BY <1>1, <1>2, <1>3 DEF Piled
  <2> QED
    BY <2>1 DEF Contained
<1>5. Len(stack[a]) - 1 \in 0..Len(stack[a])
  BY <1>2
<1>6. Rooted(a)
  <2>1. Len(stack[a]) >= 2 => 1 \in 1..(Len(stack[a]) - 1)
    BY <1>2
  <2>2. Len(stack'[a]) >= 1
    BY <1>2, <1>3
  <2> QED
    BY <1>1, <2>1, <2>2 DEF Piled, Rooted
<1> QED
  BY <1>1, <1>4, <1>5, <1>6 DEF Stacked

\* A call that returns takes nothing with it but a run that is over.
LEMMA ComesBack ==
  ASSUME EngineInv, NEW a \in Actors, stack[a] # <<>>, Return(a)
  PROVE  Stacked(a)
<1> DEFINE n == Len(stack[a])
<1>1. n \in Nat \ {0}
  BY DEF EngineInv, Typed
<1>2. <<>> \in Seq(Frames) /\ Len(<<>>) = 0
  OBVIOUS
<1>3. CASE Piled(a, n - 1, <<>>)
  <2>1. Len(stack'[a]) = n - 1 /\ n - 1 \in 0..n
    BY <1>1, <1>2, <1>3 DEF Piled
  <2>2. Contained(a)
    BY <1>1, <2>1 DEF Contained
  <2>3. Rooted(a)
    <3>1. n >= 2 => 1 \in 1..(n - 1) /\ n - 1 >= 1
      BY <1>1
    <3> QED
      BY <1>3, <2>1, <3>1 DEF Piled, Rooted
  <2> QED
    BY <1>3, <2>1, <2>2, <2>3, Drops
<1>4. CASE n >= 2 /\ ended(stack[a][n - 1]) /\ Piled(a, n - 2, <<>>)
  <2>1. Len(stack'[a]) = n - 2 /\ n - 2 \in 0..n
    BY <1>1, <1>2, <1>4 DEF Piled
  <2>2. Contained(a)
    <3>1. ASSUME NEW i \in Len(stack'[a]) + 1..Len(stack[a]), ~ended(stack[a][i]),
                 NEW j \in i + 1..Len(stack[a])
          PROVE  FALSE
      <4> HIDE DEF n
      <4>1. Len(stack[a]) = n
        BY DEF n
      <4>2. i \in (n - 2) + 1..n /\ j \in i + 1..n
        BY <2>1, <4>1
      <4>3. i = n - 1
        BY <1>1, <4>2
      <4> QED
        BY <1>4, <3>1, <4>3
    <3> QED
      BY <3>1 DEF Contained
  <2>3. Rooted(a)
    <3>1. CASE n = 2
      <4>1. stack[a][1].in = "run"
        BY <1>4, <3>1 DEF ended
      <4> QED
        BY <4>1 DEF Rooted
    <3>2. CASE n # 2
      <4>1. 1 \in 1..(n - 2) /\ n - 2 >= 1
        <5>1. n >= 2
          BY <1>4
        <5>2. \A x \in Nat \ {0} : x >= 2 /\ x # 2 => 1 \in 1..(x - 2) /\ x - 2 >= 1
          OBVIOUS
        <5> HIDE DEF n
        <5> QED
          BY <1>1, <3>2, <5>1, <5>2
      <4> QED
        BY <1>4, <2>1, <4>1 DEF Piled, Rooted
    <3> QED
      BY <3>1, <3>2
  <2> QED
    BY <1>4, <2>1, <2>2, <2>3, Drops
<1> QED
  BY <1>3, <1>4, Returns DEF EngineInv

\* An exception ends no run and no sweep that waits for the handler it comes to rest in.
LEMMA IsRaised ==
  ASSUME EngineInv, NEW a \in Actors, stack[a] # <<>>, Raise(a)
  PROVE  Stacked(a)
<1>1. stack' = [stack EXCEPT ![a] = unwound(stack[a])]
  BY DEF Raise
<1>2. PICK k \in 0..(Len(stack[a]) - 1) :
             /\ Piled(a, k, <<>>)
             /\ \A j \in 1..Len(stack[a]) : stack[a][j].in = "event" => j <= k + 1
  BY <1>1, Raises DEF EngineInv
<1>3. Len(stack[a]) \in Nat \ {0}
  BY DEF EngineInv, Typed
<1>4. <<>> \in Seq(Frames) /\ Len(<<>>) = 0
  OBVIOUS
<1>5. Len(stack'[a]) = k
  BY <1>2, <1>3, <1>4 DEF Piled
<1>6. Contained(a)
  <2>1. ASSUME NEW i \in Len(stack'[a]) + 1..Len(stack[a]), NEW j \in i + 1..Len(stack[a])
        PROVE  stack[a][j].in # "event"
    <3>1. i \in k + 1..Len(stack[a])
      BY <1>5
    <3>2. j \in 1..Len(stack[a]) /\ ~(j <= k + 1)
      BY <1>3, <3>1
    <3> QED
      BY <1>2, <3>2
  <2> QED
    BY <2>1 DEF Contained
<1>7. k \in 0..Len(stack[a])
  BY <1>3
<1>8. Rooted(a)
  <2>1. CASE k = 0
    <3>1. Len(stack'[a]) = 0 /\ stack'[a] \in Seq(Frames)
      BY <1>2, <1>5, <2>1 DEF Piled
    <3>2. stack'[a] = <<>>
      BY <3>1
    <3> QED
      BY <3>2 DEF Raise, Rooted
  <2>2. CASE k # 0
    <3>1. 1 \in 1..k /\ Len(stack'[a]) >= 1
      BY <1>3, <1>5, <2>2
    <3> QED
      BY <1>2, <3>1 DEF Piled, Rooted
  <2> QED
    BY <2>1, <2>2
<1> QED
  BY <1>2, <1>6, <1>7, <1>8, Drops

\* The call on top stands, and the ones it is made of are calls.
LEMMA TopStands ==
  ASSUME EngineInv, NEW a \in Actors, stack[a] # <<>>
  PROVE  /\ Len(stack[a]) \in Nat \ {0} /\ top(a) \in Frames
         /\ top(a) = stack[a][Len(stack[a])]
         /\ Stands(a, Len(stack[a]), top(a), made, armed, clock)
<1>1. Len(stack[a]) \in Nat \ {0} /\ stack[a] \in Seq(Frames)
  BY DEF EngineInv, Typed
<1>2. top(a) = stack[a][Len(stack[a])]
  BY <1>1 DEF top, Last
<1>3. Len(stack[a]) \in 1..Len(stack[a])
  BY <1>1
<1> QED
  BY <1>1, <1>2, <1>3 DEF EngineInv, Standing

\* What the owner's copy of the registry holds is there.
LEMMA CopiesAreReal ==
  ASSUME Typed, Registered
  PROVE  /\ snapshot \in Seq(Versions) /\ Len(snapshot) = Len(listed)
         /\ \A i \in 1..Len(listed) : /\ snapshot[i] = current(listed[i])
                                      /\ listed[i] \in Rules
                                      /\ Real(snapshot[i], made)
<1>1. Len(listed) \in Nat /\ \A i \in 1..Len(listed) : listed[i] \in Rules
  BY DEF Typed
<1>2. ASSUME NEW i \in 1..Len(listed)
      PROVE  current(listed[i]) \in Versions /\ Real(current(listed[i]), made)
  <2>1. made[listed[i]] \in Seq(Drawings) /\ made[listed[i]] # <<>>
    BY <1>1 DEF Typed, Registered
  <2>2. Len(made[listed[i]]) \in Nat \ {0}
    BY <2>1
  <2> QED
    BY <1>1, <2>2 DEF current, Versions, Real
<1>3. snapshot = [i \in 1..Len(listed) |-> current(listed[i])]
  BY DEF snapshot
<1>4. snapshot \in [1..Len(listed) -> Versions]
  BY <1>2, <1>3
<1>5. snapshot \in Seq(Versions) /\ Len(snapshot) = Len(listed)
  <2> HIDE DEF Versions
  <2> QED
    BY <1>1, <1>4
<1> QED
  BY <1>1, <1>2, <1>3, <1>5

-------------------------------------------------------------------------------
(* Every step of an actor.                                                   *)

\* A run stands anywhere but where the sweep does.
LEMMA RunStands ==
  ASSUME NEW a \in Actors, NEW i \in Nat \ {0}, ~(a = "worker" /\ i = 1),
         NEW o \in Versions, Real(o, made'), i > 1 \/ a # "desk" => o.rule \in armed',
         NEW pc \in Int
  PROVE  Running(o, pc) \in Frames /\ Stands(a, i, Running(o, pc), made', armed', clock')
<1>1. Running(o, pc).in = "run" /\ Running(o, pc).of = o
  BY DEF Running
<1>2. Running(o, pc) \in Frames
  BY DEF Running, Frames
<1> QED
  BY <1>1, <1>2 DEF Stands

\* So does an event that is sent, and a handler of one that has real objects to ask.
LEMMA EventStands ==
  ASSUME NEW a \in Actors, NEW i \in Nat \ {0}, ~(a = "worker" /\ i = 1), NEW k \in Kinds
  PROVE  /\ Published(k) \in Frames /\ Stands(a, i, Published(k), made', armed', clock')
         /\ \A q \in Seq(Versions) : (\A j \in 1..Len(q) : Real(q[j], made')) =>
              Asking(k, q) \in Frames /\ Stands(a, i, Asking(k, q), made', armed', clock')
<1>1. Published(k) \in Frames /\ Published(k).in = "sent"
  BY DEF Published, Frames
<1>2. ASSUME NEW q \in Seq(Versions), \A j \in 1..Len(q) : Real(q[j], made')
      PROVE  Asking(k, q) \in Frames /\ Stands(a, i, Asking(k, q), made', armed', clock')
  <2>1. Asking(k, q) \in Frames /\ Asking(k, q).in = "event" /\ Asking(k, q).rest = q
    BY DEF Asking, Frames
  <2> QED
    BY <1>2, <2>1 DEF Stands
<1> QED
  BY <1>1, <1>2 DEF Stands

\* One call in the place of the one on top.
LEMMA OneFor ==
  ASSUME EngineInv, NEW a \in Actors, stack[a] # <<>>, NEW f \in Frames, Continue(a, <<f>>),
         Stands(a, Len(stack[a]), f, made', armed', clock')
  PROVE  Stacked(a)
<1> DEFINE calls == <<f>>
<1>1. calls \in Seq(Frames) /\ Len(calls) = 1 /\ calls[1] = f /\ Continue(a, calls)
  OBVIOUS
<1>2. Len(stack[a]) \in Nat
  BY DEF EngineInv, Typed
<1> HIDE DEF calls
<1>3. ASSUME NEW i \in 1..Len(calls)
      PROVE  Stands(a, (Len(stack[a]) - 1) + i, calls[i], made', armed', clock')
  <2>1. i = 1 /\ (Len(stack[a]) - 1) + 1 = Len(stack[a])
    BY <1>1, <1>2
  <2> QED
    BY <1>1, <2>1
<1>4. Len(calls) >= 1
  BY <1>1
<1> QED
  BY <1>1, <1>3, <1>4, GoesOn, Zenon

\* Two calls in the place of the one on top.
LEMMA TwoFor ==
  ASSUME EngineInv, NEW a \in Actors, stack[a] # <<>>, NEW f \in Frames, NEW g \in Frames,
         Continue(a, <<f, g>>),
         Stands(a, Len(stack[a]), f, made', armed', clock'),
         Stands(a, Len(stack[a]) + 1, g, made', armed', clock')
  PROVE  Stacked(a)
<1> DEFINE calls == <<f, g>>
<1>1. calls \in Seq(Frames) /\ Len(calls) = 2 /\ calls[1] = f /\ calls[2] = g /\ Continue(a, calls)
  OBVIOUS
<1>2. Len(stack[a]) \in Nat
  BY DEF EngineInv, Typed
<1> HIDE DEF calls
<1>3. ASSUME NEW i \in 1..Len(calls)
      PROVE  Stands(a, (Len(stack[a]) - 1) + i, calls[i], made', armed', clock')
  <2>1. i \in {1, 2} /\ (Len(stack[a]) - 1) + 1 = Len(stack[a])
        /\ (Len(stack[a]) - 1) + 2 = Len(stack[a]) + 1
    BY <1>1, <1>2
  <2> QED
    BY <1>1, <2>1
<1>4. Len(calls) >= 1
  BY <1>1
<1> QED
  BY <1>1, <1>3, <1>4, GoesOn, Zenon

\* Three calls in the place of the one on top.
LEMMA ThreeFor ==
  ASSUME EngineInv, NEW a \in Actors, stack[a] # <<>>, NEW f \in Frames, NEW g \in Frames,
         NEW h \in Frames, Continue(a, <<f>> \o <<g, h>>),
         Stands(a, Len(stack[a]), f, made', armed', clock'),
         Stands(a, Len(stack[a]) + 1, g, made', armed', clock'),
         Stands(a, Len(stack[a]) + 2, h, made', armed', clock')
  PROVE  Stacked(a)
<1> DEFINE calls == <<f>> \o <<g, h>>
<1>1. /\ calls \in Seq(Frames) /\ Len(calls) = 3 /\ Continue(a, calls)
      /\ calls[1] = f /\ calls[2] = g /\ calls[3] = h
  OBVIOUS
<1>2. Len(stack[a]) \in Nat
  BY DEF EngineInv, Typed
<1> HIDE DEF calls
<1>3. ASSUME NEW i \in 1..Len(calls)
      PROVE  Stands(a, (Len(stack[a]) - 1) + i, calls[i], made', armed', clock')
  <2>1. i \in {1, 2, 3} /\ (Len(stack[a]) - 1) + 1 = Len(stack[a])
        /\ (Len(stack[a]) - 1) + 2 = Len(stack[a]) + 1
        /\ (Len(stack[a]) - 1) + 3 = Len(stack[a]) + 2
    BY <1>1, <1>2
  <2> QED
    BY <1>1, <2>1
<1>4. Len(calls) >= 1
  BY <1>1
<1> QED
  BY <1>1, <1>3, <1>4, GoesOn, Zenon

\* An object that is there stays.
LEMMA RealOn ==
  ASSUME Grows, NEW o \in Versions, Real(o, made)
  PROVE  Real(o, made')
<1>1. o.rule \in Rules /\ o.version \in Nat
  BY DEF Versions
<1>2. Len(made[o.rule]) \in Nat /\ Len(made'[o.rule]) \in Nat
      /\ Len(made[o.rule]) <= Len(made'[o.rule])
  BY <1>1 DEF Grows
<1> QED
  BY <1>1, <1>2 DEF Real

\* A rule with an object that is enabled was armed.
LEMMA EnabledIsArmed ==
  ASSUME Registered, NEW o \in Versions, Real(o, made), object(o).enabled
  PROVE  o.rule \in armed
<1>1. o.rule \in Rules
  BY DEF Versions
<1> QED
  BY <1>1 DEF Registered, Real, object

\* What is left of a list of objects is of it.
LEMMA TailOf ==
  ASSUME NEW q \in Seq(Versions), NEW n \in 1..Len(q)
  PROVE  /\ SubSeq(q, n + 1, Len(q)) \in Seq(Versions) /\ Len(SubSeq(q, n + 1, Len(q))) = Len(q) - n
         /\ \A j \in 1..(Len(q) - n) : SubSeq(q, n + 1, Len(q))[j] = q[n + j]
<1> DEFINE t == SubSeq(q, n + 1, Len(q))
<1>1. Len(q) \in Nat /\ n \in Nat
  OBVIOUS
<1>2. \A i \in (n + 1)..Len(q) : q[i] \in Versions
  <2> HIDE DEF Versions
  <2> QED
    BY <1>1
<1>3. n + 1 \in Int /\ Len(q) \in Int
  BY <1>1
<1>4. /\ t \in Seq(Versions)
      /\ Len(t) = IF n + 1 <= Len(q) THEN Len(q) - (n + 1) + 1 ELSE 0
      /\ \A i \in 1..(Len(q) - (n + 1) + 1) : t[i] = q[(n + 1) + i - 1]
  <2> HIDE DEF Versions
  <2> QED
    BY <1>2, <1>3, SubSeqProperties
<1> HIDE DEF t
<1>5. Len(t) = Len(q) - n
  BY <1>1, <1>4
<1>6. ASSUME NEW j \in 1..(Len(q) - n) PROVE t[j] = q[n + j]
  <2>1. j \in 1..(Len(q) - (n + 1) + 1) /\ (n + 1) + j - 1 = n + j
    BY <1>1
  <2> QED
    BY <1>4, <2>1
<1> QED
  BY <1>4, <1>5, <1>6 DEF t

\* What a handler has still to ask is there.
LEMMA RestIsReal ==
  ASSUME EngineInv, NEW a \in Actors, stack[a] # <<>>, top(a).in \in {"sent", "event"}
  PROVE  rest(a) \in Seq(Versions) /\ \A j \in 1..Len(rest(a)) : Real(rest(a)[j], made)
<1>1. CASE top(a).in = "sent"
  <2>1. rest(a) = snapshot
    BY <1>1 DEF rest
  <2>2. /\ snapshot \in Seq(Versions) /\ Len(snapshot) = Len(listed)
        /\ \A i \in 1..Len(listed) : Real(snapshot[i], made)
    BY CopiesAreReal DEF EngineInv
  <2> QED
    BY <2>1, <2>2
<1>2. CASE top(a).in = "event"
  <2>1. rest(a) = top(a).rest
    BY <1>2 DEF rest
  <2>2. top(a) \in Frames /\ Stands(a, Len(stack[a]), top(a), made, armed, clock)
    BY TopStands
  <2>3. top(a).rest \in Seq(Versions)
    BY <1>2, <2>2 DEF Frames
  <2> QED
    BY <1>2, <2>1, <2>2, <2>3 DEF Stands
<1> QED
  BY <1>1, <1>2

\* A sweep that goes on runs rules that were armed.
LEMMA SweepStacks ==
  ASSUME EngineInv, Grows, NEW a \in Actors, SweepGoesOn(a)
  PROVE  Stacked(a)
<1> DEFINE f == top(a)
<1>1. stack[a] # <<>> /\ f.in = "sweep"
  BY DEF SweepGoesOn, In
<1>2. /\ Len(stack[a]) \in Nat \ {0} /\ f \in Frames
      /\ Stands(a, Len(stack[a]), f, made, armed, clock)
  BY <1>1, TopStands
<1>3. CASE f.rest = <<>>
  <2>1. Return(a)
    BY <1>3 DEF SweepGoesOn
  <2> QED
    BY <1>1, <2>1, ComesBack
<1>4. CASE f.rest # <<>>
  <2> DEFINE o == Head(f.rest)
             left == Tail(f.rest)
  <2>1. Continue(a, <<Sweeping(f.minute, left)>> \o Run(o))
    BY <1>4 DEF SweepGoesOn
  <2> HIDE DEF f
  <2>2. f.minute \in Minutes /\ f.rest \in Seq(Versions)
    BY <1>1, <1>2 DEF Frames
  <2>3. /\ a = "worker" /\ Len(stack[a]) = 1 /\ f.minute <= clock
        /\ \A j \in 1..Len(f.rest) : Real(f.rest[j], made) /\ f.rest[j].rule \in armed
    BY <1>1, <1>2 DEF Stands
  <2>4. /\ Len(f.rest) \in Nat \ {0} /\ o = f.rest[1] /\ o \in Versions
        /\ left \in Seq(Versions) /\ Len(left) = Len(f.rest) - 1
        /\ \A j \in 1..(Len(f.rest) - 1) : left[j] = f.rest[j + 1]
    <3> HIDE DEF Versions
    <3> QED
      BY <1>4, <2>2
  <2> HIDE DEF o, left
  <2>5. Real(o, made') /\ o.rule \in armed'
    <3>1. 1 \in 1..Len(f.rest)
      BY <2>4
    <3>2. Real(o, made) /\ o.rule \in armed
      BY <2>3, <2>4, <3>1
    <3> QED
      BY <2>4, <3>2, RealOn DEF Grows
  <2>6. ASSUME NEW j \in 1..Len(left) PROVE Real(left[j], made') /\ left[j].rule \in armed'
    <3>1. j \in 1..(Len(f.rest) - 1) /\ j + 1 \in 1..Len(f.rest)
      BY <2>4
    <3>2. left[j] = f.rest[j + 1] /\ left[j] \in Versions
      BY <2>4, <3>1
    <3>3. Real(left[j], made) /\ left[j].rule \in armed
      BY <2>3, <3>1, <3>2
    <3> QED
      BY <3>2, <3>3, RealOn DEF Grows
  <2>7. f.minute <= clock'
    BY <2>2, <2>3 DEF Grows, Minutes
  <2> DEFINE new == Sweeping(f.minute, left)
  <2>8. new \in Frames /\ new.in = "sweep" /\ new.rest = left /\ new.minute = f.minute
    BY <2>2, <2>4 DEF Sweeping, Frames
  <2> HIDE DEF new
  <2>9. Stands(a, 1, new, made', armed', clock')
    BY <2>3, <2>6, <2>7, <2>8 DEF Stands
  <2>10. /\ Running(o, 1) \in Frames /\ Stands(a, 2, Running(o, 1), made', armed', clock')
         /\ Published("automation.triggered") \in Frames
         /\ Stands(a, 3, Published("automation.triggered"), made', armed', clock')
    <3>1. "automation.triggered" \in Kinds
      BY DEF Kinds
    <3> QED
      BY <2>4, <2>5, <3>1, RunStands, EventStands
  <2>11. Continue(a, <<new>> \o <<Running(o, 1), Published("automation.triggered")>>)
    BY <2>1 DEF Run, new
  <2>12. Len(stack[a]) = 1 /\ Len(stack[a]) + 1 = 2 /\ Len(stack[a]) + 2 = 3
    BY <2>3
  <2> QED
    BY <1>1, <2>8, <2>9, <2>10, <2>11, <2>12, ThreeFor
<1> QED
  BY <1>3, <1>4

\* A handler that finds a rule runs one that was armed.
LEMMA FireStacks ==
  ASSUME EngineInv, Grows, NEW a \in Actors, FireRule(a)
  PROVE  Stacked(a)
<1>1. stack[a] # <<>> /\ top(a).in \in {"sent", "event"}
  BY DEF FireRule, In
<1>2. /\ Len(stack[a]) \in Nat \ {0} /\ top(a) \in Frames
      /\ Stands(a, Len(stack[a]), top(a), made, armed, clock)
  BY <1>1, TopStands
<1> DEFINE q == rest(a)
           k == top(a).kind
           L == Len(stack[a])
<1>3. q \in Seq(Versions) /\ \A j \in 1..Len(q) : Real(q[j], made)
  BY <1>1, RestIsReal
<1>4. k \in Kinds /\ ~(a = "worker" /\ L = 1)
  BY <1>1, <1>2 DEF Frames, Stands
<1>5. PICK i \in 1..Len(q) :
        /\ matches(q[i], k)
        /\ Continue(a, <<Asking(k, SubSeq(q, i + 1, Len(q)))>> \o Run(q[i]))
  BY DEF FireRule
<1> HIDE DEF q, k
<1> DEFINE o == q[i]
           left == SubSeq(q, i + 1, Len(q))
<1>6. /\ left \in Seq(Versions) /\ Len(left) = Len(q) - i
      /\ \A j \in 1..(Len(q) - i) : left[j] = q[i + j]
  BY <1>3, TailOf
<1>7. o \in Versions /\ Real(o, made)
  <2> HIDE DEF Versions
  <2> QED
    BY <1>3
<1>8. o.rule \in armed
  <2>1. object(o).enabled
    BY <1>5 DEF matches
  <2> QED
    BY <1>7, <2>1, EnabledIsArmed DEF EngineInv
<1> HIDE DEF o, left
<1>9. Real(o, made') /\ o.rule \in armed'
  BY <1>7, <1>8, RealOn DEF Grows
<1>10. ASSUME NEW j \in 1..Len(left) PROVE Real(left[j], made')
  <2>1. j \in 1..(Len(q) - i) /\ i + j \in 1..Len(q)
    BY <1>3, <1>6
  <2>2. left[j] = q[i + j] /\ left[j] \in Versions
    BY <1>6, <2>1
  <2> QED
    BY <1>3, <2>1, <2>2, RealOn
<1>11. Asking(k, left) \in Frames /\ Stands(a, L, Asking(k, left), made', armed', clock')
  BY <1>2, <1>4, <1>6, <1>10, EventStands
<1>12. /\ L + 1 \in Nat \ {0} /\ ~(a = "worker" /\ L + 1 = 1)
       /\ L + 2 \in Nat \ {0} /\ ~(a = "worker" /\ L + 2 = 1)
  BY <1>2
<1>13. Running(o, 1) \in Frames /\ Stands(a, L + 1, Running(o, 1), made', armed', clock')
  BY <1>7, <1>9, <1>12, RunStands
<1>14. /\ Published("automation.triggered") \in Frames
       /\ Stands(a, L + 2, Published("automation.triggered"), made', armed', clock')
  <2>1. "automation.triggered" \in Kinds
    BY DEF Kinds
  <2> QED
    BY <1>12, <2>1, EventStands
<1>15. Continue(a, <<Asking(k, left)>> \o <<Running(o, 1), Published("automation.triggered")>>)
  BY <1>5 DEF Run, o, left
<1> QED
  BY <1>1, <1>11, <1>13, <1>14, <1>15, ThreeFor

\* A run that goes on is where it was, and what it says stands on it.
LEMMA RunGoesOn ==
  ASSUME EngineInv, Grows, NEW a \in Actors, In(a, "run"), NEW pc \in Int
  PROVE  /\ Continue(a, <<Running(top(a).of, pc)>>) => Stacked(a)
         /\ \A k \in Kinds :
              Continue(a, <<Running(top(a).of, pc), Published(k)>>) => Stacked(a)
<1>1. stack[a] # <<>> /\ top(a).in = "run"
  BY DEF In
<1>2. /\ Len(stack[a]) \in Nat \ {0} /\ top(a) \in Frames
      /\ Stands(a, Len(stack[a]), top(a), made, armed, clock)
  BY <1>1, TopStands
<1> DEFINE o == top(a).of
           L == Len(stack[a])
<1>3. o \in Versions
  BY <1>1, <1>2 DEF Frames
<1>4. Real(o, made) /\ (L > 1 \/ a # "desk" => o.rule \in armed) /\ ~(a = "worker" /\ L = 1)
  BY <1>1, <1>2 DEF Stands
<1> HIDE DEF o
<1>5. Real(o, made') /\ (L > 1 \/ a # "desk" => o.rule \in armed')
  BY <1>3, <1>4, RealOn DEF Grows
<1>6. Running(o, pc) \in Frames /\ Stands(a, L, Running(o, pc), made', armed', clock')
  BY <1>2, <1>3, <1>4, <1>5, RunStands
<1>7. L + 1 \in Nat \ {0} /\ ~(a = "worker" /\ L + 1 = 1)
  BY <1>2
<1>8. ASSUME NEW k \in Kinds
      PROVE  Published(k) \in Frames /\ Stands(a, L + 1, Published(k), made', armed', clock')
  BY <1>7, EventStands
<1>9. Continue(a, <<Running(o, pc)>>) => Stacked(a)
  BY <1>1, <1>6, OneFor
<1>10. ASSUME NEW k \in Kinds, Continue(a, <<Running(o, pc), Published(k)>>) PROVE Stacked(a)
  BY <1>1, <1>6, <1>8, <1>10, TwoFor
<1> QED
  BY <1>3, <1>9, <1>10 DEF o

\* Every step of an actor leaves its calls standing.
LEMMA StepStacks ==
  ASSUME EngineInv, Grows, NEW a \in Actors, Step(a)
  PROVE  Stacked(a)
<1>0. {"automation.completed", "notification.raised", "task.created", "tool.executed",
       "tool.failed", "approval.required"} \subseteq Kinds
  BY DEF Kinds
<1> DEFINE next == top(a).pc + 1
<1>00. ASSUME In(a, "run") PROVE next \in Int
  <2>1. top(a) \in Frames /\ top(a).in = "run"
    BY <1>00, TopStands DEF In
  <2>2. top(a).pc \in Int
    BY <2>1 DEF Frames
  <2> QED
    BY <2>2
<1>1. ASSUME NEW k \in Kinds, In(a, "run"), Publish(a, k) PROVE Stacked(a)
  <2>1. next \in Int
    BY <1>00, <1>1
  <2> QED
    BY <1>1, <2>1, RunGoesOn DEF Publish
<1>2. CASE SweepGoesOn(a)
  BY <1>2, SweepStacks
<1>3. CASE FireRule(a)
  BY <1>3, FireStacks
<1>4. CASE EventDone(a)
  <2>1. stack[a] # <<>> /\ Return(a)
    BY <1>4 DEF EventDone, In
  <2> QED
    BY <2>1, ComesBack
<1>5. CASE Notify(a)
  BY <1>0, <1>1, <1>5 DEF Notify, At
<1>6. CASE StaySilent(a)
  <2>1. In(a, "run") /\ Continue(a, <<Running(top(a).of, top(a).pc + 1)>>)
    BY <1>6 DEF StaySilent, At
  <2>2. next \in Int
    BY <1>00, <2>1
  <2> QED
    BY <2>1, <2>2, RunGoesOn
<1>7. CASE CreateTask(a)
  <2>1. In(a, "run") /\ stack[a] # <<>> /\ (Publish(a, "task.created") \/ Raise(a))
    BY <1>7 DEF CreateTask, At, In
  <2> QED
    BY <1>0, <1>1, <2>1, IsRaised
<1>8. CASE UseTool(a)
  <2>1. In(a, "run") /\ stack[a] # <<>>
    BY <1>8 DEF UseTool, At, In
  <2>2. CASE Publish(a, "tool.executed") \/ Raise(a)
    BY <1>0, <1>1, <2>1, <2>2, IsRaised
  <2>3. ASSUME NEW k \in {"tool.failed", "approval.required"},
               Continue(a, <<Running(top(a).of, None), Published(k)>>)
        PROVE  Stacked(a)
    <3>1. None \in Int /\ k \in Kinds
      BY <1>0 DEF None
    <3> QED
      BY <2>1, <2>3, <3>1, RunGoesOn
  <2> QED
    BY <1>8, <2>2, <2>3 DEF UseTool
<1>9. CASE ToolRaises(a)
  <2>1. stack[a] # <<>> /\ Raise(a)
    BY <1>9 DEF ToolRaises, In
  <2> QED
    BY <2>1, IsRaised
<1>10. CASE RunEnds(a)
  BY <1>0, <1>1, <1>10 DEF RunEnds
<1> QED
  BY <1>2, <1>3, <1>4, <1>5, <1>6, <1>7, <1>8, <1>9, <1>10 DEF Step

-------------------------------------------------------------------------------
(* What begins a stack.                                                      *)

\* The first calls of an actor stand if each does.
LEMMA Begins ==
  ASSUME EngineInv, NEW a \in Actors, stack[a] = <<>>, NEW calls \in Seq(Frames), Call(a, calls),
         \A i \in 1..Len(calls) : Stands(a, i, calls[i], made', armed', clock')
  PROVE  Stacked(a)
<1>1. Piled(a, Len(stack[a]), calls)
  BY Calls DEF EngineInv
<1>2. Len(stack[a]) = 0
  OBVIOUS
<1>3. Len(calls) \in Nat /\ \A i \in 1..Len(calls) : 0 + i = i
  OBVIOUS
<1>4. Contained(a)
  <2>1. Len(stack'[a]) = Len(calls)
    BY <1>1, <1>2, <1>3 DEF Piled
  <2>2. Len(stack'[a]) + 1..Len(stack[a]) = {}
    BY <1>2, <1>3, <2>1
  <2> QED
    BY <2>2 DEF Contained
<1>5. Piled(a, 0, calls) /\ 0 \in 0..Len(stack[a])
  BY <1>1, <1>2
<1>6. \A i \in 1..Len(calls) : Stands(a, 0 + i, calls[i], made', armed', clock')
  BY <1>3
<1>7. Rooted(a)
  BY <1>2 DEF Rooted
<1> QED
  BY <1>4, <1>5, <1>6, <1>7 DEF Stacked

\* What a sweep finds due is there, is in the registry and was armed.
LEMMA DueIsArmed ==
  ASSUME EngineInv,
         NEW ready, ready = Chosen(snapshot, {o \in ToSet(snapshot) : due(o)})
  PROVE  /\ ready \in Seq(Versions)
         /\ \A j \in 1..Len(ready) :
              /\ Real(ready[j], made) /\ ready[j].rule \in armed /\ due(ready[j])
              /\ \E i \in 1..Len(listed) : ready[j] = current(listed[i])
<1> DEFINE S == {o \in ToSet(snapshot) : due(o)}
<1>1. /\ snapshot \in Seq(Versions) /\ Len(snapshot) = Len(listed)
      /\ \A i \in 1..Len(listed) : snapshot[i] = current(listed[i]) /\ Real(snapshot[i], made)
  BY CopiesAreReal DEF EngineInv
<1>2. S \subseteq ToSet(snapshot) /\ \A o \in S : due(o)
  OBVIOUS
<1> HIDE DEF S
<1>3. /\ ready \in Seq(Versions)
      /\ \A j \in 1..Len(ready) :
           ready[j] \in S /\ \E i \in 1..Len(snapshot) : ready[j] = snapshot[i]
  <2>1. ready = Chosen(snapshot, S)
    BY DEF S
  <2>2. snapshot \in Seq(Versions)
    BY <1>1
  <2> DEFINE q == snapshot
  <2>3. q \in Seq(Versions)
    BY <2>2
  <2> HIDE DEF q
  <2>4. Chosen(q, S) \in Seq(Versions)
    BY <2>3, ChosenOf
  <2>5. \A j \in 1..Len(Chosen(q, S)) :
           Chosen(q, S)[j] \in S /\ \E i \in 1..Len(q) : Chosen(q, S)[j] = q[i]
    BY <2>3, ChosenOf
  <2> QED
    BY <2>1, <2>4, <2>5 DEF q
<1>4. ASSUME NEW j \in 1..Len(ready)
      PROVE  /\ Real(ready[j], made) /\ ready[j].rule \in armed /\ due(ready[j])
             /\ \E i \in 1..Len(listed) : ready[j] = current(listed[i])
  <2>1. ready[j] \in S /\ \E i \in 1..Len(snapshot) : ready[j] = snapshot[i]
    BY <1>3
  <2>2. PICK i \in 1..Len(listed) : ready[j] = snapshot[i]
    BY <1>1, <2>1
  <2>3. ready[j] \in Versions
    <3> HIDE DEF Versions
    <3> QED
      BY <1>3
  <2>4. Real(ready[j], made) /\ ready[j] = current(listed[i])
    BY <1>1, <2>2
  <2>5. due(ready[j])
    BY <1>2, <2>1
  <2>6. ready[j].rule \in armed
    BY <2>3, <2>4, <2>5, EnabledIsArmed DEF EngineInv, due
  <2> QED
    BY <2>4, <2>5, <2>6
<1> QED
  BY <1>3, <1>4

\* A sweep begins with rules that were armed.
LEMMA SweepBeginsStacks ==
  ASSUME EngineInv, Grows, SweepBegins
  PROVE  Stacked("worker")
<1> DEFINE ready == Chosen(snapshot, {o \in ToSet(snapshot) : due(o)})
           f == Sweeping(clock, ready)
           calls == <<f>>
<1>1. stack["worker"] = <<>> /\ Call("worker", calls) /\ "worker" \in Actors
  BY DEF SweepBegins, Actors
<1>2. /\ ready \in Seq(Versions)
      /\ \A j \in 1..Len(ready) : Real(ready[j], made) /\ ready[j].rule \in armed
  BY DueIsArmed
<1> HIDE DEF ready
<1>3. \A j \in 1..Len(ready) : Real(ready[j], made') /\ ready[j].rule \in armed'
  <2>1. \A j \in 1..Len(ready) : ready[j] \in Versions
    <3> HIDE DEF Versions
    <3> QED
      BY <1>2
  <2> QED
    BY <1>2, <2>1, RealOn DEF Grows
<1>4. clock \in Minutes /\ clock <= clock'
  BY DEF Grows
<1>5. f \in Frames /\ f.in = "sweep" /\ f.rest = ready /\ f.minute = clock
  BY <1>2, <1>4 DEF Sweeping, Frames
<1> HIDE DEF f
<1>6. Stands("worker", 1, f, made', armed', clock')
  BY <1>3, <1>4, <1>5 DEF Stands
<1>7. calls \in Seq(Frames) /\ Len(calls) = 1 /\ calls[1] = f
  BY <1>5
<1> HIDE DEF calls
<1>8. \A i \in 1..Len(calls) : Stands("worker", i, calls[i], made', armed', clock')
  BY <1>6, <1>7
<1> QED
  BY <1>1, <1>7, <1>8, Begins, Zenon

\* The owner may run any rule that is there.
LEMMA RunNowStacks ==
  ASSUME EngineInv, Grows, NEW r \in Rules, RunNow(r)
  PROVE  Stacked("desk")
<1> DEFINE o == current(r)
           f == Running(o, 1)
           g == Published("automation.triggered")
           calls == <<f, g>>
<1>1. stack["desk"] = <<>> /\ Call("desk", calls) /\ "desk" \in Actors
  BY DEF RunNow, Run, Actors
<1>2. PICK n \in 1..Len(listed) : listed[n] = r
  BY DEF RunNow, Contains
<1>3. o \in Versions /\ Real(o, made)
  <2>1. made[r] \in Seq(Drawings) /\ made[r] # <<>>
    BY <1>2 DEF EngineInv, Typed, Registered
  <2>2. Len(made[r]) \in Nat \ {0}
    BY <2>1
  <2> QED
    BY <2>2 DEF current, Versions, Real
<1> HIDE DEF o
<1>4. Real(o, made')
  BY <1>3, RealOn
<1>5. f \in Frames /\ Stands("desk", 1, f, made', armed', clock')
  <2>1. ~("desk" = "worker" /\ 1 = 1) /\ 1 \in Nat \ {0} /\ 1 \in Int
    OBVIOUS
  <2>2. 1 > 1 \/ "desk" # "desk" => o.rule \in armed'
    OBVIOUS
  <2> QED
    BY <1>1, <1>3, <1>4, <2>1, <2>2, RunStands, Zenon
<1>6. g \in Frames /\ Stands("desk", 2, g, made', armed', clock')
  <2>1. "automation.triggered" \in Kinds /\ 2 \in Nat \ {0} /\ ~("desk" = "worker" /\ 2 = 1)
    BY DEF Kinds
  <2> QED
    BY <1>1, <2>1, EventStands
<1> HIDE DEF f, g
<1>7. calls \in Seq(Frames) /\ Len(calls) = 2 /\ calls[1] = f /\ calls[2] = g
  BY <1>5, <1>6
<1> HIDE DEF calls
<1>8. \A i \in 1..Len(calls) : Stands("desk", i, calls[i], made', armed', clock')
  <2>1. \A i \in 1..Len(calls) : i \in {1, 2}
    BY <1>7
  <2> QED
    BY <1>5, <1>6, <1>7, <2>1
<1> QED
  BY <1>1, <1>7, <1>8, Begins, Zenon

\* Whoever publishes does not sweep.
LEMMA HappensStacks ==
  ASSUME EngineInv, Grows, NEW p \in Publishers, Happens(p)
  PROVE  Stacked(p)
<1>1. p \in Actors /\ p # "worker"
  BY AutomationAssumption DEF Actors
<1>2. PICK k \in Outside : stack[p] = <<>> /\ Call(p, <<Published(k)>>)
  BY DEF Happens
<1> DEFINE f == Published(k)
           calls == <<f>>
<1>3. f \in Frames /\ Stands(p, 1, f, made', armed', clock')
  <2>1. k \in Kinds
    BY DEF Kinds
  <2> QED
    BY <1>1, <2>1, EventStands
<1> HIDE DEF f
<1>4. calls \in Seq(Frames) /\ Len(calls) = 1 /\ calls[1] = f /\ Call(p, calls)
  BY <1>2, <1>3 DEF f
<1> HIDE DEF calls
<1>5. \A i \in 1..Len(calls) : Stands(p, i, calls[i], made', armed', clock')
  BY <1>3, <1>4
<1> QED
  BY <1>1, <1>2, <1>4, <1>5, Begins, Zenon

\* Who moves leaves its calls standing, and all others where they are.
LEMMA MoverKeeps ==
  ASSUME EngineInv, Grows, NEW a \in Actors, Stacked(a)
  PROVE  Standing' /\ stack' \in [Actors -> Seq(Frames)] /\ \A b \in Actors : Contained(b)
<1>1. PICK k \in 0..Len(stack[a]), calls \in Seq(Frames) :
        Piled(a, k, calls) /\ \A i \in 1..Len(calls) : Stands(a, k + i, calls[i], made', armed', clock')
  BY DEF Stacked
<1>2. Standing'
  BY <1>1, StacksStand
<1>3. stack' \in [Actors -> Seq(Frames)] /\ \A b \in Actors \ {a} : stack'[b] = stack[b]
  BY <1>1 DEF Piled
<1>4. ASSUME NEW b \in Actors PROVE Contained(b)
  <2>1. CASE b = a
    BY <2>1 DEF Stacked
  <2>2. CASE b # a
    <3>1. Len(stack[b]) \in Nat /\ stack'[b] = stack[b]
      BY <1>3, <2>2 DEF EngineInv, Typed
    <3> QED
      BY <3>1 DEF Contained
  <2> QED
    BY <2>1, <2>2
<1> QED
  BY <1>2, <1>3, <1>4

\* Every step leaves the calls standing.
LEMMA StacksMove ==
  ASSUME EngineInv, Grows, [Next]_vars
  PROVE  Standing' /\ stack' \in [Actors -> Seq(Frames)] /\ \A b \in Actors : Contained(b)
<1>1. CASE UNCHANGED stack
  <2>1. Standing' /\ stack' \in [Actors -> Seq(Frames)]
    BY <1>1, StacksRest DEF EngineInv, Typed
  <2>2. ASSUME NEW b \in Actors PROVE Contained(b)
    <3>1. Len(stack[b]) \in Nat /\ stack'[b] = stack[b]
      BY <1>1 DEF EngineInv, Typed
    <3> QED
      BY <3>1 DEF Contained
  <2> QED
    BY <2>1, <2>2
<1>2. ASSUME NEW r \in Rules, RunNow(r) PROVE Stacked("desk") /\ "desk" \in Actors
  BY <1>2, RunNowStacks DEF Actors
<1>3. ASSUME SweepBegins PROVE Stacked("worker") /\ "worker" \in Actors
  BY <1>3, SweepBeginsStacks DEF Actors
<1>4. ASSUME NEW p \in Publishers, Happens(p) PROVE Stacked(p) /\ p \in Actors
  BY <1>4, HappensStacks DEF Actors
<1>5. ASSUME NEW a \in Actors, Step(a) PROVE Stacked(a)
  BY <1>5, StepStacks
<1>6. ASSUME NEW r \in Rules,
             Draw(r) \/ Edit(r) \/ RemoveRule(r) \/ (\E to \in BOOLEAN : Enable(r, to))
      PROVE  UNCHANGED stack
  BY <1>6 DEF Draw, Edit, RemoveRule, Enable
<1>7. ASSUME (\E l \in Levels : SetLevel(l)) \/ Tick \/ UNCHANGED vars
      PROVE  UNCHANGED stack
  BY <1>7 DEF SetLevel, Tick, vars
<1>8. UNCHANGED stack \/ \E a \in Actors : Stacked(a)
  BY <1>2, <1>3, <1>4, <1>5, <1>6, <1>7 DEF Next
<1> QED
  BY <1>1, <1>8, MoverKeeps

-------------------------------------------------------------------------------
(* The registry.                                                             *)

\* Adding an object keeps those that are there, under one entry of the registry each.
LEMMA AddKeeps ==
  ASSUME Typed, Registered, NEW r \in Rules, NEW new \in Drawings,
         new.enabled => r \in armed', armed \subseteq armed', armed' \subseteq Rules, Add(r, new)
  PROVE  /\ made' \in [Rules -> Seq(Drawings)] /\ listed' \in Seq(Rules)
         /\ \A q \in Rules : Len(made[q]) <= Len(made'[q])
         /\ Registered'
<1>1. made' = [made EXCEPT ![r] = Append(made[r], new)]
  BY DEF Add
<1>2. made \in [Rules -> Seq(Drawings)] /\ made[r] \in Seq(Drawings) /\ Len(made[r]) \in Nat
  BY DEF Typed
<1>3. /\ Append(made[r], new) \in Seq(Drawings) /\ Len(Append(made[r], new)) = Len(made[r]) + 1
      /\ \A v \in 1..Len(made[r]) : Append(made[r], new)[v] = made[r][v]
      /\ Append(made[r], new)[Len(made[r]) + 1] = new
  BY <1>2
<1>4. made' \in [Rules -> Seq(Drawings)]
  BY <1>1, <1>2, <1>3
<1>5. /\ Len(made'[r]) = Len(made[r]) + 1
      /\ \A v \in 1..Len(made[r]) : made'[r][v] = made[r][v]
      /\ made'[r][Len(made[r]) + 1] = new
      /\ \A q \in Rules \ {r} : made'[q] = made[q]
  BY <1>1, <1>2, <1>3
<1>6. ASSUME NEW q \in Rules PROVE Len(made[q]) <= Len(made'[q])
  <2>1. Len(made[q]) \in Nat
    BY <1>2
  <2> QED
    BY <1>2, <1>5, <2>1
<1>7. ASSUME NEW q \in Rules, NEW v \in 1..Len(made'[q]), made'[q][v].enabled PROVE q \in armed'
  <2>1. CASE q # r
    BY <1>5, <1>7, <2>1 DEF Registered
  <2>2. CASE q = r /\ v \in 1..Len(made[r])
    BY <1>5, <1>7, <2>2 DEF Registered
  <2>3. CASE q = r /\ v = Len(made[r]) + 1
    BY <1>5, <1>7, <2>3
  <2>4. q = r => v \in 1..Len(made[r]) \/ v = Len(made[r]) + 1
    BY <1>2, <1>5
  <2> QED
    BY <2>1, <2>2, <2>3, <2>4
<1>8. listed \in Seq(Rules) /\ Len(listed) \in Nat
  BY DEF Typed
<1>9. CASE Contains(listed, r)
  <2>1. listed' = listed
    BY <1>9 DEF Add
  <2>2. \A i \in 1..Len(listed) : made'[listed[i]] # <<>>
    <3>1. ASSUME NEW i \in 1..Len(listed) PROVE made'[listed[i]] # <<>>
      <4>1. listed[i] \in Rules /\ made[listed[i]] # <<>>
        BY <1>8 DEF Registered
      <4>2. Len(Append(made[r], new)) # 0
        BY <1>2, <1>3
      <4>3. made'[r] # <<>>
        BY <1>1, <1>2, <4>2
      <4> QED
        BY <1>5, <4>1, <4>3
    <3> QED
      BY <3>1
  <2> QED
    BY <1>4, <1>6, <1>7, <1>8, <2>1, <2>2 DEF Registered
<1>10. CASE ~Contains(listed, r)
  <2>1. listed' = Append(listed, r)
    BY <1>10 DEF Add
  <2>2. /\ listed' \in Seq(Rules) /\ Len(listed') = Len(listed) + 1
        /\ \A i \in 1..Len(listed) : listed'[i] = listed[i]
        /\ listed'[Len(listed) + 1] = r
    BY <1>8, <2>1
  <2>3. \A i \in 1..Len(listed) : listed[i] # r
    BY <1>10 DEF Contains
  <2>4. ASSUME NEW i \in 1..Len(listed'), NEW j \in 1..Len(listed'), listed'[i] = listed'[j]
        PROVE  i = j
    <3>1. i \in 1..Len(listed) \/ i = Len(listed) + 1
      BY <1>8, <2>2
    <3>2. j \in 1..Len(listed) \/ j = Len(listed) + 1
      BY <1>8, <2>2
    <3> QED
      BY <2>2, <2>3, <2>4, <3>1, <3>2 DEF Registered
  <2>5. ASSUME NEW i \in 1..Len(listed') PROVE made'[listed'[i]] # <<>>
    <3>1. i \in 1..Len(listed) \/ i = Len(listed) + 1
      BY <1>8, <2>2
    <3>2. Len(Append(made[r], new)) # 0
      BY <1>2, <1>3
    <3>3. made'[r] # <<>>
      BY <1>1, <1>2, <3>2
    <3>4. i \in 1..Len(listed) => listed[i] \in Rules /\ made[listed[i]] # <<>>
      BY <1>8 DEF Registered
    <3> QED
      BY <1>5, <2>2, <3>1, <3>3, <3>4
  <2> QED
    BY <1>4, <1>6, <1>7, <2>2, <2>4, <2>5 DEF Registered
<1> QED
  BY <1>9, <1>10

\* What every step owes the registry.
Registers ==
  /\ made' \in [Rules -> Seq(Drawings)] /\ listed' \in Seq(Rules)
  /\ \A q \in Rules : Len(made[q]) <= Len(made'[q])
  /\ armed \subseteq armed' /\ armed' \subseteq Rules
  /\ Registered'

\* An object that is there may be changed, if it does not become enabled unarmed.
LEMMA ChangeKeeps ==
  ASSUME Typed, Registered, NEW r \in Rules, NEW v \in 1..Len(made[r]), NEW new \in Drawings,
         made' = [made EXCEPT ![r] = [made[r] EXCEPT ![v] = new]],
         new.enabled => r \in armed', armed \subseteq armed', armed' \subseteq Rules,
         UNCHANGED listed
  PROVE  Registers
<1>1. made \in [Rules -> Seq(Drawings)] /\ made[r] \in Seq(Drawings) /\ Len(made[r]) \in Nat
  BY DEF Typed
<1> DEFINE m == [made[r] EXCEPT ![v] = new]
<1>2. /\ m \in Seq(Drawings) /\ Len(m) = Len(made[r]) /\ m[v] = new
      /\ \A w \in 1..Len(made[r]) : w # v => m[w] = made[r][w]
  BY <1>1
<1> HIDE DEF m
<1>3. made' = [made EXCEPT ![r] = m]
  BY DEF m
<1>4. /\ made' \in [Rules -> Seq(Drawings)] /\ made'[r] = m
      /\ \A q \in Rules \ {r} : made'[q] = made[q]
  BY <1>1, <1>2, <1>3
<1>5. \A q \in Rules : Len(made'[q]) = Len(made[q]) /\ Len(made[q]) \in Nat
  BY <1>1, <1>2, <1>4
<1>6. ASSUME NEW q \in Rules, NEW w \in 1..Len(made'[q]), made'[q][w].enabled PROVE q \in armed'
  <2>1. CASE q # r
    BY <1>4, <1>6, <2>1 DEF Registered
  <2>2. CASE q = r /\ w # v
    BY <1>2, <1>4, <1>5, <1>6, <2>2 DEF Registered
  <2>3. CASE q = r /\ w = v
    BY <1>2, <1>4, <1>6, <2>3
  <2> QED
    BY <2>1, <2>2, <2>3
<1>7. listed \in Seq(Rules) /\ \A i \in 1..Len(listed) : listed[i] \in Rules /\ made'[listed[i]] # <<>>
  <2>1. listed \in Seq(Rules)
    BY DEF Typed
  <2>2. ASSUME NEW i \in 1..Len(listed) PROVE listed[i] \in Rules /\ made'[listed[i]] # <<>>
    <3>1. listed[i] \in Rules /\ made[listed[i]] # <<>>
      BY <2>1 DEF Registered
    <3>2. Len(made[listed[i]]) # 0
      BY <1>1, <3>1
    <3>3. Len(made'[listed[i]]) # 0
      BY <1>5, <3>1, <3>2
    <3> QED
      BY <3>1, <3>3
  <2> QED
    BY <2>1, <2>2
<1>8. Registered'
  BY <1>6, <1>7 DEF Registered
<1>9. \A q \in Rules : Len(made[q]) <= Len(made'[q])
  BY <1>5
<1> QED
  BY <1>4, <1>7, <1>8, <1>9 DEF Registers

\* The current object of a rule that is in the registry.
LEMMA CurrentIs ==
  ASSUME Typed, Registered, NEW r \in Rules, Contains(listed, r)
  PROVE  /\ Len(made[r]) \in 1..Len(made[r]) /\ current(r) \in Versions /\ Real(current(r), made)
         /\ object(current(r)) = made[r][Len(made[r])] /\ object(current(r)) \in Drawings
<1>1. PICK i \in 1..Len(listed) : listed[i] = r
  BY DEF Contains
<1>2. made[r] \in Seq(Drawings) /\ made[r] # <<>>
  BY <1>1 DEF Typed, Registered
<1>3. Len(made[r]) \in Nat \ {0}
  BY <1>2
<1>4. Len(made[r]) \in 1..Len(made[r])
  BY <1>3
<1>5. made[r][Len(made[r])] \in Drawings
  BY <1>2, <1>4
<1> QED
  BY <1>3, <1>4, <1>5 DEF current, Versions, Real, object

\* Saving a rule, and editing one, arm nothing.
LEMMA SavingArmsNothing ==
  ASSUME Typed, Registered, NEW r \in Rules, Draw(r) \/ Edit(r)
  PROVE  Registers
<1>1. armed' = armed /\ armed \subseteq Rules
  BY DEF Draw, Edit, Typed
<1>2. CASE Draw(r)
  <2>1. PICK s \in Drawn[r] : Add(r, [is |-> s, enabled |-> FALSE, runs |-> 0])
    BY <1>2 DEF Draw
  <2> DEFINE new == [is |-> s, enabled |-> FALSE, runs |-> 0]
  <2>2. new \in Drawings /\ ~new.enabled /\ Add(r, new)
    BY <2>1 DEF Drawings
  <2> HIDE DEF new
  <2> QED
    BY <1>1, <2>2, AddKeeps DEF Registers
<1>3. CASE Edit(r)
  <2>1. PICK s \in Drawn[r] : Add(r, replacement(s, object(current(r))))
    BY <1>3 DEF Edit
  <2> DEFINE old == object(current(r))
             new == [is |-> s, enabled |-> old.enabled, runs |-> old.runs]
  <2>2. old \in Drawings /\ Real(current(r), made) /\ current(r) \in Versions
    BY <1>3, CurrentIs DEF Edit
  <2>3. old.enabled => r \in armed
    BY <2>2, EnabledIsArmed DEF current
  <2> HIDE DEF old
  <2>4. new \in Drawings /\ new.enabled = old.enabled
    BY <2>2 DEF Drawings
  <2>5. Add(r, new)
    BY <2>1 DEF replacement, old
  <2> HIDE DEF new
  <2> QED
    BY <1>1, <2>3, <2>4, <2>5, AddKeeps DEF Registers
<1> QED
  BY <1>2, <1>3

\* Enabling a rule is what arms it.
LEMMA EnablingArms ==
  ASSUME Typed, Registered, NEW r \in Rules, NEW to \in BOOLEAN, Enable(r, to)
  PROVE  Registers
<1> DEFINE v == Len(made[r])
           old == made[r][v]
           new == [is |-> old.is, enabled |-> to, runs |-> old.runs]
<1>1. v \in 1..Len(made[r]) /\ old \in Drawings
  BY CurrentIs DEF Enable
<1>2. new \in Drawings /\ new.enabled = to /\ new = [old EXCEPT !.enabled = to]
  BY <1>1 DEF Drawings
<1>3. made' = [made EXCEPT ![r] = [made[r] EXCEPT ![v] = [old EXCEPT !.enabled = to]]]
  BY DEF Enable
<1> HIDE DEF new, v, old
<1>4. made' = [made EXCEPT ![r] = [made[r] EXCEPT ![v] = new]]
  BY <1>2, <1>3
<1>5. armed' = (IF to THEN armed \cup {r} ELSE armed) /\ listed' = listed
  BY DEF Enable
<1>6. armed \subseteq armed' /\ armed' \subseteq Rules /\ (to => r \in armed')
  BY <1>5 DEF Typed
<1> QED
  BY <1>1, <1>2, <1>4, <1>5, <1>6, ChangeKeeps

\* A run that ends is counted on the object it began with, which stays what it was.
LEMMA EndingArmsNothing ==
  ASSUME EngineInv, NEW a \in Actors, RunEnds(a)
  PROVE  Registers
<1>1. /\ top(a) \in Frames /\ top(a).in = "run"
      /\ Stands(a, Len(stack[a]), top(a), made, armed, clock)
  BY TopStands DEF RunEnds, In
<1> DEFINE o == top(a).of
           old == made[o.rule][o.version]
           new == [is |-> old.is, enabled |-> old.enabled, runs |-> old.runs + 1]
<1>2. o \in Versions /\ Real(o, made)
  BY <1>1 DEF Frames, Stands
<1>3. /\ made' = [made EXCEPT ![o.rule] = [made[o.rule] EXCEPT ![o.version] =
                                             [old EXCEPT !.runs = @ + 1]]]
      /\ armed' = armed /\ listed' = listed
  BY DEF RunEnds
<1> HIDE DEF o
<1>4. o.rule \in Rules /\ o.version \in 1..Len(made[o.rule])
  BY <1>2 DEF Versions, Real
<1>5. old \in Drawings /\ armed \subseteq Rules
  BY <1>4 DEF EngineInv, Typed
<1>6. new \in Drawings /\ new.enabled = old.enabled /\ new = [old EXCEPT !.runs = @ + 1]
  BY <1>5 DEF Drawings
<1>7. old.enabled => o.rule \in armed
  BY <1>4 DEF EngineInv, Registered
<1> HIDE DEF new, old
<1>8. made' = [made EXCEPT ![o.rule] = [made[o.rule] EXCEPT ![o.version] = new]]
  BY <1>3, <1>6
<1> QED
  BY <1>3, <1>4, <1>5, <1>6, <1>7, <1>8, ChangeKeeps DEF EngineInv

\* Removing a rule takes its id out of the registry, and leaves its objects to those that
\* hold them.
LEMMA RemovingKeepsObjects ==
  ASSUME Typed, Registered, NEW r \in Rules, RemoveRule(r)
  PROVE  Registers
<1>1. listed' = Chosen(listed, Rules \ {r}) /\ UNCHANGED <<made, armed>>
  BY DEF RemoveRule
<1>2. /\ made \in [Rules -> Seq(Drawings)] /\ armed \subseteq Rules /\ listed \in Seq(Rules)
      /\ \A q \in Rules : Len(made[q]) \in Nat
  BY DEF Typed
<1> DEFINE S == Rules \ {r}
           c == Chosen(listed, S)
<1> HIDE DEF S
<1>3. /\ c \in Seq(Rules)
      /\ \A i \in 1..Len(c) : c[i] \in S /\ \E j \in 1..Len(listed) : c[i] = listed[j]
  BY <1>2, ChosenOf
<1>4. \A i, j \in 1..Len(c) : c[i] = c[j] => i = j
  <2>1. \A i, j \in 1..Len(listed) : listed[i] = listed[j] => i = j
    BY DEF Registered
  <2> QED
    BY <1>2, <2>1, ChosenOnce
<1> HIDE DEF c
<1>5. listed' = c
  BY <1>1 DEF c, S
<1>6. ASSUME NEW i \in 1..Len(c) PROVE made[c[i]] # <<>>
  <2>1. PICK j \in 1..Len(listed) : c[i] = listed[j]
    BY <1>3
  <2> QED
    BY <2>1 DEF Registered
<1>7. Registered'
  BY <1>1, <1>4, <1>5, <1>6 DEF Registered
<1> QED
  BY <1>1, <1>2, <1>3, <1>5, <1>7 DEF Registers

\* A step that touches neither the registry nor what the owner armed.
LEMMA RegistryRests ==
  ASSUME Typed, Registered, UNCHANGED <<made, listed, armed>>
  PROVE  Registers
<1>1. \A q \in Rules : Len(made[q]) \in Nat
  BY DEF Typed
<1>2. Registered'
  BY DEF Registered
<1> QED
  BY <1>1, <1>2 DEF Registers, Typed

\* Every step keeps what the registry owes.
LEMMA RegistryMoves ==
  ASSUME EngineInv, [Next]_vars
  PROVE  Registers
<1>0. Typed /\ Registered
  BY DEF EngineInv
<1>1. CASE UNCHANGED <<made, listed, armed>>
  BY <1>0, <1>1, RegistryRests
<1>2. ASSUME NEW r \in Rules, Draw(r) \/ Edit(r) PROVE Registers
  BY <1>0, <1>2, SavingArmsNothing
<1>3. ASSUME NEW r \in Rules, RemoveRule(r) PROVE Registers
  BY <1>0, <1>3, RemovingKeepsObjects
<1>4. ASSUME NEW r \in Rules, NEW to \in BOOLEAN, Enable(r, to) PROVE Registers
  BY <1>0, <1>4, EnablingArms
<1>5. ASSUME NEW a \in Actors, RunEnds(a) PROVE Registers
  BY <1>5, EndingArmsNothing
<1>6. ASSUME NEW r \in Rules, RunNow(r) PROVE UNCHANGED <<made, listed, armed>>
  BY <1>6 DEF RunNow, registry
<1>7. ASSUME \/ \E l \in Levels : SetLevel(l)
             \/ SweepBegins \/ Tick \/ (\E p \in Publishers : Happens(p)) \/ UNCHANGED vars
      PROVE  UNCHANGED <<made, listed, armed>>
  BY <1>7 DEF SetLevel, SweepBegins, Tick, Happens, vars, registry
<1>8. ASSUME NEW a \in Actors, Step(a), ~RunEnds(a) PROVE UNCHANGED <<made, listed, armed>>
  <2>1. ASSUME SweepGoesOn(a) \/ FireRule(a) \/ EventDone(a) \/ Notify(a)
        PROVE  UNCHANGED <<made, listed, armed>>
    BY <2>1 DEF SweepGoesOn, FireRule, EventDone, Notify, registry
  <2>2. ASSUME StaySilent(a) \/ CreateTask(a) \/ UseTool(a) \/ ToolRaises(a)
        PROVE  UNCHANGED <<made, listed, armed>>
    BY <2>2 DEF StaySilent, CreateTask, UseTool, ToolRaises, registry
  <2> QED
    BY <1>8, <2>1, <2>2 DEF Step
<1> QED
  BY <1>1, <1>2, <1>3, <1>4, <1>5, <1>6, <1>7, <1>8 DEF Next

-------------------------------------------------------------------------------
(* Marks, minutes and the gate.                                              *)

\* The rest of the state keeps its types, and time goes forward.
Dated ==
  /\ fired' \in [Rules -> Minutes \cup {None}] /\ raised' \in Seq(Minutes)
  /\ level' \in Levels /\ clock' \in Minutes /\ clock <= clock' /\ broken' \subseteq Minutes
  /\ swept' \in [Rules -> [Minutes -> Nat]]

\* So it does when nothing of it changes.
LEMMA DatesRest ==
  ASSUME Typed, UNCHANGED <<fired, raised, level, clock, broken, swept>>
  PROVE  Dated
<1>1. clock \in Int
  BY DEF Typed, Minutes
<1> QED
  BY <1>1 DEF Typed, Dated

\* An exception ends the sweep of a minute, if it ends one.
LEMMA RaisingDates ==
  ASSUME EngineInv, NEW a \in Actors, stack[a] # <<>>, Raise(a),
         UNCHANGED <<fired, raised, level, clock, swept>>
  PROVE  Dated
<1>1. clock \in Int /\ broken \subseteq Minutes
  BY DEF EngineInv, Typed, Minutes
<1>2. stack[a] \in Seq(Frames) /\ Len(stack[a]) \in Nat \ {0}
  BY DEF EngineInv, Typed
<1>3. stack[a][1] \in Frames
  BY <1>2
<1>4. stack[a][1].in = "sweep" => stack[a][1].minute \in Minutes
  BY <1>3 DEF Frames
<1>5. broken' = broken \/ (stack[a][1].in = "sweep" /\ broken' = broken \cup {stack[a][1].minute})
  BY DEF Raise
<1>6. broken' \subseteq Minutes
  BY <1>1, <1>4, <1>5
<1> QED
  BY <1>1, <1>6 DEF EngineInv, Typed, Dated

\* A sweep that goes on counts the run it begins.
LEMMA SweepingDates ==
  ASSUME EngineInv, NEW a \in Actors, SweepGoesOn(a)
  PROVE  Dated
<1> DEFINE f == top(a)
<1>1. stack[a] # <<>> /\ f.in = "sweep"
  BY DEF SweepGoesOn, In
<1>2. f \in Frames
  BY <1>1, TopStands
<1>3. UNCHANGED <<fired, raised, level, clock, broken>>
  BY DEF SweepGoesOn, gate
<1>4. CASE f.rest = <<>>
  <2>1. UNCHANGED swept
    BY <1>4 DEF SweepGoesOn
  <2> QED
    BY <1>3, <2>1, DatesRest DEF EngineInv
<1>5. CASE f.rest # <<>>
  <2>1. swept' = [swept EXCEPT ![Head(f.rest).rule] =
                    [swept[Head(f.rest).rule] EXCEPT ![f.minute] = @ + 1]]
    BY <1>5 DEF SweepGoesOn
  <2> HIDE DEF f
  <2>2. f.minute \in Minutes /\ f.rest \in Seq(Versions)
    BY <1>1, <1>2 DEF Frames
  <2>3. Head(f.rest).rule \in Rules
    <3>1. Head(f.rest) \in Versions
      BY <1>5, <2>2
    <3> QED
      BY <3>1 DEF Versions
  <2> DEFINE r == Head(f.rest).rule
             m == f.minute
             count == [swept[r] EXCEPT ![m] = @ + 1]
  <2>4. r \in Rules /\ m \in Minutes /\ swept' = [swept EXCEPT ![r] = count]
    BY <2>1, <2>2, <2>3
  <2> HIDE DEF r, m
  <2>5. swept \in [Rules -> [Minutes -> Nat]]
    BY DEF EngineInv, Typed
  <2>6. swept[r] \in [Minutes -> Nat] /\ swept[r][m] \in Nat
    BY <2>4, <2>5
  <2>7. count \in [Minutes -> Nat]
    BY <2>4, <2>6
  <2> HIDE DEF count
  <2>8. swept' \in [Rules -> [Minutes -> Nat]]
    BY <2>4, <2>5, <2>7
  <2>9. clock \in Int
    BY DEF EngineInv, Typed, Minutes
  <2> QED
    BY <1>3, <2>8, <2>9 DEF EngineInv, Typed, Dated
<1> QED
  BY <1>4, <1>5

\* Every step of an actor keeps them.
LEMMA StepDates ==
  ASSUME EngineInv, NEW a \in Actors, Step(a)
  PROVE  Dated
<1>0. Typed
  BY DEF EngineInv
<1>1. CASE SweepGoesOn(a)
  BY <1>1, SweepingDates
<1>2. CASE FireRule(a) \/ EventDone(a)
  <2>1. UNCHANGED <<fired, raised, level, clock, broken, swept>>
    BY <1>2 DEF FireRule, EventDone, gate, history
  <2> QED
    BY <1>0, <2>1, DatesRest
<1>3. CASE Notify(a)
  <2>1. raised' = Append(raised, clock) /\ UNCHANGED <<fired, level, clock, broken, swept>>
    BY <1>3 DEF Notify, history
  <2>2. raised' \in Seq(Minutes) /\ clock \in Int
    BY <1>0, <2>1 DEF Typed, Minutes
  <2> QED
    BY <1>0, <2>1, <2>2 DEF Typed, Dated
<1>4. CASE StaySilent(a) \/ RunEnds(a)
  <2>1. UNCHANGED <<fired, raised, level, clock, broken, swept>>
    BY <1>4 DEF StaySilent, RunEnds, gate, history
  <2> QED
    BY <1>0, <2>1, DatesRest
<1>5. CASE CreateTask(a) \/ UseTool(a) \/ ToolRaises(a)
  <2>1. stack[a] # <<>> /\ UNCHANGED <<fired, raised, level, clock, swept>>
    BY <1>5 DEF CreateTask, UseTool, ToolRaises, At, In, gate
  <2>2. UNCHANGED broken \/ Raise(a)
    BY <1>5 DEF CreateTask, UseTool, ToolRaises
  <2>3. CASE UNCHANGED broken
    BY <1>0, <2>1, <2>3, DatesRest
  <2>4. CASE Raise(a)
    BY <2>1, <2>4, RaisingDates
  <2> QED
    BY <2>2, <2>3, <2>4
<1> QED
  BY <1>1, <1>2, <1>3, <1>4, <1>5 DEF Step

\* Every step keeps them.
LEMMA DatesMove ==
  ASSUME EngineInv, [Next]_vars
  PROVE  Dated
<1>0. Typed
  BY DEF EngineInv
<1>1. ASSUME NEW r \in Rules, Draw(r) \/ Edit(r) \/ RunNow(r) \/ \E to \in BOOLEAN : Enable(r, to)
      PROVE  Dated
  <2>1. UNCHANGED <<fired, raised, level, clock, broken, swept>>
    BY <1>1 DEF Draw, Edit, RunNow, Enable, gate, history
  <2> QED
    BY <1>0, <2>1, DatesRest
<1>2. ASSUME NEW r \in Rules, RemoveRule(r) PROVE Dated
  <2>1. fired' = [fired EXCEPT ![r] = None] /\ UNCHANGED <<raised, level, clock, broken, swept>>
    BY <1>2 DEF RemoveRule, gate, history
  <2>2. fired' \in [Rules -> Minutes \cup {None}] /\ clock \in Int
    BY <1>0, <2>1 DEF Typed, Minutes
  <2> QED
    BY <1>0, <2>1, <2>2 DEF Typed, Dated
<1>3. ASSUME NEW l \in Levels, SetLevel(l) PROVE Dated
  <2>1. level' = l /\ UNCHANGED <<fired, raised, clock, broken, swept>>
    BY <1>3 DEF SetLevel, history
  <2>2. clock \in Int
    BY <1>0 DEF Typed, Minutes
  <2> QED
    BY <1>0, <2>1, <2>2 DEF Typed, Dated
<1>4. ASSUME SweepBegins PROVE Dated
  <2>1. PICK ready : fired' = served(ready) /\ UNCHANGED <<raised, level, clock, broken, swept>>
    BY <1>4 DEF SweepBegins, gate, history
  <2>2. clock \in Minutes /\ clock \in Int /\ fired \in [Rules -> Minutes \cup {None}]
    BY <1>0 DEF Typed, Minutes
  <2>3. fired' \in [Rules -> Minutes \cup {None}]
    BY <2>1, <2>2 DEF served
  <2> QED
    BY <1>0, <2>1, <2>2, <2>3 DEF Typed, Dated
<1>5. ASSUME Tick PROVE Dated
  <2>1. clock < MaxMinute /\ clock' = clock + 1 /\ UNCHANGED <<fired, raised, level, broken, swept>>
    BY <1>5 DEF Tick, gate, history
  <2>2. clock \in 0..MaxMinute /\ MaxMinute \in Nat
    BY <1>0, AutomationAssumption DEF Typed, Minutes
  <2>3. clock' \in Minutes /\ clock <= clock'
    BY <2>1, <2>2 DEF Minutes
  <2> QED
    BY <1>0, <2>1, <2>3 DEF Typed, Dated
<1>6. ASSUME NEW p \in Publishers, Happens(p) PROVE Dated
  <2>1. UNCHANGED <<fired, raised, level, clock, broken, swept>>
    BY <1>6 DEF Happens, gate, history
  <2> QED
    BY <1>0, <2>1, DatesRest
<1>7. ASSUME NEW a \in Actors, Step(a) PROVE Dated
  BY <1>7, StepDates
<1>8. ASSUME UNCHANGED vars PROVE Dated
  <2>1. UNCHANGED <<fired, raised, level, clock, broken, swept>>
    BY <1>8 DEF vars
  <2> QED
    BY <1>0, <2>1, DatesRest
<1> QED
  BY <1>1, <1>2, <1>3, <1>4, <1>5, <1>6, <1>7, <1>8 DEF Next

-------------------------------------------------------------------------------
(* What is proved of the rules that fire.                                    *)

\* Initially no rule is there and nothing is under way.
LEMMA EngineInit == Init => EngineInv
<1> SUFFICES ASSUME Init PROVE EngineInv
  OBVIOUS
<1>1. /\ made = [r \in Rules |-> <<>>] /\ listed = <<>> /\ fired = [r \in Rules |-> None]
      /\ level = NORMAL /\ raised = <<>> /\ stack = [a \in Actors |-> <<>>] /\ clock = 0
      /\ swept = [r \in Rules |-> [m \in Minutes |-> 0]] /\ broken = {} /\ armed = {}
  BY DEF Init
<1>2. 0 \in Minutes /\ NORMAL \in Levels
  BY AutomationAssumption DEF Minutes
<1>3. Typed
  BY <1>1, <1>2 DEF Typed
<1>4. Registered
  <2>1. \A r \in Rules : 1..Len(made[r]) = {}
    BY <1>1
  <2>2. 1..Len(listed) = {}
    BY <1>1
  <2> QED
    BY <2>1, <2>2 DEF Registered
<1>5. Standing
  <2>1. \A a \in Actors : 1..Len(stack[a]) = {}
    BY <1>1
  <2> QED
    BY <2>1 DEF Standing
<1> QED
  BY <1>3, <1>4, <1>5 DEF EngineInv

\* Every step keeps the invariant, and contains a failure in what raised it.
LEMMA EngineStep ==
  ASSUME EngineInv, [Next]_vars
  PROVE  EngineInv' /\ \A a \in Actors : Contained(a)
<1>1. Registers /\ Dated
  BY RegistryMoves, DatesMove
<1>2. Grows
  BY <1>1 DEF Grows, Registers, Dated, EngineInv, Typed
<1>3. Standing' /\ stack' \in [Actors -> Seq(Frames)] /\ \A a \in Actors : Contained(a)
  BY <1>2, StacksMove
<1>4. Typed'
  BY <1>1, <1>3 DEF Typed, Registers, Dated
<1> QED
  BY <1>1, <1>3, <1>4 DEF EngineInv, Registers

\* Whatever the rules do to one another, and however they are edited, switched, removed and
\* rationed meanwhile, the calls stand.
THEOREM EngineIsSound == Spec => []EngineInv
<1>1. EngineInv /\ [Next]_vars => EngineInv'
  BY EngineStep
<1> QED
  BY EngineInit, <1>1, PTL DEF Spec

\* Saving is not arming: what a sweep or another rule's event runs is a rule that the owner has
\* at some time enabled.
THEOREM ArmedRulesFire == Spec => []OnlyArmedRulesFire
<1>1. EngineInv => OnlyArmedRulesFire
  <2> SUFFICES ASSUME EngineInv, NEW a \in Actors, NEW i \in 1..Len(stack[a]),
                      stack[a][i].in = "run", i > 1 \/ a # "desk"
               PROVE  stack[a][i].of.rule \in armed
    BY DEF OnlyArmedRulesFire
  <2>1. Stands(a, i, stack[a][i], made, armed, clock)
    BY DEF EngineInv, Standing
  <2> QED
    BY <2>1 DEF Stands
<1> QED
  BY <1>1, EngineIsSound, PTL

\* A run or a sweep is cut short only by what it does itself, never by a rule that answers an
\* event of its.
THEOREM FailuresAreContained == Spec => FailureIsContained
<1>1. EngineInv /\ [Next]_vars =>
        [\A a \in Actors : \A i \in Len(stack'[a]) + 1..Len(stack[a]) :
           stack[a][i].in \in {"run", "sweep"} /\ ~ended(stack[a][i]) =>
             \A j \in i + 1..Len(stack[a]) : stack[a][j].in # "event"]_vars
  BY EngineStep DEF Contained
<1> QED
  BY <1>1, EngineIsSound, PTL DEF Spec, FailureIsContained

-------------------------------------------------------------------------------
(* What a sweep counts and marks.  A removed rule never comes back: its id   *)
(* has objects, so it cannot be drawn again, and only a rule that is in the  *)
(* registry is edited.                                                       *)

Gone(r) == made[r] # <<>> /\ ~Contains(listed, r)
Left(r, m) ==
  /\ stack["worker"] # <<>> /\ stack["worker"][1].minute = m
  /\ \E j \in 1..Len(stack["worker"][1].rest) : stack["worker"][1].rest[j].rule = r

\* No minute is counted before it is marked, or left to run after it is counted.
Counted ==
  /\ \A r \in Rules : fired[r] <= clock
  /\ \A r \in Rules, m \in Minutes :
       /\ swept[r][m] <= 1
       /\ swept[r][m] = 1 => m <= clock /\ (Gone(r) \/ m <= fired[r])
       /\ Left(r, m) => swept[r][m] = 0 /\ (Gone(r) \/ m <= fired[r])
  /\ stack["worker"] # <<>> =>
       \A i, j \in 1..Len(stack["worker"][1].rest) :
         stack["worker"][1].rest[i].rule = stack["worker"][1].rest[j].rule => i = j

\* A minute that is marked is counted, or left to run, or an exception ended its sweep.
Marked ==
  \A r \in Rules :
    fired[r] # None => swept[r][fired[r]] = 1 \/ fired[r] \in broken \/ Left(r, fired[r])

SweepInv == EngineInv /\ Counted /\ Marked

\* What a step that sweeps nothing does to the worker's sweep.
Unswept ==
  \/ stack["worker"] = <<>> /\ stack'["worker"] = <<>>
  \/ stack["worker"] # <<>> /\ stack'["worker"] # <<>>
     /\ stack'["worker"][1] = stack["worker"][1]
  \/ stack["worker"] # <<>> /\ stack'["worker"] = <<>>
     /\ stack["worker"][1].minute \in broken'

\* The worker's first call is a sweep of a minute that has come.
LEMMA WorkerSweeps ==
  ASSUME EngineInv, stack["worker"] # <<>>
  PROVE  LET f == stack["worker"][1] IN
         /\ f.in = "sweep" /\ f.minute \in Minutes /\ f.minute <= clock /\ f.rest \in Seq(Versions)
<1>1. "worker" \in Actors /\ stack["worker"] \in Seq(Frames)
  BY DEF EngineInv, Typed, Actors
<1>2. Len(stack["worker"]) \in Nat \ {0}
  BY <1>1
<1>3. 1 \in 1..Len(stack["worker"])
  BY <1>2
<1>4. Stands("worker", 1, stack["worker"][1], made, armed, clock) /\ stack["worker"][1] \in Frames
  BY <1>1, <1>3 DEF EngineInv, Standing
<1>5. stack["worker"][1].in = "sweep"
  BY <1>4 DEF Stands
<1> QED
  BY <1>4, <1>5 DEF Stands, Frames

\* The step of an actor, but for a sweep's own.
LEMMA StepBeneath ==
  ASSUME EngineInv, Grows, NEW a \in Actors, Step(a), ~SweepGoesOn(a)
  PROVE  Unswept
<1>1. Stacked(a)
  BY StepStacks
<1>2. "worker" \in Actors
  BY DEF Actors
<1>3. CASE a # "worker"
  <2>1. stack'["worker"] = stack["worker"]
    BY <1>1, <1>2, <1>3 DEF Stacked, Piled
  <2> QED
    BY <2>1 DEF Unswept
<1>4. CASE a = "worker"
  <2>1. stack[a] # <<>> /\ top(a).in # "sweep"
    <3>1. ASSUME FireRule(a) \/ EventDone(a) \/ Notify(a) \/ StaySilent(a) \/ CreateTask(a)
          PROVE  In(a, "sent") \/ In(a, "event") \/ In(a, "run")
      BY <3>1 DEF FireRule, EventDone, Notify, StaySilent, CreateTask, At
    <3>2. ASSUME UseTool(a) \/ ToolRaises(a) \/ RunEnds(a)
          PROVE  In(a, "run")
      BY <3>2 DEF UseTool, ToolRaises, RunEnds, At
    <3> QED
      BY <3>1, <3>2 DEF Step, In
  <2>2. stack[a][1].in = "sweep"
    BY <1>4, <2>1, WorkerSweeps
  <2>3. Len(stack[a]) \in Nat \ {0} /\ top(a) = stack[a][Len(stack[a])]
    BY <2>1, TopStands
  <2>4. Len(stack[a]) # 1
    BY <2>1, <2>2, <2>3
  <2>5. Len(stack[a]) >= 2
    <3>1. \A x \in Nat \ {0} : x # 1 => x >= 2
      OBVIOUS
    <3> QED
      BY <2>3, <2>4, <3>1
  <2>6. \/ Len(stack'[a]) >= 1 /\ stack'[a][1] = stack[a][1]
        \/ stack'[a] = <<>> /\ stack[a][1].minute \in broken'
    BY <1>1, <2>2, <2>5 DEF Stacked, Rooted
  <2>7. Len(stack'[a]) >= 1 => stack'[a] # <<>>
    OBVIOUS
  <2> QED
    BY <1>4, <2>1, <2>6, <2>7 DEF Unswept
<1> QED
  BY <1>3, <1>4

\* A removed rule stays removed.
LEMMA GoneStays ==
  ASSUME EngineInv, Registers, [Next]_vars, NEW r \in Rules, Gone(r)
  PROVE  made'[r] # <<>> /\ ~Contains(listed', r)
<1>0. Typed /\ Registered
  BY DEF EngineInv
<1>1. made'[r] # <<>>
  <2>1. /\ made[r] \in Seq(Drawings) /\ made'[r] \in Seq(Drawings) /\ made[r] # <<>>
        /\ Len(made[r]) <= Len(made'[r])
    BY <1>0 DEF Typed, Registers, Gone
  <2>2. Len(made[r]) \in Nat \ {0} /\ Len(made'[r]) \in Nat
    BY <2>1
  <2>3. \A x \in Nat \ {0}, y \in Nat : x <= y => y # 0
    OBVIOUS
  <2>4. Len(made'[r]) # 0
    BY <2>1, <2>2, <2>3
  <2> QED
    BY <2>4
<1>2. listed \in Seq(Rules) /\ Len(listed) \in Nat /\ ~Contains(listed, r)
  BY <1>0 DEF Typed, Gone
<1>3. ASSUME NEW q \in Rules \ {r}, listed' = Append(listed, q) PROVE ~Contains(listed', r)
  <2>1. /\ Len(listed') = Len(listed) + 1 /\ listed'[Len(listed) + 1] = q
        /\ \A i \in 1..Len(listed) : listed'[i] = listed[i]
    BY <1>2, <1>3
  <2>2. \A i \in 1..Len(listed') : i \in 1..Len(listed) \/ i = Len(listed) + 1
    BY <1>2, <2>1
  <2> QED
    BY <1>2, <2>1, <2>2 DEF Contains
<1>4. ASSUME NEW q \in Rules, Draw(q) PROVE ~Contains(listed', r)
  <2>1. q # r /\ (listed' = listed \/ listed' = Append(listed, q))
    BY <1>4 DEF Draw, Add, Gone
  <2> QED
    BY <1>2, <1>3, <2>1
<1>5. ASSUME NEW q \in Rules, Edit(q) PROVE ~Contains(listed', r)
  <2>1. listed' = listed
    BY <1>5 DEF Edit, Add
  <2> QED
    BY <1>2, <2>1
<1>6. ASSUME NEW q \in Rules, RemoveRule(q) PROVE ~Contains(listed', r)
  <2> DEFINE S == Rules \ {q}
             c == Chosen(listed, S)
  <2> HIDE DEF S
  <2>1. \A j \in 1..Len(c) : c[j] \in S /\ \E i \in 1..Len(listed) : c[j] = listed[i]
    BY <1>2, ChosenOf, SMTT(60)
  <2>2. listed' = c
    BY <1>6 DEF RemoveRule, S
  <2> HIDE DEF c
  <2> QED
    BY <1>2, <2>1, <2>2 DEF Contains
<1>7. ASSUME NEW q \in Rules, RunNow(q) \/ \E to \in BOOLEAN : Enable(q, to) PROVE listed' = listed
  BY <1>7 DEF RunNow, Enable, registry
<1>8. ASSUME \/ \E l \in Levels : SetLevel(l)
             \/ SweepBegins \/ Tick \/ (\E p \in Publishers : Happens(p)) \/ UNCHANGED vars
      PROVE  listed' = listed
  BY <1>8 DEF SetLevel, SweepBegins, Tick, Happens, vars, registry
<1>9. ASSUME NEW a \in Actors, Step(a) PROVE listed' = listed
  <2>1. ASSUME SweepGoesOn(a) \/ FireRule(a) \/ EventDone(a) \/ Notify(a) \/ RunEnds(a)
        PROVE  listed' = listed
    BY <2>1 DEF SweepGoesOn, FireRule, EventDone, Notify, RunEnds, registry
  <2>2. ASSUME StaySilent(a) \/ CreateTask(a) \/ UseTool(a) \/ ToolRaises(a)
        PROVE  listed' = listed
    BY <2>2 DEF StaySilent, CreateTask, UseTool, ToolRaises, registry
  <2> QED
    BY <1>9, <2>1, <2>2 DEF Step
<1>10. ~Contains(listed', r)
  BY <1>2, <1>4, <1>5, <1>6, <1>7, <1>8, <1>9 DEF Next
<1> QED
  BY <1>1, <1>10

\* A step that sweeps nothing counts nothing, and marks nothing but what it removes.
LEMMA QuietStep ==
  ASSUME EngineInv, Registers, Grows, [Next]_vars, ~SweepBegins, \A a \in Actors : ~SweepGoesOn(a)
  PROVE  /\ Unswept /\ swept' = swept /\ broken \subseteq broken'
         /\ \A r \in Rules :
              \/ fired'[r] = fired[r]
              \/ fired'[r] = None /\ made'[r] # <<>> /\ ~Contains(listed', r)
<1>0. Typed /\ Registered /\ "worker" \in Actors /\ "desk" # "worker"
  BY DEF EngineInv, Actors
<1> DEFINE Quiet == Unswept /\ swept' = swept /\ broken \subseteq broken'
           Unmarked(r) == \/ fired'[r] = fired[r]
                          \/ fired'[r] = None /\ made'[r] # <<>> /\ ~Contains(listed', r)
<1>1. ASSUME stack'["worker"] = stack["worker"] PROVE Unswept
  BY <1>1 DEF Unswept
<1>2. ASSUME NEW r \in Rules, Draw(r) \/ Edit(r) \/ RunNow(r) \/ \E to \in BOOLEAN : Enable(r, to)
      PROVE  Quiet /\ fired' = fired
  <2>1. UNCHANGED <<fired, swept, broken>>
    BY <1>2 DEF Draw, Edit, RunNow, Enable, history
  <2>2. stack'["worker"] = stack["worker"]
    <3>1. CASE RunNow(r)
      <4>1. \E calls : stack' = [stack EXCEPT !["desk"] = @ \o calls]
        BY <3>1 DEF RunNow, Call
      <4> QED
        BY <1>0, <4>1 DEF Typed
    <3>2. CASE ~RunNow(r)
      BY <1>2, <3>2 DEF Draw, Edit, Enable
    <3> QED
      BY <3>1, <3>2
  <2> QED
    BY <1>1, <2>1, <2>2
<1>3. ASSUME NEW q \in Rules, RemoveRule(q)
      PROVE  Quiet /\ \A r \in Rules : Unmarked(r)
  <2>1. /\ listed' = Chosen(listed, Rules \ {q}) /\ fired' = [fired EXCEPT ![q] = None]
        /\ Contains(listed, q) /\ UNCHANGED <<made, stack, swept, broken>>
    BY <1>3 DEF RemoveRule, history
  <2>2. made[q] # <<>>
    BY <1>0, <2>1 DEF Contains, Registered
  <2>3. ~Contains(listed', q)
    <3> DEFINE S == Rules \ {q}
               c == Chosen(listed, S)
    <3>1. q \notin S /\ listed' = c
      BY <2>1
    <3>2. listed \in Seq(Rules)
      BY <1>0 DEF Typed
    <3> HIDE DEF S
    <3>3. \A j \in 1..Len(c) : c[j] \in S
      BY <3>2, ChosenOf
    <3> HIDE DEF c
    <3> QED
      BY <3>1, <3>3 DEF Contains
  <2>4. made'[q] # <<>> /\ ~Contains(listed', q)
    BY <2>1, <2>2, <2>3
  <2>5. \A r \in Rules : fired'[r] = IF r = q THEN None ELSE fired[r]
    BY <1>0, <2>1 DEF Typed
  <2>6. Quiet
    BY <1>1, <2>1
  <2>7. \A r \in Rules : Unmarked(r)
    BY <2>4, <2>5
  <2> QED
    BY <2>6, <2>7
<1>4. ASSUME (\E l \in Levels : SetLevel(l)) \/ Tick \/ UNCHANGED vars
      PROVE  Quiet /\ fired' = fired
  <2>1. UNCHANGED <<stack, fired, swept, broken>>
    BY <1>4 DEF SetLevel, Tick, vars, history
  <2> QED
    BY <1>1, <2>1
<1>5. ASSUME NEW p \in Publishers, Happens(p) PROVE Quiet /\ fired' = fired
  <2>1. UNCHANGED <<fired, swept, broken>> /\ \E calls : stack' = [stack EXCEPT ![p] = @ \o calls]
    BY <1>5 DEF Happens, Call, history
  <2>2. p # "worker"
    BY AutomationAssumption
  <2> QED
    BY <1>0, <1>1, <2>1, <2>2 DEF Typed
<1>6. ASSUME NEW a \in Actors, Step(a), ~SweepGoesOn(a) PROVE Quiet /\ fired' = fired
  <2>1. Unswept
    BY <1>6, StepBeneath
  <2>2. ASSUME FireRule(a) \/ EventDone(a) \/ Notify(a) \/ StaySilent(a)
        PROVE  UNCHANGED <<fired, swept, broken>>
    BY <2>2 DEF FireRule, EventDone, Notify, StaySilent, history
  <2>3. ASSUME CreateTask(a) \/ UseTool(a) \/ ToolRaises(a)
        PROVE  UNCHANGED <<fired, swept>> /\ broken \subseteq broken'
    <3>1. UNCHANGED <<fired, swept>> /\ (UNCHANGED broken \/ Raise(a))
      BY <2>3 DEF CreateTask, UseTool, ToolRaises
    <3> QED
      BY <3>1 DEF Raise
  <2>4. ASSUME RunEnds(a) PROVE UNCHANGED <<fired, swept, broken>>
    BY <2>4 DEF RunEnds
  <2> QED
    BY <1>6, <2>1, <2>2, <2>3, <2>4 DEF Step
<1> HIDE DEF Quiet
<1>7. Quiet /\ (fired' = fired \/ \A r \in Rules : Unmarked(r))
  <2> HIDE DEF Unmarked
  <2> QED
    BY <1>2, <1>3, <1>4, <1>5, <1>6 DEF Next
<1> QED
  BY <1>7 DEF Quiet

\* Such a step keeps what is counted and what is marked.
LEMMA QuietCounts ==
  ASSUME SweepInv, Registers, Grows, [Next]_vars, ~SweepBegins, \A a \in Actors : ~SweepGoesOn(a)
  PROVE  Counted' /\ Marked'
<1>0. /\ EngineInv /\ Counted /\ Marked
      /\ fired \in [Rules -> Minutes \cup {None}] /\ clock \in Int /\ clock' \in Int
      /\ clock <= clock' /\ None = -1 /\ 0 <= clock' /\ Minutes \subseteq Int
      /\ \A r \in Rules : fired[r] \in Int
  <2>1. clock \in Minutes /\ clock' \in Minutes /\ clock <= clock'
    BY DEF Grows
  <2>2. fired \in [Rules -> Minutes \cup {None}]
    BY DEF SweepInv, EngineInv, Typed
  <2>3. \A r \in Rules : fired[r] \in Int
    BY <2>2 DEF Minutes, None
  <2> QED
    BY <2>1, <2>2, <2>3 DEF SweepInv, Minutes, None
<1>1. /\ Unswept /\ swept' = swept /\ broken \subseteq broken'
      /\ \A r \in Rules :
           \/ fired'[r] = fired[r]
           \/ fired'[r] = None /\ made'[r] # <<>> /\ ~Contains(listed', r)
  BY <1>0, QuietStep
<1>2. \A r \in Rules : Gone(r) => made'[r] # <<>> /\ ~Contains(listed', r)
  BY <1>0, GoneStays
<1>3. \A r, m : Left(r, m)' => Left(r, m)
  BY <1>1 DEF Unswept, Left
<1>4. \A r, m : Left(r, m) => Left(r, m)' \/ m \in broken'
  BY <1>1 DEF Unswept, Left
<1>5. ASSUME NEW r \in Rules PROVE fired'[r] <= clock'
  BY <1>0, <1>1 DEF Counted
<1>6. ASSUME NEW r \in Rules, NEW m \in Minutes
      PROVE  /\ swept'[r][m] <= 1
             /\ swept'[r][m] = 1 => m <= clock' /\ (Gone(r)' \/ m <= fired'[r])
             /\ Left(r, m)' => swept'[r][m] = 0 /\ (Gone(r)' \/ m <= fired'[r])
  <2>1. swept[r][m] <= 1 /\ m \in Int
    BY <1>0 DEF Counted
  <2>2. Gone(r) \/ m <= fired[r] => Gone(r)' \/ m <= fired'[r]
    BY <1>1, <1>2 DEF Gone
  <2>3. swept[r][m] = 1 => m <= clock' /\ (Gone(r)' \/ m <= fired'[r])
    <3>1. swept[r][m] = 1 => m <= clock /\ (Gone(r) \/ m <= fired[r])
      BY <1>0 DEF Counted
    <3> QED
      BY <1>0, <2>1, <2>2, <3>1
  <2>4. Left(r, m)' => swept[r][m] = 0 /\ (Gone(r)' \/ m <= fired'[r])
    <3>1. Left(r, m) => swept[r][m] = 0 /\ (Gone(r) \/ m <= fired[r])
      BY <1>0 DEF Counted
    <3> QED
      BY <1>3, <2>2, <3>1
  <2> QED
    BY <1>1, <2>1, <2>3, <2>4
<1>7. stack'["worker"] # <<>> =>
        \A i, j \in 1..Len(stack'["worker"][1].rest) :
          stack'["worker"][1].rest[i].rule = stack'["worker"][1].rest[j].rule => i = j
  BY <1>0, <1>1 DEF Counted, Unswept
<1>8. ASSUME NEW r \in Rules, fired'[r] # None
      PROVE  /\ fired'[r] = fired[r]
             /\ swept'[r][fired'[r]] = 1 \/ fired'[r] \in broken' \/ Left(r, fired[r])'
  <2>1. fired'[r] = fired[r]
    BY <1>1, <1>8
  <2>2. swept[r][fired[r]] = 1 \/ fired[r] \in broken \/ Left(r, fired[r])
    BY <1>0, <1>8, <2>1 DEF Marked
  <2> QED
    BY <1>1, <1>4, <2>1, <2>2
<1>9. Counted'
  BY <1>5, <1>6, <1>7 DEF Counted
<1>10. Marked'
  BY <1>8 DEF Marked, Left
<1> QED
  BY <1>9, <1>10

\* What a sweep finds due is each rule once, none of them removed, marked or counted yet in the
\* minute.
LEMMA DueIsUncounted ==
  ASSUME EngineInv, Counted,
         NEW ready, ready = Chosen(snapshot, {o \in ToSet(snapshot) : due(o)})
  PROVE  /\ ready \in Seq(Versions)
         /\ \A i, j \in 1..Len(ready) : ready[i].rule = ready[j].rule => i = j
         /\ \A j \in 1..Len(ready) : ready[j].rule \in Rules /\ swept[ready[j].rule][clock] = 0
<1>1. /\ ready \in Seq(Versions)
      /\ \A j \in 1..Len(ready) :
           due(ready[j]) /\ \E i \in 1..Len(listed) : ready[j] = current(listed[i])
  BY DueIsArmed
<1>2. /\ snapshot \in Seq(Versions) /\ Len(snapshot) = Len(listed)
      /\ \A i \in 1..Len(listed) : snapshot[i] = current(listed[i]) /\ listed[i] \in Rules
  BY CopiesAreReal DEF EngineInv
<1>3. \A i, j \in 1..Len(snapshot) : snapshot[i] = snapshot[j] => i = j
  <2>1. ASSUME NEW i \in 1..Len(listed), NEW j \in 1..Len(listed), snapshot[i] = snapshot[j]
        PROVE  i = j
    <3>1. current(listed[i]) = current(listed[j])
      BY <1>2, <2>1
    <3>2. listed[i] = listed[j]
      BY <3>1 DEF current
    <3> QED
      BY <3>2 DEF EngineInv, Registered
  <2> QED
    BY <1>2, <2>1
<1>4. \A i, j \in 1..Len(ready) : ready[i] = ready[j] => i = j
  <2> DEFINE S == {o \in ToSet(snapshot) : due(o)}
             q == snapshot
  <2>1. q \in Seq(Versions) /\ \A i, j \in 1..Len(q) : q[i] = q[j] => i = j
    BY <1>2, <1>3
  <2> HIDE DEF S, q
  <2>2. \A i, j \in 1..Len(Chosen(q, S)) : Chosen(q, S)[i] = Chosen(q, S)[j] => i = j
    BY <2>1, ChosenOnce
  <2>3. ready = Chosen(q, S)
    BY DEF S, q
  <2> QED
    BY <2>2, <2>3
<1>5. ASSUME NEW j \in 1..Len(ready)
      PROVE  ready[j].rule \in Rules /\ ready[j] = current(ready[j].rule)
             /\ Contains(listed, ready[j].rule)
  <2>1. PICK i \in 1..Len(listed) : ready[j] = current(listed[i])
    BY <1>1
  <2>2. ready[j].rule = listed[i]
    BY <2>1 DEF current
  <2> QED
    BY <1>2, <2>1, <2>2 DEF Contains
<1>6. ASSUME NEW i \in 1..Len(ready), NEW j \in 1..Len(ready), ready[i].rule = ready[j].rule
      PROVE  i = j
  BY <1>4, <1>5, <1>6
<1>7. ASSUME NEW j \in 1..Len(ready) PROVE swept[ready[j].rule][clock] = 0
  <2> DEFINE r == ready[j].rule
  <2>1. r \in Rules /\ ~Gone(r) /\ fired[r] # clock
    BY <1>1, <1>5 DEF Gone, due
  <2> HIDE DEF r
  <2>2. clock \in Minutes /\ clock \in Int /\ fired[r] \in Int /\ swept[r][clock] \in Nat
    <3>1. /\ clock \in Minutes /\ fired \in [Rules -> Minutes \cup {None}]
          /\ swept \in [Rules -> [Minutes -> Nat]]
      BY DEF EngineInv, Typed
    <3>2. swept[r] \in [Minutes -> Nat] /\ fired[r] \in Minutes \cup {None}
      BY <2>1, <3>1
    <3>3. swept[r][clock] \in Nat
      BY <3>1, <3>2
    <3>4. clock \in Int /\ fired[r] \in Int
      BY <3>1, <3>2 DEF Minutes, None
    <3> QED
      BY <3>1, <3>3, <3>4
  <2>3. fired[r] <= clock /\ swept[r][clock] <= 1 /\ (swept[r][clock] = 1 => clock <= fired[r])
    BY <2>1, <2>2 DEF Counted
  <2>4. swept[r][clock] # 1
    BY <2>1, <2>2, <2>3
  <2>5. swept[r][clock] = 0
    BY <2>2, <2>3, <2>4
  <2> QED
    BY <2>5 DEF r
<1> QED
  BY <1>1, <1>5, <1>6, <1>7

\* A sweep marks what it is to run.
LEMMA BeginningMarks ==
  ASSUME SweepInv, SweepBegins
  PROVE  Counted' /\ Marked'
<1> DEFINE ready == Chosen(snapshot, {o \in ToSet(snapshot) : due(o)})
           f == Sweeping(clock, ready)
           calls == <<f>>
           among(r) == \E j \in 1..Len(ready) : ready[j].rule = r
<1>0. EngineInv /\ Counted /\ Marked /\ Typed /\ "worker" \in Actors
  BY DEF SweepInv, EngineInv, Actors
<1>1. /\ stack["worker"] = <<>> /\ Call("worker", calls) /\ fired' = served(ready)
      /\ UNCHANGED <<made, listed, clock, swept, broken>>
  BY DEF SweepBegins, registry, history
<1>2. /\ ready \in Seq(Versions)
      /\ \A i, j \in 1..Len(ready) : ready[i].rule = ready[j].rule => i = j
      /\ \A j \in 1..Len(ready) : ready[j].rule \in Rules /\ swept[ready[j].rule][clock] = 0
  BY <1>0, DueIsUncounted
<1> HIDE DEF ready
<1>3. clock \in Minutes /\ clock \in Int /\ fired \in [Rules -> Minutes \cup {None}]
      /\ \A r \in Rules : fired[r] \in Int
  BY <1>0 DEF Typed, Minutes, None
<1>4. f \in Frames /\ f.minute = clock /\ f.rest = ready
  BY <1>2, <1>3 DEF Sweeping, Frames
<1> HIDE DEF f
<1>5. calls \in Seq(Frames) /\ Len(calls) = 1 /\ calls[1] = f
  BY <1>4
<1> HIDE DEF calls
<1>6. Piled("worker", Len(stack["worker"]), calls)
  BY <1>0, <1>1, <1>5, Calls
<1>7. stack'["worker"] # <<>> /\ stack'["worker"][1] = f
  <2>1. Len(stack["worker"]) = 0
    BY <1>1
  <2>2. Len(stack'["worker"]) = 1 /\ stack'["worker"][0 + 1] = calls[1]
    BY <1>5, <1>6, <2>1 DEF Piled
  <2> QED
    BY <1>5, <2>2
<1>8. \A r \in Rules : fired'[r] = IF among(r) THEN clock ELSE fired[r]
  BY <1>1 DEF served
<1>9. \A r, m : Left(r, m)' <=> m = clock /\ among(r)
  BY <1>4, <1>7 DEF Left
<1>10. \A r \in Rules : among(r) => swept[r][clock] = 0
  BY <1>2
<1>11. \A i, j \in 1..Len(stack'["worker"][1].rest) :
          stack'["worker"][1].rest[i].rule = stack'["worker"][1].rest[j].rule => i = j
  BY <1>2, <1>4, <1>7
<1> HIDE DEF among
<1>12. \A r : Gone(r)' <=> Gone(r)
  BY <1>1 DEF Gone
<1>13. ASSUME NEW r \in Rules PROVE fired'[r] <= clock'
  BY <1>0, <1>1, <1>3, <1>8 DEF Counted
<1>14. ASSUME NEW r \in Rules, NEW m \in Minutes
       PROVE  /\ swept'[r][m] <= 1
              /\ swept'[r][m] = 1 => m <= clock' /\ (Gone(r)' \/ m <= fired'[r])
              /\ Left(r, m)' => swept'[r][m] = 0 /\ (Gone(r)' \/ m <= fired'[r])
  <2>1. /\ m \in Int /\ swept[r][m] <= 1
        /\ swept[r][m] = 1 => m <= clock /\ (Gone(r) \/ m <= fired[r])
    BY <1>0 DEF Counted, Minutes
  <2>2. fired[r] <= fired'[r]
    BY <1>0, <1>3, <1>8 DEF Counted
  <2>3. fired'[r] \in Int /\ fired[r] \in Int
    BY <1>3, <1>8
  <2>4. swept[r][m] = 1 => m <= clock /\ (Gone(r) \/ m <= fired'[r])
    BY <2>1, <2>2, <2>3
  <2>5. Left(r, m)' => swept[r][m] = 0 /\ m <= fired'[r]
    BY <1>3, <1>8, <1>9, <1>10
  <2> QED
    BY <1>1, <1>12, <2>1, <2>4, <2>5
<1>15. ASSUME NEW r \in Rules, fired'[r] # None
       PROVE  \/ swept'[r][fired'[r]] = 1 \/ fired'[r] \in broken'
              \/ \E m : m = fired'[r] /\ Left(r, m)'
  <2>1. CASE among(r)
    <3>1. clock = fired'[r] /\ Left(r, clock)'
      BY <1>1, <1>8, <1>9, <2>1 DEF Left
    <3> QED
      BY <1>8, <1>9, <2>1
  <2>2. CASE ~among(r)
    <3>1. fired'[r] = fired[r]
      BY <1>8, <2>2
    <3>2. ~Left(r, fired[r])
      BY <1>1 DEF Left
    <3> QED
      BY <1>0, <1>1, <1>15, <3>1, <3>2 DEF Marked
  <2> QED
    BY <2>1, <2>2
<1>16. Counted'
  BY <1>11, <1>13, <1>14 DEF Counted
<1>17. Marked'
  BY <1>15 DEF Marked, Left
<1> QED
  BY <1>16, <1>17

\* A sweep with nothing left is over, and leaves what is counted and marked as it is.
LEMMA SweepIsOver ==
  ASSUME SweepInv, SweepGoesOn("worker"), top("worker").rest = <<>>
  PROVE  Counted' /\ Marked'
<1>0. EngineInv /\ Counted /\ Marked /\ Typed /\ "worker" \in Actors
  BY DEF SweepInv, EngineInv, Actors
<1>1. /\ stack["worker"] # <<>> /\ top("worker").in = "sweep" /\ Return("worker")
      /\ UNCHANGED <<made, listed, fired, clock, swept, broken>>
  BY DEF SweepGoesOn, In, registry
<1>2. Len(stack["worker"]) = 1 /\ top("worker") = stack["worker"][1]
  <2>1. /\ top("worker") = stack["worker"][Len(stack["worker"])]
        /\ Stands("worker", Len(stack["worker"]), top("worker"), made, armed, clock)
    BY <1>0, <1>1, TopStands
  <2> QED
    BY <1>1, <2>1 DEF Stands
<1>3. stack'["worker"] = <<>>
  <2>1. Piled("worker", Len(stack["worker"]) - 1, <<>>)
    <3>1. ~(Len(stack["worker"]) >= 2)
      BY <1>2
    <3> QED
      BY <1>0, <1>1, <3>1, Returns
  <2>2. Len(stack'["worker"]) = 0 /\ stack'["worker"] \in Seq(Frames)
    BY <1>0, <1>2, <2>1 DEF Piled
  <2> QED
    BY <2>2
<1>4. \A r, m : ~Left(r, m) /\ ~Left(r, m)'
  BY <1>1, <1>2, <1>3 DEF Left
<1>5. \A r : Gone(r)' <=> Gone(r)
  BY <1>1 DEF Gone
<1>6. Counted'
  BY <1>0, <1>1, <1>3, <1>4, <1>5 DEF Counted
<1>7. Marked'
  <2>1. ASSUME NEW r \in Rules, fired[r] # None
        PROVE  swept'[r][fired'[r]] = 1 \/ fired'[r] \in broken'
    BY <1>0, <1>1, <1>4, <2>1 DEF Marked
  <2> QED
    BY <1>1, <2>1 DEF Marked
<1> QED
  BY <1>6, <1>7

\* A sweep counts the first rule it has left to run, once.
LEMMA SweepCounts ==
  ASSUME SweepInv, SweepGoesOn("worker"), top("worker").rest # <<>>
  PROVE  Counted' /\ Marked'
<1> DEFINE f == stack["worker"][1]
           r0 == Head(f.rest).rule
           m0 == f.minute
           left == Tail(f.rest)
           new == Sweeping(m0, left)
           calls == <<new>> \o <<Running(Head(f.rest), 1), Published("automation.triggered")>>
<1>0. EngineInv /\ Counted /\ Marked /\ Typed /\ "worker" \in Actors
  BY DEF SweepInv, EngineInv, Actors
<1>1. stack["worker"] # <<>> /\ top("worker").in = "sweep"
  BY DEF SweepGoesOn, In
<1>2. Len(stack["worker"]) = 1 /\ top("worker") = f
  <2>1. /\ top("worker") = stack["worker"][Len(stack["worker"])]
        /\ Stands("worker", Len(stack["worker"]), top("worker"), made, armed, clock)
    BY <1>0, <1>1, TopStands
  <2> QED
    BY <1>1, <2>1 DEF Stands
<1>3. /\ Continue("worker", calls)
      /\ swept' = [swept EXCEPT ![r0] = [swept[r0] EXCEPT ![m0] = @ + 1]]
      /\ UNCHANGED <<made, listed, fired, clock, broken>>
  BY <1>2 DEF SweepGoesOn, Run, registry
<1>4. m0 \in Minutes /\ m0 <= clock /\ f.rest \in Seq(Versions) /\ f.rest # <<>>
  BY <1>0, <1>1, <1>2, WorkerSweeps
<1> HIDE DEF f
<1> DEFINE q == f.rest
<1>5. /\ Len(q) \in Nat \ {0} /\ Head(q) = q[1] /\ q[1] \in Versions /\ left \in Seq(Versions)
      /\ Len(left) = Len(q) - 1 /\ \A j \in 1..(Len(q) - 1) : left[j] = q[j + 1]
  <2>1. q \in Seq(Versions) /\ q # <<>>
    BY <1>4
  <2> HIDE DEF q
  <2> QED
    BY <2>1 DEF q
<1>6. r0 = q[1].rule /\ r0 \in Rules
  BY <1>5 DEF Versions
<1> HIDE DEF left, q, r0, m0
<1>7. new \in Frames /\ new.minute = m0 /\ new.rest = left
  BY <1>4, <1>5 DEF Sweeping, Frames
<1>8. Running(Head(f.rest), 1) \in Frames /\ Published("automation.triggered") \in Frames
  <2>1. "automation.triggered" \in Kinds /\ Head(f.rest) \in Versions
    BY <1>5 DEF Kinds, q
  <2> QED
    BY <2>1 DEF Running, Published, Frames
<1> HIDE DEF new
<1>9. calls \in Seq(Frames) /\ Len(calls) = 3 /\ calls[1] = new
  <2> DEFINE x == Running(Head(f.rest), 1)
             y == Published("automation.triggered")
  <2>1. x \in Frames /\ y \in Frames /\ new \in Frames
    BY <1>7, <1>8
  <2> HIDE DEF x, y
  <2>2. <<new>> \o <<x, y>> \in Seq(Frames) /\ Len(<<new>> \o <<x, y>>) = 3
        /\ (<<new>> \o <<x, y>>)[1] = new
    BY <2>1
  <2> QED
    BY <2>2 DEF x, y
<1> HIDE DEF calls
<1>10. stack'["worker"] # <<>> /\ stack'["worker"][1] = new
  <2>1. Piled("worker", Len(stack["worker"]) - 1, calls)
    BY <1>0, <1>1, <1>3, <1>9, Continues
  <2>2. Len(stack["worker"]) - 1 = 0
    BY <1>2
  <2>3. Piled("worker", 0, calls)
    BY <2>1, <2>2
  <2>4. Len(stack'["worker"]) = 0 + 3 /\ stack'["worker"][0 + 1] = calls[1]
    BY <1>9, <2>3 DEF Piled
  <2> QED
    BY <1>9, <2>4
<1> DEFINE among(r) == \E j \in 1..Len(q) : q[j].rule = r
           still(r) == \E j \in 1..Len(left) : left[j].rule = r
<1>11. \A r, m : Left(r, m) <=> m = m0 /\ among(r)
  BY <1>1 DEF Left, q, m0, f
<1>12. \A r, m : Left(r, m)' <=> m = m0 /\ still(r)
  BY <1>7, <1>10 DEF Left
<1>13. \A i, j \in 1..Len(q) : q[i].rule = q[j].rule => i = j
  BY <1>0, <1>1 DEF Counted, q, f
<1>14. \A r : among(r) <=> r = r0 \/ still(r)
  <2>1. ASSUME NEW j \in 1..Len(left)
        PROVE  j \in 1..(Len(q) - 1) /\ j + 1 \in 1..Len(q) /\ left[j] = q[j + 1]
    <3>1. j \in 1..(Len(q) - 1) /\ j + 1 \in 1..Len(q)
      BY <1>5
    <3> QED
      BY <1>5, <3>1
  <2>2. ASSUME NEW j \in 1..Len(q), j # 1 PROVE j - 1 \in 1..Len(left) /\ left[j - 1] = q[j]
    <3>1. j - 1 \in 1..(Len(q) - 1) /\ (j - 1) + 1 = j /\ j - 1 \in 1..Len(left)
      BY <1>5, <2>2
    <3> QED
      BY <1>5, <3>1
  <2>3. 1 \in 1..Len(q)
    BY <1>5
  <2> QED
    BY <1>6, <2>1, <2>2, <2>3, ZenonT(60)
<1>15. ~still(r0)
  <2> SUFFICES ASSUME NEW j \in 1..Len(left), left[j].rule = r0 PROVE FALSE
    OBVIOUS
  <2>1. j \in 1..(Len(q) - 1) /\ j + 1 \in 1..Len(q) /\ 1 \in 1..Len(q) /\ j + 1 # 1
    BY <1>5
  <2>2. q[j + 1].rule = q[1].rule
    BY <1>5, <1>6, <2>1
  <2> QED
    BY <1>13, <2>1, <2>2
<1>16. \A i, j \in 1..Len(left) : left[i].rule = left[j].rule => i = j
  <2> SUFFICES ASSUME NEW i \in 1..Len(left), NEW j \in 1..Len(left), left[i].rule = left[j].rule
               PROVE  i = j
    OBVIOUS
  <2>1. /\ i \in 1..(Len(q) - 1) /\ j \in 1..(Len(q) - 1)
        /\ i + 1 \in 1..Len(q) /\ j + 1 \in 1..Len(q)
    BY <1>5
  <2>2. q[i + 1].rule = q[j + 1].rule
    BY <1>5, <2>1
  <2>3. i + 1 = j + 1
    BY <1>13, <2>1, <2>2
  <2> QED
    BY <2>1, <2>3
<1> HIDE DEF among, still
<1>17. \A r : Gone(r)' <=> Gone(r)
  BY <1>3 DEF Gone
<1>18. swept[r0][m0] = 0 /\ (Gone(r0) \/ m0 <= fired[r0])
  <2>1. Left(r0, m0)
    BY <1>11, <1>14
  <2> QED
    BY <1>0, <1>4, <1>6, <2>1 DEF Counted
<1>19. swept'[r0][m0] = 1 /\ \A r \in Rules, m \in Minutes : r # r0 \/ m # m0 => swept'[r][m] = swept[r][m]
  <2>1. swept \in [Rules -> [Minutes -> Nat]]
    BY <1>0 DEF Typed
  <2>2. swept[r0] \in [Minutes -> Nat]
    BY <1>6, <2>1
  <2> DEFINE count == [swept[r0] EXCEPT ![m0] = @ + 1]
  <2>3. count[m0] = 0 + 1 /\ \A m \in Minutes : m # m0 => count[m] = swept[r0][m]
    BY <1>4, <1>18, <2>2
  <2>4. swept' = [swept EXCEPT ![r0] = count]
    BY <1>3
  <2> HIDE DEF count
  <2>5. swept'[r0] = count /\ \A r \in Rules : r # r0 => swept'[r] = swept[r]
    BY <1>6, <2>1, <2>4
  <2> QED
    BY <2>3, <2>5
<1>20. ASSUME NEW r \in Rules, NEW m \in Minutes
       PROVE  /\ swept'[r][m] <= 1
              /\ swept'[r][m] = 1 => m <= clock' /\ (Gone(r)' \/ m <= fired'[r])
              /\ Left(r, m)' => swept'[r][m] = 0 /\ (Gone(r)' \/ m <= fired'[r])
  <2>1. CASE r = r0 /\ m = m0
    BY <1>3, <1>4, <1>12, <1>15, <1>17, <1>18, <1>19, <2>1
  <2>2. CASE ~(r = r0 /\ m = m0)
    <3>1. swept'[r][m] = swept[r][m]
      BY <1>19, <2>2
    <3>2. Left(r, m)' => Left(r, m)
      BY <1>11, <1>12, <1>14
    <3> QED
      BY <1>0, <1>3, <1>17, <3>1, <3>2 DEF Counted
  <2> QED
    BY <2>1, <2>2
<1>21. Counted'
  <2>1. \A r \in Rules : fired'[r] <= clock'
    BY <1>0, <1>3 DEF Counted
  <2>2. \A i, j \in 1..Len(stack'["worker"][1].rest) :
          stack'["worker"][1].rest[i].rule = stack'["worker"][1].rest[j].rule => i = j
    BY <1>7, <1>10, <1>16
  <2> QED
    BY <1>20, <2>1, <2>2 DEF Counted
<1>22. ASSUME NEW r \in Rules, fired'[r] # None
       PROVE  \/ swept'[r][fired'[r]] = 1 \/ fired'[r] \in broken'
              \/ \E m : m = fired'[r] /\ Left(r, m)'
  <2>1. fired'[r] = fired[r] /\ fired[r] \in Minutes /\ broken' = broken
    BY <1>0, <1>3, <1>22 DEF Typed
  <2>2. swept[r][fired[r]] = 1 \/ fired[r] \in broken \/ Left(r, fired[r])
    BY <1>0, <1>22, <2>1 DEF Marked
  <2>3. CASE r = r0 /\ fired[r] = m0
    BY <1>19, <2>1, <2>3
  <2>4. CASE ~(r = r0 /\ fired[r] = m0)
    <3>1. swept'[r][fired[r]] = swept[r][fired[r]]
      BY <1>19, <2>1, <2>4
    <3>2. ASSUME Left(r, fired[r]) PROVE fired[r] = m0 /\ still(r)
      BY <1>11, <1>14, <2>4, <3>2
    <3>3. Left(r, fired[r]) => \E m : m = fired'[r] /\ Left(r, m)'
      BY <1>12, <2>1, <3>2
    <3> QED
      BY <2>1, <2>2, <3>1, <3>3
  <2> QED
    BY <2>3, <2>4
<1>23. Marked'
  BY <1>22 DEF Marked, Left
<1> QED
  BY <1>21, <1>23

\* Initially nothing is swept or marked.
LEMMA SweepInit == Init => SweepInv
<1> SUFFICES ASSUME Init PROVE SweepInv
  OBVIOUS
<1>1. EngineInv
  BY EngineInit
<1>2. /\ fired = [r \in Rules |-> None] /\ stack = [a \in Actors |-> <<>>] /\ clock = 0
      /\ swept = [r \in Rules |-> [m \in Minutes |-> 0]] /\ "worker" \in Actors
  BY DEF Init, Actors
<1>3. stack["worker"] = <<>>
  BY <1>2
<1>4. \A r \in Rules, m \in Minutes : swept[r][m] = 0
  BY <1>2
<1>5. Counted
  BY <1>2, <1>3, <1>4 DEF Counted, Left, None
<1>6. Marked
  BY <1>2 DEF Marked
<1> QED
  BY <1>1, <1>5, <1>6 DEF SweepInv

\* Every step keeps what is counted and what is marked.
LEMMA SweepStep ==
  ASSUME SweepInv, [Next]_vars
  PROVE  SweepInv'
<1>1. EngineInv /\ EngineInv'
  BY EngineStep DEF SweepInv
<1>2. Registers /\ Grows
  <2>1. Registers /\ Dated
    BY <1>1, RegistryMoves, DatesMove
  <2> QED
    BY <1>1, <2>1 DEF Grows, Registers, Dated, EngineInv, Typed
<1>3. CASE SweepBegins
  BY <1>1, <1>3, BeginningMarks DEF SweepInv
<1>4. ASSUME NEW a \in Actors, SweepGoesOn(a) PROVE SweepInv'
  <2>1. stack[a] # <<>> /\ top(a).in = "sweep"
    BY <1>4 DEF SweepGoesOn, In
  <2>2. a = "worker"
    BY <1>1, <2>1, TopStands DEF Stands
  <2> QED
    BY <1>1, <1>4, <2>2, SweepIsOver, SweepCounts DEF SweepInv
<1>5. CASE ~SweepBegins /\ \A a \in Actors : ~SweepGoesOn(a)
  BY <1>1, <1>2, <1>5, QuietCounts DEF SweepInv
<1> QED
  BY <1>3, <1>4, <1>5

\* The worker's sweeps keep their marks and their counts.
THEOREM SweepsAreSound == Spec => []SweepInv
<1>1. SweepInv /\ [Next]_vars => SweepInv'
  BY SweepStep
<1> QED
  BY SweepInit, <1>1, PTL DEF Spec

\* The sweep of a minute runs a rule at most once, however long it takes and whatever the owner
\* edits, switches and removes meanwhile.
THEOREM RulesFireOnce == Spec => []OncePerMinute
<1>1. SweepInv => OncePerMinute
  BY DEF SweepInv, Counted, OncePerMinute
<1> QED
  BY <1>1, SweepsAreSound, PTL

\* A rule that is marked was run in that minute, unless an exception ended its sweep or the sweep
\* is still at it.
THEOREM MarkedAreServed == Spec => []ServedUnlessBroken
<1>1. SweepInv => ServedUnlessBroken
  BY DEF SweepInv, Marked, Left, ServedUnlessBroken
<1> QED
  BY <1>1, SweepsAreSound, PTL

-------------------------------------------------------------------------------
(* The owner's attention.                                                    *)

\* No window holds more than the limit, and none of what was raised is of a minute to come.
Rationed ==
  /\ raised \in Seq(Minutes) /\ clock \in Minutes
  /\ AttentionIsBounded
  /\ \A i \in 1..Len(raised) : raised[i] <= clock

\* A notification is raised only while the window that ends now has room, and every window it
\* falls into holds no more than that one.
LEMMA NotifyRations ==
  ASSUME Rationed, allows, raised' = Append(raised, clock), clock' = clock
  PROVE  Rationed'
<1> DEFINE W(m) == {u \in Minutes : m - Hour < u /\ u <= m}
<1>0. /\ raised \in Seq(Minutes) /\ clock \in Minutes /\ Hour \in Int /\ Limit \in Nat
      /\ \A u \in Minutes : u \in Int
  BY AutomationAssumption DEF Rationed, Minutes
<1>1. \A S : Chosen(raised, S) \in Seq(Minutes)
  BY <1>0, ChosenIs
<1>2. ASSUME NEW m \in Minutes PROVE Len(Chosen(raised', W(m))) <= Limit
  <2> DEFINE c == Chosen(raised, W(m))
  <2>1. raised' = Append(raised, clock)
    OBVIOUS
  <2>2. c \in Seq(Minutes) /\ Len(c) \in Nat
    BY <1>1
  <2>3. Len(c) <= Limit
    BY DEF Rationed, AttentionIsBounded, used
  <2>4. CASE clock \notin W(m)
    <3> DEFINE S == W(m)
    <3>1. clock \notin S
      BY <2>4
    <3> HIDE DEF S
    <3>2. Chosen(Append(raised, clock), S) = Chosen(raised, S)
      BY <1>0, <3>1, ChosenAppend
    <3> QED
      BY <2>1, <2>3, <3>2 DEF S
  <2>5. CASE clock \in W(m)
    <3> DEFINE S == W(m)
               S0 == W(clock)
    <3>1. clock <= m /\ m \in Int /\ clock \in Int
      BY <1>0, <2>5
    <3>2. ASSUME NEW i \in 1..Len(raised), raised[i] \in S PROVE raised[i] \in S0
      <4>1. raised[i] \in Minutes /\ raised[i] \in Int /\ m - Hour < raised[i]
        BY <1>0, <3>2
      <4>2. raised[i] <= clock
        BY DEF Rationed
      <4>3. clock - Hour < raised[i]
        BY <1>0, <3>1, <4>1
      <4> QED
        BY <4>1, <4>2, <4>3
    <3>3. clock \in S
      BY <2>5
    <3>4. Len(Chosen(raised, S0)) < Limit
      BY DEF allows, used
    <3> HIDE DEF S, S0
    <3>5. Len(Chosen(raised, S)) <= Len(Chosen(raised, S0))
      BY <1>0, <3>2, ChosenFewer
    <3>6. Chosen(Append(raised, clock), S) = Append(Chosen(raised, S), clock)
      BY <1>0, <3>3, ChosenAppend
    <3> DEFINE d == Chosen(raised, S)
    <3>7. d \in Seq(Minutes) /\ Chosen(raised, S0) \in Seq(Minutes)
      BY <1>1
    <3> HIDE DEF d
    <3>8. Len(Append(d, clock)) = Len(d) + 1 /\ Len(d) \in Nat /\ Len(Chosen(raised, S0)) \in Nat
      BY <3>7
    <3>9. Len(d) <= Len(Chosen(raised, S0))
      BY <3>5 DEF d
    <3>10. Len(d) + 1 <= Limit
      BY <1>0, <3>4, <3>8, <3>9
    <3>11. Len(Chosen(raised', S)) = Len(d) + 1
      BY <2>1, <3>6, <3>8 DEF d
    <3> QED
      BY <3>10, <3>11 DEF S
  <2> QED
    BY <2>4, <2>5
<1>3. AttentionIsBounded'
  BY <1>2 DEF AttentionIsBounded, used
<1>4. /\ raised' \in Seq(Minutes) /\ Len(raised') = Len(raised) + 1 /\ Len(raised) \in Nat
      /\ \A i \in 1..Len(raised) : raised'[i] = raised[i]
      /\ raised'[Len(raised) + 1] = clock
  BY <1>0
<1>5. ASSUME NEW i \in 1..Len(raised') PROVE raised'[i] <= clock'
  <2>1. i \in 1..Len(raised) \/ i = Len(raised) + 1
    BY <1>4
  <2> QED
    BY <1>0, <1>4, <2>1 DEF Rationed
<1> QED
  BY <1>0, <1>3, <1>4, <1>5 DEF Rationed

\* In no hour do the rules together raise more notifications than the limit, although every
\* actor has its own cascade of them under way.
THEOREM AttentionIsRationed == Spec => []AttentionIsBounded
<1>1. Init => Rationed
  <2> SUFFICES ASSUME Init PROVE Rationed
    OBVIOUS
  <2>1. raised = <<>> /\ clock = 0 /\ 0 \in Minutes /\ Limit \in Nat
    BY AutomationAssumption DEF Init, Minutes
  <2>2. raised \in Seq(Minutes) /\ Len(raised) = 0
    BY <2>1
  <2>3. \A S : Len(Chosen(raised, S)) <= 0
    BY <2>2, ChosenIs
  <2>4. \A S : Len(Chosen(raised, S)) <= Limit
    <3>1. ASSUME NEW S PROVE Len(Chosen(raised, S)) <= Limit
      <4>1. Chosen(raised, S) \in Seq(Minutes)
        BY <2>2, ChosenIs
      <4>2. Len(Chosen(raised, S)) \in Nat
        BY <4>1
      <4> QED
        BY <2>1, <2>3, <4>2
    <3> QED
      BY <3>1
  <2>5. 1..Len(raised) = {}
    BY <2>2
  <2> QED
    BY <2>1, <2>2, <2>4, <2>5 DEF Rationed, AttentionIsBounded, used
<1>2. EngineInv /\ Rationed /\ [Next]_vars => Rationed'
  <2> SUFFICES ASSUME EngineInv, Rationed, [Next]_vars PROVE Rationed'
    OBVIOUS
  <2>1. clock \in Minutes /\ clock' \in Minutes /\ clock <= clock'
    BY DatesMove DEF Dated, Rationed
  <2>2. CASE raised' = raised
    <3>1. AttentionIsBounded'
      BY <2>2 DEF Rationed, AttentionIsBounded, used
    <3>2. ASSUME NEW i \in 1..Len(raised) PROVE raised[i] <= clock'
      <4>1. raised[i] \in Int /\ clock \in Int /\ clock' \in Int /\ raised[i] <= clock
        <5>1. raised[i] \in Minutes /\ raised[i] <= clock
          BY DEF Rationed
        <5>2. \A u \in Minutes : u \in Int
          BY DEF Minutes
        <5> QED
          BY <2>1, <5>1, <5>2
      <4> QED
        BY <2>1, <4>1
    <3> QED
      BY <2>1, <2>2, <3>1, <3>2 DEF Rationed
  <2>3. ASSUME NEW a \in Actors, Notify(a) PROVE Rationed'
    BY <2>3, NotifyRations DEF Notify
  <2>4. ASSUME NEW r \in Rules,
               Draw(r) \/ Edit(r) \/ RemoveRule(r) \/ RunNow(r) \/ \E to \in BOOLEAN : Enable(r, to)
        PROVE  raised' = raised
    BY <2>4 DEF Draw, Edit, RemoveRule, RunNow, Enable, gate
  <2>5. ASSUME \/ \E l \in Levels : SetLevel(l)
               \/ SweepBegins \/ Tick \/ (\E p \in Publishers : Happens(p)) \/ UNCHANGED vars
        PROVE  raised' = raised
    BY <2>5 DEF SetLevel, SweepBegins, Tick, Happens, vars, gate
  <2>6. ASSUME NEW a \in Actors, Step(a), ~Notify(a) PROVE raised' = raised
    <3>1. ASSUME SweepGoesOn(a) \/ FireRule(a) \/ EventDone(a) \/ RunEnds(a)
          PROVE  raised' = raised
      BY <3>1 DEF SweepGoesOn, FireRule, EventDone, RunEnds, gate
    <3>2. ASSUME StaySilent(a) \/ CreateTask(a) \/ UseTool(a) \/ ToolRaises(a)
          PROVE  raised' = raised
      BY <3>2 DEF StaySilent, CreateTask, UseTool, ToolRaises, gate
    <3> QED
      BY <2>6, <3>1, <3>2 DEF Step
  <2> QED
    BY <2>2, <2>3, <2>4, <2>5, <2>6 DEF Next
<1>3. Rationed => AttentionIsBounded
  BY DEF Rationed
<1> QED
  BY <1>1, <1>2, <1>3, EngineIsSound, PTL DEF Spec
===============================================================================
