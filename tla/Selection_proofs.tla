-------------------------- MODULE Selection_proofs --------------------------
(***************************************************************************)
(* What Chosen returns, for every sequence.  The library's induction       *)
(* theorems take an operator, so the induction here is over a set of       *)
(* numbers, from the well-foundedness of < on Nat.                         *)
(***************************************************************************)
EXTENDS Selection, NaturalsInduction, WellFoundedInduction, SequenceTheorems, TLAPS

\* Every set of natural numbers that is not empty has a smallest member.
LEMMA Smallest ==
  ASSUME NEW T \in SUBSET Nat, T # {}
  PROVE  \E x \in T : \A y \in T : ~(y < x)
<1> DEFINE R == {ss \in Nat \X Nat : ss[1] < ss[2]}
<1>1. IsWellFoundedOn(R, Nat)
  BY NatLessThanWellFounded DEF OpToRel
<1> HIDE DEF R
<1>2. \E x \in T : \A y \in T : ~(<<y, x>> \in R)
  BY <1>1, WFMin
<1> QED
  BY <1>2 DEF R

\* Induction up to N: a set that holds 0, and holds n + 1 when it holds n, holds them all.
LEMMA UpTo ==
  ASSUME NEW N \in Nat, NEW A, 0 \in A, \A n \in 0..N : n < N /\ n \in A => n + 1 \in A
  PROVE  0..N \subseteq A
<1> DEFINE Missing == (0..N) \ A
<1> SUFFICES ASSUME Missing # {} PROVE FALSE
  OBVIOUS
<1>1. PICK m \in Missing : \A y \in Missing : ~(y < m)
  <2>1. Missing \in SUBSET Nat
    OBVIOUS
  <2> HIDE DEF Missing
  <2> QED
    BY <2>1, Smallest
<1>2. m \in 1..N
  BY <1>1
<1>3. m - 1 \in 0..N /\ m - 1 < N /\ m - 1 \in A
  BY <1>1, <1>2
<1>4. (m - 1) + 1 \in A
  BY <1>3
<1> QED
  BY <1>1, <1>2, <1>4

\* The recursion that defines Chosen has a solution, so its equations hold.
LEMMA ChosenUnfolds ==
  ASSUME NEW T, NEW s \in Seq(T), NEW S
  PROVE  \E g : /\ Chosen(s, S) = g[Len(s)]
                /\ g[0] = <<>>
                /\ \A n \in 1..Len(s) :
                     g[n] = IF s[n] \in S THEN Append(g[n - 1], s[n]) ELSE g[n - 1]
<1> DEFINE Body(g, n) == IF n = 0 THEN <<>>
                         ELSE IF s[n] \in S THEN Append(g[n - 1], s[n]) ELSE g[n - 1]
           A == { N \in Nat : \E g : g = [n \in 0..N |-> Body(g, n)] }
<1>0. Len(s) \in Nat
  OBVIOUS
<1>1. 0 \in A
  <2> DEFINE g == [n \in 0..0 |-> <<>>]
  <2>1. g = [n \in 0..0 |-> Body(g, n)]
    OBVIOUS
  <2> QED
    BY <2>1
<1>2. ASSUME NEW N \in Nat, N \in A PROVE N + 1 \in A
  <2>1. PICK g : g = [n \in 0..N |-> Body(g, n)]
    BY <1>2
  <2> DEFINE h == [n \in 0..(N + 1) |-> IF n = N + 1 THEN Body(g, N + 1) ELSE g[n]]
  <2>2. ASSUME NEW n \in 0..(N + 1) PROVE h[n] = Body(h, n)
    <3>1. CASE n = N + 1
      BY <3>1
    <3>2. CASE n \in 0..N
      <4>1. g[n] = Body(g, n)
        BY <2>1, <3>2
      <4>2. n = 0 \/ h[n - 1] = g[n - 1]
        BY <3>2
      <4> QED
        BY <3>2, <4>1, <4>2
    <3> QED
      BY <3>1, <3>2
  <2>3. h = [n \in 0..(N + 1) |-> h[n]]
    OBVIOUS
  <2> HIDE DEF h
  <2>4. h = [n \in 0..(N + 1) |-> Body(h, n)]
    BY <2>2, <2>3
  <2> QED
    BY <2>4, SMTT(60)
<1>3. Len(s) \in A
  <2> HIDE DEF A
  <2>1. 0..Len(s) \subseteq A
    BY <1>0, <1>1, <1>2, UpTo
  <2> QED
    BY <1>0, <2>1
<1> DEFINE upTo == CHOOSE g : g = [n \in 0..Len(s) |-> Body(g, n)]
<1>4. upTo = [n \in 0..Len(s) |-> Body(upTo, n)]
  BY <1>3
<1>5. Chosen(s, S) = upTo[Len(s)]
  BY DEF Chosen
<1> HIDE DEF upTo
<1>6. \A n \in 0..Len(s) : upTo[n] = Body(upTo, n)
  BY <1>4
<1>7. 0 \in 0..Len(s) /\ \A n \in 1..Len(s) : n \in 0..Len(s) /\ n # 0
  BY <1>0
<1> QED
  BY <1>5, <1>6, <1>7

\* What is chosen is a list of the members of S that are in s, and misses none of them.
LEMMA ChosenIs ==
  ASSUME NEW T, NEW s \in Seq(T), NEW S
  PROVE  /\ Chosen(s, S) \in Seq(T)
         /\ Len(Chosen(s, S)) <= Len(s)
         /\ \A x : (\E i \in 1..Len(Chosen(s, S)) : Chosen(s, S)[i] = x)
                     <=> x \in S /\ \E i \in 1..Len(s) : s[i] = x
<1>1. PICK g : /\ Chosen(s, S) = g[Len(s)]
               /\ g[0] = <<>>
               /\ \A n \in 1..Len(s) :
                    g[n] = IF s[n] \in S THEN Append(g[n - 1], s[n]) ELSE g[n - 1]
  BY ChosenUnfolds
<1> DEFINE P(n) == /\ g[n] \in Seq(T) /\ Len(g[n]) <= n
                   /\ \A x : (\E i \in 1..Len(g[n]) : g[n][i] = x)
                               <=> x \in S /\ \E i \in 1..n : s[i] = x
           A == { n \in 0..Len(s) : P(n) }
<1>0. Len(s) \in Nat /\ \A n \in 1..Len(s) : s[n] \in T
  OBVIOUS
<1>2. P(0)
  BY <1>1
<1>3. ASSUME NEW n \in 0..Len(s), n < Len(s), P(n) PROVE P(n + 1)
  <2>1. /\ g[n + 1] = IF s[n + 1] \in S THEN Append(g[n], s[n + 1]) ELSE g[n]
        /\ s[n + 1] \in T
    BY <1>0, <1>1, <1>3
  <2>2. CASE s[n + 1] \notin S
    BY <1>3, <2>1, <2>2, SMTT(60)
  <2>3. CASE s[n + 1] \in S
    <3>1. /\ g[n + 1] \in Seq(T) /\ Len(g[n + 1]) = Len(g[n]) + 1
          /\ \A i \in 1..Len(g[n]) : g[n + 1][i] = g[n][i]
          /\ g[n + 1][Len(g[n]) + 1] = s[n + 1]
      BY <1>3, <2>1, <2>3
    <3>2. ASSUME NEW x
          PROVE  (\E i \in 1..Len(g[n + 1]) : g[n + 1][i] = x)
                   <=> x = s[n + 1] \/ \E i \in 1..Len(g[n]) : g[n][i] = x
      <4>1. Len(g[n]) \in Nat /\ 1..Len(g[n + 1]) = 1..Len(g[n]) \cup {Len(g[n]) + 1}
        BY <1>3, <3>1
      <4> QED
        BY <3>1, <4>1
    <3>3. ASSUME NEW x
          PROVE  (\E i \in 1..(n + 1) : s[i] = x) <=> x = s[n + 1] \/ \E i \in 1..n : s[i] = x
      <4>1. 1..(n + 1) = 1..n \cup {n + 1}
        OBVIOUS
      <4> QED
        BY <4>1
    <3>4. ASSUME NEW x
          PROVE  (\E i \in 1..Len(g[n + 1]) : g[n + 1][i] = x)
                   <=> x \in S /\ \E i \in 1..(n + 1) : s[i] = x
      BY <1>3, <2>3, <3>2, <3>3
    <3> QED
      BY <1>3, <3>1, <3>4
  <2> QED
    BY <2>2, <2>3
<1>4. P(Len(s))
  <2>1. 0 \in A /\ \A n \in 0..Len(s) : n < Len(s) /\ n \in A => n + 1 \in A
    <3> HIDE DEF P
    <3>1. 0 \in 0..Len(s) /\ \A n \in 0..Len(s) : n < Len(s) => n + 1 \in 0..Len(s)
      BY <1>0
    <3> QED
      BY <1>2, <1>3, <3>1
  <2> HIDE DEF A
  <2>2. 0..Len(s) \subseteq A
    BY <1>0, <2>1, UpTo
  <2> QED
    BY <1>0, <2>2 DEF A
<1> QED
  BY <1>1, <1>4

\* Each of the ones that are chosen is one that is wanted, and is in the list.
LEMMA ChosenOf ==
  ASSUME NEW T, NEW s \in Seq(T), NEW S
  PROVE  /\ Chosen(s, S) \in Seq(T)
         /\ \A j \in 1..Len(Chosen(s, S)) :
              Chosen(s, S)[j] \in S /\ \E i \in 1..Len(s) : Chosen(s, S)[j] = s[i]
<1>1. /\ Chosen(s, S) \in Seq(T)
      /\ \A x : (\E i \in 1..Len(Chosen(s, S)) : Chosen(s, S)[i] = x)
                  <=> x \in S /\ \E i \in 1..Len(s) : s[i] = x
  BY ChosenIs
<1> QED
  BY <1>1

\* When the last k items are all chosen, they are the last k of what is chosen.
LEMMA ChosenKeepsTail ==
  ASSUME NEW T, NEW s \in Seq(T), NEW S, NEW k \in 0..Len(s),
         \A i \in 1..Len(s) : i > Len(s) - k => s[i] \in S
  PROVE  /\ k <= Len(Chosen(s, S))
         /\ \A i \in 1..Len(Chosen(s, S)) : i > Len(Chosen(s, S)) - k =>
              \E j \in 1..Len(s) : j > Len(s) - k /\ Chosen(s, S)[i] = s[j]
<1>1. PICK g : /\ Chosen(s, S) = g[Len(s)]
               /\ g[0] = <<>>
               /\ \A n \in 1..Len(s) :
                    g[n] = IF s[n] \in S THEN Append(g[n - 1], s[n]) ELSE g[n - 1]
  BY ChosenUnfolds
<1> DEFINE first == Len(s) - k
           P(n) == /\ g[n] \in Seq(T)
                   /\ n >= first => /\ n - first <= Len(g[n])
                                    /\ \A i \in 1..Len(g[n]) : i > Len(g[n]) - (n - first) =>
                                         \E j \in 1..n : j > first /\ g[n][i] = s[j]
           A == { n \in 0..Len(s) : P(n) }
<1>0. Len(s) \in Nat /\ first \in Nat /\ \A n \in 1..Len(s) : s[n] \in T
  OBVIOUS
<1>2. P(0)
  BY <1>0, <1>1
<1> HIDE DEF first
<1>3. ASSUME NEW n \in 0..Len(s), n < Len(s), P(n) PROVE P(n + 1)
  <2>1. /\ g[n + 1] = IF s[n + 1] \in S THEN Append(g[n], s[n + 1]) ELSE g[n]
        /\ s[n + 1] \in T
    BY <1>0, <1>1, <1>3
  <2>2. CASE n + 1 <= first
    <3>1. g[n + 1] \in Seq(T) /\ Len(g[n + 1]) \in Nat
      BY <1>3, <2>1
    <3> QED
      BY <1>0, <1>3, <2>2, <3>1
  <2>3. CASE n >= first
    <3>1. s[n + 1] \in S
      BY <1>0, <1>3, <2>3 DEF first
    <3>2. /\ g[n + 1] \in Seq(T) /\ Len(g[n + 1]) = Len(g[n]) + 1 /\ Len(g[n]) \in Nat
          /\ \A i \in 1..Len(g[n]) : g[n + 1][i] = g[n][i]
          /\ g[n + 1][Len(g[n]) + 1] = s[n + 1]
      BY <1>3, <2>1, <3>1
    <3>3. ASSUME NEW i \in 1..Len(g[n + 1]), i > Len(g[n + 1]) - ((n + 1) - first)
          PROVE  \E j \in 1..(n + 1) : j > first /\ g[n + 1][i] = s[j]
      <4>1. CASE i = Len(g[n]) + 1
        BY <1>0, <1>3, <2>3, <3>2, <4>1
      <4>2. CASE i \in 1..Len(g[n])
        <5>1. i > Len(g[n]) - (n - first)
          BY <1>0, <1>3, <3>2, <3>3
        <5>2. PICK j \in 1..n : j > first /\ g[n][i] = s[j]
          BY <1>3, <2>3, <4>2, <5>1
        <5> QED
          BY <3>2, <4>2, <5>2
      <4> QED
        BY <3>2, <3>3, <4>1, <4>2
    <3> QED
      BY <1>0, <1>3, <2>3, <3>2, <3>3
  <2> QED
    BY <1>0, <1>3, <2>2, <2>3
<1>4. P(Len(s))
  <2>1. 0 \in A /\ \A n \in 0..Len(s) : n < Len(s) /\ n \in A => n + 1 \in A
    <3> HIDE DEF P
    <3>1. 0 \in 0..Len(s) /\ \A n \in 0..Len(s) : n < Len(s) => n + 1 \in 0..Len(s)
      BY <1>0
    <3> QED
      BY <1>2, <1>3, <3>1
  <2> HIDE DEF A
  <2>2. 0..Len(s) \subseteq A
    BY <1>0, <2>1, UpTo
  <2>3. Len(s) \in A
    BY <1>0, <2>2
  <2> HIDE DEF P
  <2> QED
    BY <2>3 DEF A
<1>5. Len(s) >= first /\ Len(s) - first = k
  BY <1>0 DEF first
<1> QED
  BY <1>0, <1>1, <1>4, <1>5 DEF first

\* Choosing from a list in which nothing is twice gives one in which nothing is twice.
LEMMA ChosenOnce ==
  ASSUME NEW T, NEW s \in Seq(T), NEW S,
         \A i, j \in 1..Len(s) : s[i] = s[j] => i = j
  PROVE  \A i, j \in 1..Len(Chosen(s, S)) : Chosen(s, S)[i] = Chosen(s, S)[j] => i = j
<1>1. PICK g : /\ Chosen(s, S) = g[Len(s)]
               /\ g[0] = <<>>
               /\ \A n \in 1..Len(s) :
                    g[n] = IF s[n] \in S THEN Append(g[n - 1], s[n]) ELSE g[n - 1]
  BY ChosenUnfolds
<1> DEFINE P(n) == /\ g[n] \in Seq(T)
                   /\ \A i \in 1..Len(g[n]) : \E k \in 1..n : g[n][i] = s[k]
                   /\ \A i, j \in 1..Len(g[n]) : g[n][i] = g[n][j] => i = j
           A == { n \in 0..Len(s) : P(n) }
<1>0. Len(s) \in Nat /\ \A n \in 1..Len(s) : s[n] \in T
  OBVIOUS
<1>2. P(0)
  BY <1>1
<1>3. ASSUME NEW n \in 0..Len(s), n < Len(s), P(n) PROVE P(n + 1)
  <2>1. /\ g[n + 1] = IF s[n + 1] \in S THEN Append(g[n], s[n + 1]) ELSE g[n]
        /\ s[n + 1] \in T /\ n + 1 \in 1..Len(s)
    BY <1>0, <1>1, <1>3
  <2>2. CASE s[n + 1] \notin S
    BY <1>3, <2>1, <2>2
  <2>3. CASE s[n + 1] \in S
    <3>1. /\ g[n + 1] \in Seq(T) /\ Len(g[n + 1]) = Len(g[n]) + 1 /\ Len(g[n]) \in Nat
          /\ \A i \in 1..Len(g[n]) : g[n + 1][i] = g[n][i]
          /\ g[n + 1][Len(g[n]) + 1] = s[n + 1]
      BY <1>3, <2>1, <2>3
    <3>2. \A i \in 1..Len(g[n]) : g[n][i] # s[n + 1]
      <4> SUFFICES ASSUME NEW i \in 1..Len(g[n]), g[n][i] = s[n + 1] PROVE FALSE
        OBVIOUS
      <4>1. PICK k \in 1..n : g[n][i] = s[k]
        BY <1>3
      <4>2. k \in 1..Len(s) /\ k # n + 1
        BY <1>0, <1>3
      <4> QED
        BY <2>1, <4>1, <4>2
    <3>3. \A i \in 1..Len(g[n + 1]) : i \in 1..Len(g[n]) \/ i = Len(g[n]) + 1
      BY <3>1
    <3>4. \A i \in 1..Len(g[n + 1]) : \E k \in 1..(n + 1) : g[n + 1][i] = s[k]
      BY <1>3, <3>1, <3>3
    <3>5. \A i, j \in 1..Len(g[n + 1]) : g[n + 1][i] = g[n + 1][j] => i = j
      BY <1>3, <3>1, <3>2, <3>3
    <3> QED
      BY <3>1, <3>4, <3>5
  <2> QED
    BY <2>2, <2>3
<1>4. P(Len(s))
  <2>1. 0 \in A /\ \A n \in 0..Len(s) : n < Len(s) /\ n \in A => n + 1 \in A
    <3> HIDE DEF P
    <3>1. 0 \in 0..Len(s) /\ \A n \in 0..Len(s) : n < Len(s) => n + 1 \in 0..Len(s)
      BY <1>0
    <3> QED
      BY <1>2, <1>3, <3>1
  <2> HIDE DEF A
  <2>2. 0..Len(s) \subseteq A
    BY <1>0, <2>1, UpTo
  <2>3. Len(s) \in A
    BY <1>0, <2>2
  <2> HIDE DEF P
  <2> QED
    BY <2>3 DEF A
<1> QED
  BY <1>1, <1>4

\* Of what is in A only when it is in B, no more are chosen by A than by B.
LEMMA ChosenFewer ==
  ASSUME NEW T, NEW s \in Seq(T), NEW A, NEW B, \A i \in 1..Len(s) : s[i] \in A => s[i] \in B
  PROVE  Len(Chosen(s, A)) <= Len(Chosen(s, B))
<1>1. PICK g : /\ Chosen(s, A) = g[Len(s)]
               /\ g[0] = <<>>
               /\ \A n \in 1..Len(s) :
                    g[n] = IF s[n] \in A THEN Append(g[n - 1], s[n]) ELSE g[n - 1]
  BY ChosenUnfolds
<1>2. PICK h : /\ Chosen(s, B) = h[Len(s)]
               /\ h[0] = <<>>
               /\ \A n \in 1..Len(s) :
                    h[n] = IF s[n] \in B THEN Append(h[n - 1], s[n]) ELSE h[n - 1]
  BY ChosenUnfolds
<1> DEFINE P(n) == g[n] \in Seq(T) /\ h[n] \in Seq(T) /\ Len(g[n]) <= Len(h[n])
           C == { n \in 0..Len(s) : P(n) }
<1>0. Len(s) \in Nat /\ \A n \in 1..Len(s) : s[n] \in T
  OBVIOUS
<1>3. P(0)
  BY <1>1, <1>2
<1>4. ASSUME NEW n \in 0..Len(s), n < Len(s), P(n) PROVE P(n + 1)
  <2>1. /\ g[n + 1] = IF s[n + 1] \in A THEN Append(g[n], s[n + 1]) ELSE g[n]
        /\ h[n + 1] = IF s[n + 1] \in B THEN Append(h[n], s[n + 1]) ELSE h[n]
        /\ s[n + 1] \in T /\ (s[n + 1] \in A => s[n + 1] \in B)
    BY <1>0, <1>1, <1>2, <1>4
  <2>2. /\ Append(g[n], s[n + 1]) \in Seq(T) /\ Len(Append(g[n], s[n + 1])) = Len(g[n]) + 1
        /\ Append(h[n], s[n + 1]) \in Seq(T) /\ Len(Append(h[n], s[n + 1])) = Len(h[n]) + 1
        /\ Len(g[n]) \in Nat /\ Len(h[n]) \in Nat
    BY <1>4, <2>1
  <2> QED
    BY <1>4, <2>1, <2>2
<1>5. P(Len(s))
  <2>1. 0 \in C /\ \A n \in 0..Len(s) : n < Len(s) /\ n \in C => n + 1 \in C
    <3> HIDE DEF P
    <3>1. 0 \in 0..Len(s) /\ \A n \in 0..Len(s) : n < Len(s) => n + 1 \in 0..Len(s)
      BY <1>0
    <3> QED
      BY <1>3, <1>4, <3>1
  <2> HIDE DEF C
  <2>2. 0..Len(s) \subseteq C
    BY <1>0, <2>1, UpTo
  <2>3. Len(s) \in C
    BY <1>0, <2>2
  <2> HIDE DEF P
  <2> QED
    BY <2>3 DEF C
<1> QED
  BY <1>1, <1>2, <1>5

\* An item at the end adds itself to what is chosen, or nothing.
LEMMA ChosenAppend ==
  ASSUME NEW T, NEW s \in Seq(T), NEW x \in T, NEW S
  PROVE  Chosen(Append(s, x), S) = IF x \in S THEN Append(Chosen(s, S), x) ELSE Chosen(s, S)
<1> DEFINE t == Append(s, x)
<1>0. /\ t \in Seq(T) /\ Len(t) = Len(s) + 1 /\ Len(s) \in Nat
      /\ \A i \in 1..Len(s) : t[i] = s[i]
      /\ t[Len(s) + 1] = x
  OBVIOUS
<1> HIDE DEF t
<1>1. PICK g : /\ Chosen(s, S) = g[Len(s)]
               /\ g[0] = <<>>
               /\ \A n \in 1..Len(s) :
                    g[n] = IF s[n] \in S THEN Append(g[n - 1], s[n]) ELSE g[n - 1]
  BY ChosenUnfolds
<1>2. PICK h : /\ Chosen(t, S) = h[Len(t)]
               /\ h[0] = <<>>
               /\ \A n \in 1..Len(t) :
                    h[n] = IF t[n] \in S THEN Append(h[n - 1], t[n]) ELSE h[n - 1]
  BY <1>0, ChosenUnfolds
<1> DEFINE C == { n \in 0..Len(s) : g[n] = h[n] }
<1>3. 0 \in C
  BY <1>0, <1>1, <1>2
<1>4. ASSUME NEW n \in 0..Len(s), n < Len(s), n \in C PROVE n + 1 \in C
  <2>1. n + 1 \in 1..Len(s) /\ n + 1 \in 1..Len(t) /\ (n + 1) - 1 = n /\ t[n + 1] = s[n + 1]
    BY <1>0, <1>4
  <2>2. g[n + 1] = IF s[n + 1] \in S THEN Append(g[n], s[n + 1]) ELSE g[n]
    BY <1>1, <2>1
  <2>3. h[n + 1] = IF t[n + 1] \in S THEN Append(h[n], t[n + 1]) ELSE h[n]
    BY <1>2, <2>1
  <2>4. g[n] = h[n]
    BY <1>4
  <2>5. g[n + 1] = h[n + 1]
    BY <2>1, <2>2, <2>3, <2>4
  <2> QED
    BY <1>0, <2>1, <2>5
<1>5. Len(s) \in C
  <2> HIDE DEF C
  <2>1. 0..Len(s) \subseteq C
    BY <1>0, <1>3, <1>4, UpTo
  <2> QED
    BY <1>0, <2>1
<1>6. g[Len(s)] = h[Len(s)]
  BY <1>5
<1>7. h[Len(s) + 1] = IF x \in S THEN Append(h[Len(s)], x) ELSE h[Len(s)]
  <2>1. Len(s) + 1 \in 1..Len(t) /\ (Len(s) + 1) - 1 = Len(s)
    BY <1>0
  <2> QED
    BY <1>0, <1>2, <2>1
<1> QED
  BY <1>0, <1>1, <1>2, <1>6, <1>7 DEF t

\* Choosing what is all that there is changes nothing.
LEMMA ChosenAll ==
  ASSUME NEW T, NEW s \in Seq(T), NEW S, \A i \in 1..Len(s) : s[i] \in S
  PROVE  Chosen(s, S) = s
<1>1. PICK g : /\ Chosen(s, S) = g[Len(s)]
               /\ g[0] = <<>>
               /\ \A n \in 1..Len(s) :
                    g[n] = IF s[n] \in S THEN Append(g[n - 1], s[n]) ELSE g[n - 1]
  BY ChosenUnfolds
<1> DEFINE P(n) == g[n] \in Seq(T) /\ Len(g[n]) = n /\ \A i \in 1..n : g[n][i] = s[i]
           C == { n \in 0..Len(s) : P(n) }
<1>0. Len(s) \in Nat /\ \A n \in 1..Len(s) : s[n] \in T
  OBVIOUS
<1>3. P(0)
  BY <1>1
<1>4. ASSUME NEW n \in 0..Len(s), n < Len(s), P(n) PROVE P(n + 1)
  <2>0. n + 1 \in 1..Len(s) /\ (n + 1) - 1 = n
    BY <1>0, <1>4
  <2>1. g[n + 1] = Append(g[n], s[n + 1]) /\ s[n + 1] \in T
    BY <1>0, <1>1, <2>0
  <2>2. /\ g[n + 1] \in Seq(T) /\ Len(g[n + 1]) = n + 1 /\ g[n + 1][n + 1] = s[n + 1]
        /\ \A i \in 1..n : g[n + 1][i] = g[n][i]
    BY <1>4, <2>1, AppendProperties
  <2> QED
    BY <1>4, <2>2
<1>5. P(Len(s))
  <2>1. 0 \in C /\ \A n \in 0..Len(s) : n < Len(s) /\ n \in C => n + 1 \in C
    <3> HIDE DEF P
    <3>1. 0 \in 0..Len(s) /\ \A n \in 0..Len(s) : n < Len(s) => n + 1 \in 0..Len(s)
      BY <1>0
    <3> QED
      BY <1>3, <1>4, <3>1
  <2> HIDE DEF C
  <2>2. 0..Len(s) \subseteq C
    BY <1>0, <2>1, UpTo
  <2>3. Len(s) \in C
    BY <1>0, <2>2
  <2> HIDE DEF P
  <2> QED
    BY <2>3 DEF C
<1>6. Chosen(s, S) \in Seq(T) /\ Len(Chosen(s, S)) = Len(s) /\ \A i \in 1..Len(Chosen(s, S)) : Chosen(s, S)[i] = s[i]
  BY <1>1, <1>5
<1> HIDE DEF P, C
<1> QED
  BY <1>6, SeqEqual

\* What is chosen for two tests that exclude each other fits beside each other.
LEMMA ChosenApart ==
  ASSUME NEW T, NEW s \in Seq(T), NEW A, NEW B, \A i \in 1..Len(s) : ~(s[i] \in A /\ s[i] \in B)
  PROVE  Len(Chosen(s, A)) + Len(Chosen(s, B)) <= Len(s)
<1>1. PICK g : /\ Chosen(s, A) = g[Len(s)]
               /\ g[0] = <<>>
               /\ \A n \in 1..Len(s) :
                    g[n] = IF s[n] \in A THEN Append(g[n - 1], s[n]) ELSE g[n - 1]
  BY ChosenUnfolds
<1>2. PICK h : /\ Chosen(s, B) = h[Len(s)]
               /\ h[0] = <<>>
               /\ \A n \in 1..Len(s) :
                    h[n] = IF s[n] \in B THEN Append(h[n - 1], s[n]) ELSE h[n - 1]
  BY ChosenUnfolds
<1> DEFINE P(n) == g[n] \in Seq(T) /\ h[n] \in Seq(T) /\ Len(g[n]) + Len(h[n]) <= n
           C == { n \in 0..Len(s) : P(n) }
<1>0. Len(s) \in Nat /\ \A n \in 1..Len(s) : s[n] \in T
  OBVIOUS
<1>3. P(0)
  BY <1>1, <1>2
<1>4. ASSUME NEW n \in 0..Len(s), n < Len(s), P(n) PROVE P(n + 1)
  <2>1. /\ g[n + 1] = IF s[n + 1] \in A THEN Append(g[n], s[n + 1]) ELSE g[n]
        /\ h[n + 1] = IF s[n + 1] \in B THEN Append(h[n], s[n + 1]) ELSE h[n]
        /\ s[n + 1] \in T /\ ~(s[n + 1] \in A /\ s[n + 1] \in B)
    BY <1>0, <1>1, <1>2, <1>4
  <2>2. /\ Append(g[n], s[n + 1]) \in Seq(T) /\ Len(Append(g[n], s[n + 1])) = Len(g[n]) + 1
        /\ Append(h[n], s[n + 1]) \in Seq(T) /\ Len(Append(h[n], s[n + 1])) = Len(h[n]) + 1
        /\ Len(g[n]) \in Nat /\ Len(h[n]) \in Nat
    BY <1>4, <2>1
  <2> DEFINE a == Len(g[n])
             b == Len(h[n])
             a2 == Len(g[n + 1])
             b2 == Len(h[n + 1])
  <2>3. /\ g[n + 1] \in Seq(T) /\ h[n + 1] \in Seq(T)
        /\ a2 = a \/ (a2 = a + 1 /\ s[n + 1] \in A)
        /\ b2 = b \/ (b2 = b + 1 /\ s[n + 1] \in B)
    BY <1>4, <2>1, <2>2
  <2>4. a \in Nat /\ b \in Nat /\ n \in Nat /\ a + b <= n
    <3>1. n \in Nat
      BY <1>0
    <3>2. a \in Nat /\ b \in Nat
      BY <2>2
    <3>3. a + b <= n
      BY <1>4
    <3> QED
      BY <3>1, <3>2, <3>3
  <2> HIDE DEF a, b, a2, b2
  <2>5. a2 + b2 <= n + 1
    BY <2>1, <2>3, <2>4
  <2> QED
    BY <2>3, <2>5 DEF a2, b2
<1>5. P(Len(s))
  <2>1. 0 \in C /\ \A n \in 0..Len(s) : n < Len(s) /\ n \in C => n + 1 \in C
    <3> HIDE DEF P
    <3>1. 0 \in 0..Len(s) /\ \A n \in 0..Len(s) : n < Len(s) => n + 1 \in 0..Len(s)
      BY <1>0
    <3> QED
      BY <1>3, <1>4, <3>1
  <2> HIDE DEF C
  <2>2. 0..Len(s) \subseteq C
    BY <1>0, <2>1, UpTo
  <2>3. Len(s) \in C
    BY <1>0, <2>2
  <2> HIDE DEF P
  <2> QED
    BY <2>3 DEF C
<1> QED
  BY <1>1, <1>2, <1>5

\* A list in two parts.
LEMMA InTwo ==
  ASSUME NEW T, NEW s \in Seq(T), NEW k \in 1..Len(s)
  PROVE  /\ SubSeq(s, 1, k) \in Seq(T) /\ Len(SubSeq(s, 1, k)) = k
         /\ SubSeq(s, k + 1, Len(s)) \in Seq(T) /\ Len(SubSeq(s, k + 1, Len(s))) = Len(s) - k
         /\ SubSeq(s, 1, k) \o SubSeq(s, k + 1, Len(s)) = s
<1>1. /\ Len(s) \in Nat /\ k \in Nat /\ k <= Len(s) /\ 1 <= k
      /\ \A i \in 1..Len(s) : s[i] \in T
  OBVIOUS
<1>2. /\ SubSeq(s, 1, k) \in Seq(T) /\ Len(SubSeq(s, 1, k)) = k
  <2>1. \A i \in 1..k : s[i] \in T
    BY <1>1
  <2>2. 1 \in Int /\ k \in Int /\ Len(SubSeq(s, 1, k)) = IF 1 <= k THEN k - 1 + 1 ELSE 0
    BY <1>1, <2>1, SubSeqProperties
  <2>3. SubSeq(s, 1, k) \in Seq(T)
    BY <1>1, <2>1, SubSeqProperties
  <2> QED
    BY <1>1, <2>2, <2>3
<1>3. /\ SubSeq(s, k + 1, Len(s)) \in Seq(T)
      /\ Len(SubSeq(s, k + 1, Len(s))) = Len(s) - k
  <2>1. \A i \in (k + 1)..Len(s) : s[i] \in T
    BY <1>1
  <2>2. k + 1 \in Int /\ Len(s) \in Int
    BY <1>1
  <2>3. SubSeq(s, k + 1, Len(s)) \in Seq(T)
    BY <2>1, <2>2, SubSeqProperties
  <2>4. Len(SubSeq(s, k + 1, Len(s))) = IF k + 1 <= Len(s) THEN Len(s) - (k + 1) + 1 ELSE 0
    BY <2>1, <2>2, SubSeqProperties
  <2> QED
    BY <1>1, <2>3, <2>4
<1>4. SubSeq(s, 1, k) \o SubSeq(s, k + 1, Len(s)) = s
  <2>1. 1 \in 1..(Len(s) + 1) /\ k \in (1 - 1)..Len(s) /\ Len(s) \in k..Len(s)
    BY <1>1
  <2>2. SubSeq(s, 1, k) \o SubSeq(s, k + 1, Len(s)) = SubSeq(s, 1, Len(s))
    BY <2>1, ConcatAdjacentSubSeq
  <2> QED
    BY <2>2, SubSeqFull
<1> QED
  BY <1>2, <1>3, <1>4
=============================================================================
