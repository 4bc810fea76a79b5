------------------------------ MODULE Selection ------------------------------
(***************************************************************************)
(* The list comprehension `[x for x in s if x in S]`, which keeps the      *)
(* order of what it keeps: how TaskManager.list filters its tasks and the  *)
(* automation engine its rules.  A recursive function, so that             *)
(* Selection_proofs can say what it returns for every sequence.            *)
(***************************************************************************)
EXTENDS Integers, Sequences

Chosen(s, S) ==
  LET upTo[n \in 0..Len(s)] ==
        IF n = 0 THEN <<>>
        ELSE IF s[n] \in S THEN Append(upTo[n - 1], s[n])
        ELSE upTo[n - 1]
  IN upTo[Len(s)]
===============================================================================
