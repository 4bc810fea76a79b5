---------------------------- MODULE MCTaskControl ----------------------------
(* Instances of TaskControl for TLC. *)
EXTENDS TaskControl, TLC

CONSTANTS t1, t2, d1, d2

OneTask == {t1}
TwoTasks == {t1, t2}

OneDevice == {d1}
TwoDevices == {d1, d2}

\* Tasks are told apart by nothing but their place in `order`, devices by nothing.
Symmetry == Permutations(Tasks) \cup Permutations(Devices)
===============================================================================
