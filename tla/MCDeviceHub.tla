----------------------------- MODULE MCDeviceHub -----------------------------
(* Instances of DeviceHub for TLC. *)
EXTENDS DeviceHub, TLC

CONSTANTS s1, s2, a1

TwoSockets == {s1, s2}
OneCall == {a1}
Symmetry == Permutations(Sockets)
===============================================================================
