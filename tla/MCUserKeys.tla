------------------------------ MODULE MCUserKeys ------------------------------
(* One user, two passwords, two calls at once.                             *)
EXTENDS UserKeys, TLC

CONSTANTS p1, p2, t1, s1, s2

Symmetry == Permutations(Passwords) \cup Permutations(Slots)
===============================================================================
