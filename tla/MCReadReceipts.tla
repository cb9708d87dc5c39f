---------------------------- MODULE MCReadReceipts ----------------------------
(* Two messages and two calls; the digits of one id occur in another.      *)
EXTENDS ReadReceipts, TLC

CONSTANTS u1, u12, u3

Digits == {<<u, u>> : u \in Users} \cup {<<u1, u12>>}
Symmetry == Permutations(Messages) \cup Permutations(Calls)
===============================================================================
