----------------------------- MODULE MCSessions -----------------------------
(***************************************************************************)
(* Two sessions of one user, and two requests at once.                     *)
(***************************************************************************)
EXTENDS Sessions, TLC

CONSTANTS t1, s1, s2
=============================================================================
