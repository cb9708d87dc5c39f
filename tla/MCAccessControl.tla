--------------------------- MODULE MCAccessControl ---------------------------
(***************************************************************************)
(* Two users, one of them an administrator, three roles, two permissions,  *)
(* one menu, two features, one link, and two requests at once: three for   *)
(* the roles, or three for the rest, or one for each.                      *)
(***************************************************************************)
EXTENDS AccessControl, TLC

CONSTANTS u1, u2, r1, r2, r3, p1, p2, m1, f1, f2, k1, s1, s2

\* Both sets are used as a whole.
Symmetry == Permutations({s1, s2}) \cup Permutations({r1, r2})
=============================================================================
