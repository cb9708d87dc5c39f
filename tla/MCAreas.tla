------------------------------ MODULE MCAreas ------------------------------
(* A few codes, tokens, offers, files and users for each area.             *)
EXTENDS Areas, TLC

CONSTANTS i1, i2, c1, c2, s1, s2, u1, u2, u3

MCAreaCalls ==
    [platforms |-> 3, offers |-> 4, files |-> 3, limits |-> 5, events |-> 4, history |-> 2,
     shares |-> 4]
MCAreaFaults == [a \in Areas |-> 1]

Symmetry == Permutations({i1, i2}) \cup Permutations({c1, c2}) \cup Permutations({s1, s2}) \cup Permutations({u2, u3})

=============================================================================
