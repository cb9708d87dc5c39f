----------------------- MODULE MCChannelMembership -----------------------
(* Bounded instances of ChannelMembership for TLC. *)
EXTENDS ChannelMembership, TLC

\* Every userIds array of at most two entries, repetitions included.
ListsUpTo2 == {<<u>> : u \in Users} \cup {<<u, v>> : u, v \in Users}

Symmetry == Permutations(Users) \cup Permutations(Slots)
=============================================================================
