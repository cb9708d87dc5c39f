------------------------- MODULE MCChannelDelivery -------------------------
(* A user with two connections, one in many channels, and a broadcast.      *)
EXTENDS ChannelDelivery, TLC

CONSTANTS u1, u2, k1, k2, k3, b1

TwoConnections == (k1 :> u1) @@ (k2 :> u1) @@ (k3 :> u2)
Symmetry == Permutations({k1, k2})
=============================================================================
