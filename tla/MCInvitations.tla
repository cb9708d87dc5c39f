---------------------------- MODULE MCInvitations ----------------------------
(* One address, its invitations, and two calls at once.                    *)
EXTENDS Invitations, TLC

CONSTANTS a1, i1, i2, i3, s1, s2
===============================================================================
