--------------------------- MODULE MCSubscriptions ---------------------------
(* One tenant, two plans, two payment methods, two requests at once.       *)
EXTENDS Subscriptions, TLC

CONSTANTS t1, p1, p2, m1, m2, s1, s2
===============================================================================
