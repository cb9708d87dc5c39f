------------------------------ MODULE ChatUsers ------------------------------
(* The users of the chat: the same for its gateway, its permissions and its     *)
(* receipts, which have nothing else in common.                                 *)
CONSTANT Users
===============================================================================
