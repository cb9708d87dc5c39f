--------------------------- MODULE MCChatAndSignUp ---------------------------
(* A few users, messages, tenants and providers for each area.             *)
EXTENDS ChatAndSignUp

MCAreaCalls == [messages |-> 3, notifications |-> 3, onboarding |-> 2, logins |-> 3]
MCAreaFaults == [a \in Areas |-> 1]

=============================================================================
