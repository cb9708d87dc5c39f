---------------------------- MODULE SessionStore ----------------------------
(***************************************************************************)
(* What user_sessions promises of the sessions of one account: a session   *)
(* is opened once, its refresh token is known to it alone and may be       *)
(* exchanged for another, and a session that was closed stays closed.      *)
(***************************************************************************)
CONSTANTS Ids, Tokens, None

VARIABLES
    token,  \* token[i]: what session i may be refreshed with
    opened  \* sessions that were opened

storeVars == <<token, opened>>

StoreInit == token = [i \in Ids |-> None] /\ opened = {}

Unknown(tk, i) == \A j \in Ids \ {i} : token[j] # tk

Open(i, tk) ==
    /\ i \notin opened
    /\ opened' = opened \cup {i}
    /\ Unknown(tk, i)
    /\ token' = [token EXCEPT ![i] = tk]

Exchange(i, tk) ==
    /\ token[i] # None
    /\ Unknown(tk, i)
    /\ token' = [token EXCEPT ![i] = tk]
    /\ UNCHANGED opened

Close(S) ==
    /\ token' = [i \in Ids |-> IF i \in S THEN None ELSE token[i]]
    /\ UNCHANGED opened

StoreNext ==
    \/ \E i \in Ids, tk \in Tokens : Open(i, tk) \/ Exchange(i, tk)
    \/ \E S \in SUBSET Ids : Close(S)

StoreSpec == StoreInit /\ [][StoreNext]_storeVars
=============================================================================
