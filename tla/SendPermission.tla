--------------------------- MODULE SendPermission ---------------------------
(***************************************************************************)
(* Who may post to a channel, as sendMessage decides it: validateFromCache *)
(* answers from the Redis key validate:{channel}:{user} when it can, from  *)
(* sp_ValidateMessageSend_Fast otherwise, and caches what the database     *)
(* said in a setImmediate callback.  Nothing ever deletes the key:         *)
(* addMembers, removeMember and leaveChannel do not touch it, and          *)
(* invalidateCaches names it by a glob pattern, which DEL takes literally. *)
(* Only its time to live ends it.                                          *)
(***************************************************************************)
EXTENDS ChatUsers, Naturals

CONSTANTS
    Sends,   \* sendMessage calls in flight at once
    TTL      \* lifetime of a cached answer, in ticks of the clock

ASSUME TTLAssumption == TTL \in Nat \ {0}

VARIABLES
    member,  \* member[u]: chat_participants has an active row for u
    entry,   \* entry[u]: the Redis key, NoEntry or an answer with its age
    fills,   \* fills[u]: answers whose setImmediate write has yet to run
    send     \* the sendMessage calls

permissionVars == <<member, entry, fills, send>>

NoEntry == [left |-> 0]
Entry == [ok : BOOLEAN, left : 1..TTL]
NoSend == [pc |-> "idle"]
Call == [pc : {"query", "insert"}, user : Users]

PermissionTypeOK ==
    /\ member \in [Users -> BOOLEAN]
    /\ entry \in [Users -> Entry \cup {NoEntry}]
    /\ fills \in [Users -> SUBSET BOOLEAN]
    /\ send \in [Sends -> Call \cup {NoSend}]

PermissionInit ==
    /\ member \in [Users -> BOOLEAN]
    /\ entry = [u \in Users |-> NoEntry]
    /\ fills = [u \in Users |-> {}]
    /\ send = [s \in Sends |-> NoSend]

-----------------------------------------------------------------------------
\* addMembers, createChannel / removeMember, leaveChannel: the row changes,
\* the cached answer stays.
Join(u) ==
    /\ ~member[u]
    /\ member' = [member EXCEPT ![u] = TRUE]
    /\ UNCHANGED <<entry, fills, send>>

Leave(u) ==
    /\ member[u]
    /\ member' = [member EXCEPT ![u] = FALSE]
    /\ UNCHANGED <<entry, fills, send>>

\* Mutant: a hit renews the key (a sliding expiry).
CacheHitRenewing(s, u) ==
    /\ send[s] = NoSend
    /\ entry[u] # NoEntry
    /\ send' = [send EXCEPT ![s] = IF entry[u].ok THEN [pc |-> "insert", user |-> u] ELSE NoSend]
    /\ entry' = [entry EXCEPT ![u].left = TTL]
    /\ UNCHANGED <<member, fills>>

\* A cached answer decides the call: 'Not a channel member' ends it.
CacheHit(s, u) ==
    /\ send[s] = NoSend
    /\ entry[u] # NoEntry
    /\ send' = [send EXCEPT ![s] = IF entry[u].ok THEN [pc |-> "insert", user |-> u] ELSE NoSend]
    /\ UNCHANGED <<member, entry, fills>>

\* No key, or the answer lost the 10 ms race, or Redis is unavailable: the
\* database is asked whatever the key holds.
CacheMiss(s, u) ==
    /\ send[s] = NoSend
    /\ send' = [send EXCEPT ![s] = [pc |-> "query", user |-> u]]
    /\ UNCHANGED <<member, entry, fills>>

\* Mutant: the answer is taken as a grant without looking at it.
QueryGranting(s) ==
    LET u == send[s].user
    IN  /\ send[s].pc = "query"
        /\ fills' = [fills EXCEPT ![u] = @ \cup {TRUE}]
        /\ send' = [send EXCEPT ![s].pc = "insert"]
        /\ UNCHANGED <<member, entry>>

Query(s) ==
    LET u == send[s].user
    IN  /\ send[s].pc = "query"
        /\ fills' = [fills EXCEPT ![u] = @ \cup {member[u]}]
        /\ send' = [send EXCEPT ![s] = IF member[u] THEN [pc |-> "insert", user |-> u] ELSE NoSend]
        /\ UNCHANGED <<member, entry>>

QueryFails(s) ==
    /\ send[s].pc = "query"
    /\ send' = [send EXCEPT ![s] = NoSend]
    /\ UNCHANGED <<member, entry, fills>>

\* sp_SendMessage_Fast: the message row is written without another look at
\* the membership, or the statement fails and the call with it.
Insert(s) ==
    /\ send[s].pc = "insert"
    /\ send' = [send EXCEPT ![s] = NoSend]
    /\ UNCHANGED <<member, entry, fills>>

\* The setImmediate callback: SET key answer EX 60, or nothing when Redis is
\* unavailable by then.
Fill(u, ok) ==
    /\ ok \in fills[u]
    /\ fills' = [fills EXCEPT ![u] = @ \ {ok}]
    /\ \/ entry' = [entry EXCEPT ![u] = [ok |-> ok, left |-> TTL]]
       \/ UNCHANGED entry
    /\ UNCHANGED <<member, send>>

\* Redis ages every key; a hit does not renew it.
Tick ==
    /\ \E u \in Users : entry[u] # NoEntry
    /\ entry' = [u \in Users |-> IF entry[u].left > 1 THEN [entry[u] EXCEPT !.left = @ - 1]
                                 ELSE NoEntry]
    /\ UNCHANGED <<member, fills, send>>

System ==
    \/ \E s \in Sends : Query(s) \/ QueryFails(s) \/ Insert(s)
    \/ \E u \in Users, ok \in BOOLEAN : Fill(u, ok)
    \/ Tick

PermissionNext ==
    \/ \E u \in Users : Join(u) \/ Leave(u)
    \/ \E s \in Sends, u \in Users : CacheHit(s, u) \/ CacheMiss(s, u)
    \/ System

PermissionSpec == PermissionInit /\ [][PermissionNext]_permissionVars

\* Queries answer or fail, callbacks run and keys age; nobody has to post or to leave.
Fairness ==
    /\ \A s \in Sends : WF_permissionVars(Query(s) \/ QueryFails(s) \/ Insert(s))
    /\ \A u \in Users, ok \in BOOLEAN : WF_permissionVars(Fill(u, ok))
    /\ WF_permissionVars(Tick)

FairSpec == PermissionSpec /\ Fairness

-----------------------------------------------------------------------------
Granted(e) == e # NoEntry /\ e.ok
Refused(e) == e # NoEntry /\ ~e.ok

\* What still lets u post although the database may say otherwise.
MayPost(u) ==
    \/ Granted(entry[u])
    \/ TRUE \in fills[u]
    \/ \E s \in Sends : send[s] = [pc |-> "insert", user |-> u]

\* Once the permission of a former member is gone it stays gone until the user
\* is added again: no late fill, timed-out read or queued call brings it back.
NoResurrection ==
    [][\A u \in Users : ~member[u] /\ ~MayPost(u) /\ ~member'[u] => ~MayPost(u)']_permissionVars

\* A removal takes effect: however often the removed user keeps posting on the
\* cached permission, it runs out, unless the user is added again.
RemovalTakesEffect == \A u \in Users : ~member[u] ~> member[u] \/ ~MayPost(u)

\* An addition takes effect: the refusal cached when a stranger tried to post
\* does not outlive its time, unless the user leaves again.
AdditionTakesEffect ==
    \A u \in Users : member[u] ~> ~member[u] \/ (~Refused(entry[u]) /\ FALSE \notin fills[u])

\* What the database says of a membership is what the cache comes to say.
ChangesTakeEffect == RemovalTakesEffect /\ AdditionTakesEffect
=============================================================================
