--------------------------- MODULE SessionsProofs ---------------------------
(***************************************************************************)
(* The rows of user_sessions implement the store of sessions, for any      *)
(* number of sessions, requests and tenants: a refresh that is overtaken   *)
(* by a logout exchanges nothing, for its UPDATE leaves is_active alone,   *)
(* and no two sessions are ever refreshed with one token.  The holder of   *)
(* a session keeps its token, and who guesses passwords is stopped by the  *)
(* counter in Redis, whatever calls overlap and whatever fails.            *)
(***************************************************************************)
EXTENDS Sessions, FiniteSetTheorems, TLAPS

Refreshing == {"refresh.user", "refresh.write"}
Calls == Login \cup Insert \cup Refresh \cup Answer \cup {Idle}

\* What a refresh has read is there: rows of user_sessions are not deleted.
SessionInv ==
    /\ now \in 0..MaxTime
    /\ row \in [Ids -> Row \cup {NoRow}]
    /\ call \in [Slots -> Calls]
    /\ \A s \in Slots : call[s].pc \in Refreshing => There(call[s].id)

-----------------------------------------------------------------------------
LEMMA RefreshShape ==
    ASSUME SessionInv, NEW s \in Slots, call[s].pc \in Refreshing
    PROVE  call[s] \in Refresh /\ call[s].id \in Ids /\ call[s].token \in Tokens
    BY DEF SessionInv, Calls, Login, Insert, Refresh, Answer, Idle, Refreshing

LEMMA InsertShape ==
    ASSUME SessionInv, NEW s \in Slots, call[s].pc = "insert"
    PROVE  call[s].token \in Tokens
    BY DEF SessionInv, Calls, Login, Insert, Refresh, Answer, Idle

\* A row that is there has a token.
LEMMA RowShape ==
    ASSUME SessionInv, NEW i \in Ids
    PROVE  /\ There(i) => row[i] \in Row /\ row[i].token \in Tokens /\ row[i].token # None
           /\ ~There(i) => row[i] = NoRow
    BY NoneAssumption DEF SessionInv, There, Row

LEMMA NoRowIsNone == \A r \in Row : r # NoRow
    BY NoneAssumption DEF Row, NoRow

\* One call goes on or ends, and the sessions are those they were.
LEMMA Moving ==
    ASSUME SessionInv, NEW s \in Slots, NEW c \in Calls, call' = [call EXCEPT ![s] = c],
           row' = row, now' = now, c.pc \in Refreshing => There(c.id)
    PROVE  SessionInv'
    BY DEF SessionInv, There

LEMMA TokenSigned ==
    ASSUME SessionInv, NEW t \in Tenants \cup {None}, NEW o \in BOOLEAN
    PROVE  [at |-> now, tenant |-> t, onboarding |-> o] \in Tokens
    BY DEF SessionInv, Tokens
-----------------------------------------------------------------------------
\* The calls that leave user_sessions alone.
LEMMA Elsewhere ==
    ASSUME SessionInv, NEW s \in Slots,
           \/ LoginStart(s) \/ LoginLost(s) \/ LoginUnlimited(s) \/ VerifyRegistration(s)
           \/ LoginExpire(s) \/ LoginTtl(s) \/ LoginUser(s) \/ VerifyUser(s)
           \/ Opened(s) \/ Answered(s) \/ Abort(s)
           \/ \E t \in Tenants : SwitchTenant(s, t)
    PROVE  SessionInv' /\ row' = row
    <1>0. Idle \in Calls /\ Idle.pc \notin Refreshing
        BY DEF Idle, Calls, Refreshing
    <1>1. \A pc \in {"login.expire", "login.ttl", "login.user", "verify.user"} :
              [pc |-> pc] \in Calls /\ [pc |-> pc].pc \notin Refreshing
        BY DEF Calls, Login, Refreshing
    <1>2. \A tk \in Tokens : /\ [pc |-> "insert", token |-> tk] \in Calls
                             /\ [pc |-> "insert", token |-> tk].pc \notin Refreshing
        BY DEF Calls, Insert, Refreshing
    <1>3. CASE LoginStart(s) \/ LoginLost(s) \/ LoginUnlimited(s) \/ VerifyRegistration(s)
        <2>1. row' = row /\ now' = now
            BY <1>3 DEF LoginStart, LoginLost, LoginUnlimited, VerifyRegistration, Begin, World, Rows
        <2>2. PICK c \in Calls : call' = [call EXCEPT ![s] = c] /\ c.pc \notin Refreshing
            BY <1>0, <1>1, <1>3 DEF LoginStart, LoginLost, LoginUnlimited, VerifyRegistration, Begin
        <2> QED
            BY <2>1, <2>2, Moving
    <1>4. CASE LoginExpire(s) \/ LoginTtl(s)
        <2>1. row' = row /\ now' = now
            BY <1>4 DEF LoginExpire, LoginTtl, World, Rows
        <2>2. call[s] \in Login
            BY <1>4 DEF LoginExpire, LoginTtl, At, SessionInv, Calls, Login, Insert, Refresh, Answer, Idle
        <2>3. \/ call' = [call EXCEPT ![s] = [call[s] EXCEPT !.pc = "login.user"]]
              \/ call' = [call EXCEPT ![s] = Idle]
            BY <1>4, <2>2 DEF LoginExpire, LoginTtl, Goto, Done, SessionInv
        <2>4. [call[s] EXCEPT !.pc = "login.user"] = [pc |-> "login.user"]
            BY <2>2 DEF Login
        <2> QED
            BY <1>0, <1>1, <2>1, <2>3, <2>4, Moving
    <1>5. CASE LoginUser(s) \/ VerifyUser(s)
        <2>1. row' = row /\ now' = now
            BY <1>5 DEF LoginUser, VerifyUser, World, Rows
        <2>2. PICK c \in Calls : call' = [call EXCEPT ![s] = c] /\ c.pc \notin Refreshing
            BY <1>0, <1>2, <1>5, TokenSigned DEF LoginUser, VerifyUser, Done
        <2> QED
            BY <2>1, <2>2, Moving
    <1>6. CASE Opened(s) \/ Answered(s) \/ Abort(s)
        <2>1. row' = row /\ now' = now /\ call' = [call EXCEPT ![s] = Idle]
            BY <1>6 DEF Opened, Answered, Abort, World, Done
        <2> QED
            BY <1>0, <2>1, Moving
    <1>7. ASSUME NEW t \in Tenants, SwitchTenant(s, t) PROVE SessionInv' /\ row' = row
        <2>1. row' = row /\ now' = now
            BY <1>7 DEF SwitchTenant, Begin, World, Rows
        <2>2. PICK c \in Calls : call' = [call EXCEPT ![s] = c] /\ c.pc \notin Refreshing
            BY <1>2, <1>7, TokenSigned DEF SwitchTenant, Begin
        <2> QED
            BY <2>1, <2>2, Moving
    <1> QED
        BY <1>3, <1>4, <1>5, <1>6, <1>7

LEMMA Surroundings ==
    ASSUME SessionInv, Tick \/ Suspend \/ Restore \/ WindowEnds \/ RedisFails \/ RedisReturns
    PROVE  SessionInv' /\ row' = row
    <1>1. row' = row /\ call' = call
        BY DEF Tick, Suspend, Restore, WindowEnds, RedisFails, RedisReturns, Rows
    <1>2. now' \in 0..MaxTime
        BY BoundsAssumption
        DEF SessionInv, Tick, Suspend, Restore, WindowEnds, RedisFails, RedisReturns, World
    <1> QED
        BY <1>1, <1>2 DEF SessionInv, There

LEMMA RefreshReads ==
    ASSUME SessionInv, NEW s \in Slots,
           \/ \E i \in Ids : RefreshRead(s, i)
           \/ RefreshUser(s)
    PROVE  SessionInv' /\ row' = row
    <1>1. ASSUME NEW i \in Ids, RefreshRead(s, i) PROVE SessionInv' /\ row' = row
        <2> DEFINE c == [pc |-> "refresh.user", id |-> i, token |-> row[i].token]
        <2>1. There(i) /\ row[i].token \in Tokens
            BY <1>1, RowShape DEF RefreshRead
        <2>2. c \in Calls /\ There(c.id)
            BY <2>1 DEF Calls, Refresh
        <2>3. row' = row /\ now' = now /\ call' = [call EXCEPT ![s] = c]
            BY <1>1 DEF RefreshRead, Begin, World
        <2> HIDE DEF c
        <2> QED
            BY <2>2, <2>3, Moving
    <1>2. CASE RefreshUser(s)
        <2>1. row' = row /\ now' = now
            BY <1>2 DEF RefreshUser, World, Rows
        <2>2. /\ call[s] \in Refresh /\ call[s].id \in Ids /\ call[s].token \in Tokens
              /\ There(call[s].id)
            BY <1>2, RefreshShape DEF RefreshUser, At, Refreshing, SessionInv
        <2>3. CASE call' = [call EXCEPT ![s] = Idle]
            BY <2>1, <2>3, Moving DEF Idle, Calls, Refreshing
        <2>4. CASE call' = [call EXCEPT ![s].pc = "refresh.write",
                                ![s].token = [@ EXCEPT !.at = now, !.onboarding = TRUE]]
            <3> DEFINE tk == [call[s].token EXCEPT !.at = now, !.onboarding = TRUE]
            <3> DEFINE c == [call[s] EXCEPT !.pc = "refresh.write", !.token = tk]
            <3>1. tk \in Tokens
                BY <2>2 DEF Tokens, SessionInv
            <3>2. c \in Calls /\ There(c.id)
                BY <2>2, <3>1 DEF Calls, Refresh
            <3>3. call' = [call EXCEPT ![s] = c]
                BY <2>2, <2>4 DEF SessionInv
            <3> HIDE DEF c
            <3> QED
                BY <2>1, <3>2, <3>3, Moving
        <2> QED
            BY <1>2, <2>3, <2>4 DEF RefreshUser, Done
    <1> QED
        BY <1>1, <1>2

-----------------------------------------------------------------------------
\* The rows seen as the store of sessions.
LEMMA SameStore ==
    ASSUME \A i \in Ids : LiveToken(i)' = LiveToken(i) /\ (There(i)' <=> There(i))
    PROVE  UNCHANGED Store!storeVars
    BY DEF Store!storeVars

LEMMA SameRows ==
    ASSUME row' = row
    PROVE  UNCHANGED Store!storeVars
    <1>1. \A i \in Ids : LiveToken(i)' = LiveToken(i) /\ (There(i)' <=> There(i))
        BY DEF LiveToken, There
    <1> QED
        BY <1>1, SameStore

\* A statement on the rows takes none of them away, and no call starts to refresh.
LEMMA RowsKept ==
    ASSUME SessionInv, now' = now, row' \in [Ids -> Row \cup {NoRow}],
           \A i \in Ids : There(i) => There(i)', call' \in [Slots -> Calls],
           \A r \in Slots : call'[r].pc \in Refreshing => call'[r] = call[r]
    PROVE  SessionInv'
    <1>1. ASSUME NEW r \in Slots, call'[r].pc \in Refreshing PROVE There(call[r].id)'
        <2>1. call[r].pc \in Refreshing /\ call'[r] = call[r]
            BY <1>1
        <2>2. call[r].id \in Ids /\ There(call[r].id)
            BY <2>1, RefreshShape DEF SessionInv
        <2>3. PICK i \in Ids : i = call[r].id
            BY <2>2
        <2>4. There(i)'
            BY <2>2, <2>3
        <2> QED
            BY <2>1, <2>3, <2>4 DEF There
    <1> QED
        BY <1>1 DEF SessionInv

LEMMA Creating ==
    ASSUME SessionInv, NEW s \in Slots, CreateSession(s)
    PROVE  SessionInv' /\ (Store!StoreNext \/ UNCHANGED Store!storeVars)
    <1> DEFINE tk == call[s].token
    <1>1. tk \in Tokens /\ now' = now
        BY InsertShape DEF CreateSession, At, World
    <1>2. CASE Done(s) /\ row' = row
        <2>1. SessionInv'
            BY <1>1, <1>2, Moving DEF Done, Idle, Calls, Refreshing
        <2> QED
            BY <1>2, <2>1, SameRows
    <1>3. ASSUME NEW i \in Ids, NewId(i), Unique(i, tk),
                 row' = [row EXCEPT ![i] = [token |-> tk, active |-> TRUE, ended |-> FALSE]],
                 call' = [call EXCEPT ![s] = [pc |-> "opened", id |-> i, token |-> tk]]
          PROVE  SessionInv' /\ Store!StoreNext
        <2>1. [token |-> tk, active |-> TRUE, ended |-> FALSE] \in Row
            BY <1>1 DEF Row
        <2>2. row' \in [Ids -> Row \cup {NoRow}]
            BY <1>3, <2>1 DEF SessionInv
        <2>3. row'[i] # NoRow /\ row'[i].token = tk /\ row'[i].active
              /\ \A j \in Ids \ {i} : row'[j] = row[j]
            BY <1>3, <2>1, NoRowIsNone DEF SessionInv
        <2>4. [pc |-> "opened", id |-> i, token |-> tk] \in Calls
            BY <1>1 DEF Calls, Answer
        <2>5. SessionInv'
            <3>1. call' \in [Slots -> Calls]
                BY <1>3, <2>4 DEF SessionInv
            <3>2. \A j \in Ids : There(j) => There(j)'
                BY <2>3 DEF There
            <3>3. \A r \in Slots : call'[r].pc \in Refreshing => r # s /\ call'[r] = call[r]
                BY <1>3 DEF SessionInv, Refreshing
            <3> QED
                BY <1>1, <2>2, <3>1, <3>2, <3>3, RowsKept
        <2>6. Store!Open(i, tk)
            <3>1. ~There(i) /\ There(i)'
                BY <1>3, <2>3 DEF NewId, There
            <3>2. {j \in Ids : There(j)}' = {j \in Ids : There(j)} \cup {i}
                BY <2>3, <3>1 DEF There
            <3>3. \A j \in Ids \ {i} : LiveToken(j) # tk
                BY <1>1, <1>3, NoneAssumption DEF LiveToken, Unique
            <3>4. LiveToken(i)' = tk /\ \A j \in Ids \ {i} : LiveToken(j)' = LiveToken(j)
                BY <2>3, <3>1 DEF LiveToken, There
            <3>5. [j \in Ids |-> LiveToken(j)]' = [[j \in Ids |-> LiveToken(j)] EXCEPT ![i] = tk]
                BY <3>4
            <3> QED
                BY <3>1, <3>2, <3>3, <3>5 DEF Store!Open, Store!Unknown
        <2> QED
            BY <1>1, <2>5, <2>6 DEF Store!StoreNext
    <1> QED
        BY <1>2, <1>3 DEF CreateSession

LEMMA Writing ==
    ASSUME SessionInv, NEW s \in Slots, RefreshWrite(s)
    PROVE  SessionInv' /\ (Store!StoreNext \/ UNCHANGED Store!storeVars)
    <1>0. /\ call[s] \in Refresh /\ call[s].id \in Ids /\ call[s].token \in Tokens
          /\ There(call[s].id) /\ now' = now
        BY RefreshShape DEF RefreshWrite, At, Refreshing, SessionInv, World
    <1> SUFFICES ASSUME NEW i \in Ids, NEW tk \in Tokens, i = call[s].id, tk = call[s].token
                 PROVE  SessionInv' /\ (Store!StoreNext \/ UNCHANGED Store!storeVars)
        BY <1>0
    <1>1. call[s] \in Refresh /\ i \in Ids /\ tk \in Tokens /\ There(i) /\ now' = now
        BY <1>0
    <1>2. row[i] \in Row /\ row[i].token # None /\ tk # None
        BY <1>1, RowShape, NoneAssumption
    <1>3. CASE Done(s) /\ row' = row
        <2>1. SessionInv'
            BY <1>1, <1>3, Moving DEF Done, Idle, Calls, Refreshing
        <2> QED
            BY <1>3, <2>1, SameRows
    <1>4. CASE /\ Unique(i, tk)
               /\ row' = [row EXCEPT ![i].token = tk, ![i].ended = FALSE]
               /\ Goto(s, "answer")
        <2>1. /\ row'[i] = [row[i] EXCEPT !.token = tk, !.ended = FALSE]
              /\ \A j \in Ids \ {i} : row'[j] = row[j]
            BY <1>1, <1>4 DEF SessionInv
        <2>2. row'[i] \in Row /\ row'[i].token = tk /\ row'[i].active = row[i].active
            BY <1>1, <1>2, <2>1 DEF Row
        <2>3. row' \in [Ids -> Row \cup {NoRow}]
            BY <1>1, <1>4, <2>1, <2>2 DEF SessionInv
        <2>4. \A j \in Ids : There(j)' <=> There(j)
            BY <1>1, <2>1, <2>2, NoRowIsNone DEF There
        <2>5. SessionInv'
            <3>1. [call[s] EXCEPT !.pc = "answer"] \in Answer
                BY <1>1 DEF Refresh, Answer
            <3>2. call' = [call EXCEPT ![s] = [call[s] EXCEPT !.pc = "answer"]]
                BY <1>4 DEF Goto, SessionInv
            <3>3. call' \in [Slots -> Calls]
                BY <3>1, <3>2 DEF SessionInv, Calls
            <3>4. \A r \in Slots : call'[r].pc \in Refreshing => call'[r] = call[r]
                BY <1>1, <3>2 DEF SessionInv, Refreshing, Refresh
            <3> QED
                BY <1>1, <2>3, <2>4, <3>3, <3>4, RowsKept
        <2>6. \A j \in Ids \ {i} : LiveToken(j)' = LiveToken(j)
            BY <2>1 DEF LiveToken, There
        <2>7. CASE ~row[i].active
            <3>1. LiveToken(i)' = LiveToken(i)
                BY <2>2, <2>7 DEF LiveToken
            <3> QED
                BY <2>4, <2>5, <2>6, <3>1, SameStore
        <2>8. CASE row[i].active
            <3>1. LiveToken(i) # None /\ LiveToken(i)' = tk
                BY <1>1, <1>2, <2>2, <2>4, <2>8 DEF LiveToken
            <3>2. \A j \in Ids \ {i} : LiveToken(j) # tk
                BY <1>2, <1>4 DEF LiveToken, Unique
            <3>3. [j \in Ids |-> LiveToken(j)]' = [[j \in Ids |-> LiveToken(j)] EXCEPT ![i] = tk]
                BY <1>1, <2>6, <3>1
            <3>4. {j \in Ids : There(j)}' = {j \in Ids : There(j)}
                BY <2>4
            <3>5. Store!Exchange(i, tk)
                BY <1>1, <3>1, <3>2, <3>3, <3>4 DEF Store!Exchange, Store!Unknown
            <3> QED
                BY <1>1, <2>5, <3>5 DEF Store!StoreNext
        <2> QED
            BY <2>7, <2>8
    <1> QED
        BY <1>3, <1>4 DEF RefreshWrite

LEMMA LoggingOut ==
    ASSUME SessionInv, NEW s \in Slots, Logout(s)
    PROVE  SessionInv' /\ Store!StoreNext
    <1>1. \A i \in Ids : There(i) => row'[i] = [row[i] EXCEPT !.active = FALSE]
        BY DEF Logout
    <1>2. \A i \in Ids : ~There(i) => row'[i] = NoRow
        BY DEF Logout
    <1>3. \A i \in Ids : There(i) => row'[i] \in Row /\ ~row'[i].active
        BY <1>1, RowShape DEF Row
    <1>4. row' \in [Ids -> Row \cup {NoRow}]
        BY <1>2, <1>3 DEF Logout
    <1>5. \A i \in Ids : There(i)' <=> There(i)
        BY <1>2, <1>3, NoRowIsNone DEF There
    <1>6. SessionInv'
        <2>1. call' = [call EXCEPT ![s] = Idle] /\ now' = now
            BY DEF Logout, Begin, World
        <2>2. call' \in [Slots -> Calls]
            BY <2>1 DEF SessionInv, Calls
        <2>3. \A r \in Slots : call'[r].pc \in Refreshing => call'[r] = call[r]
            BY <2>1 DEF SessionInv, Idle, Refreshing
        <2> QED
            BY <1>4, <1>5, <2>1, <2>2, <2>3, RowsKept
    <1>7. \A i \in Ids : LiveToken(i)' = None
        BY <1>3, <1>5 DEF LiveToken
    <1>8. [i \in Ids |-> LiveToken(i)]' = [i \in Ids |-> IF i \in Ids THEN None
                                           ELSE [j \in Ids |-> LiveToken(j)][i]]
        BY <1>7
    <1>9. {i \in Ids : There(i)}' = {i \in Ids : There(i)}
        BY <1>5
    <1>10. Store!Close(Ids)
        BY <1>8, <1>9 DEF Store!Close
    <1> QED
        BY <1>6, <1>10 DEF Store!StoreNext

LEMMA SessionEnding ==
    ASSUME SessionInv, NEW i \in Ids, SessionEnds(i)
    PROVE  SessionInv' /\ (Store!StoreNext \/ UNCHANGED Store!storeVars)
    <1>1. row[i] \in Row /\ There(i)
        BY RowShape DEF SessionEnds
    <1> DEFINE r == [row[i] EXCEPT !.ended = TRUE, !.active = @ /\ ~row[i].ended]
    <1>0. row' = [row EXCEPT ![i] = r]
        BY DEF SessionEnds
    <1> HIDE DEF r
    <1>2. row'[i] = r /\ \A j \in Ids \ {i} : row'[j] = row[j]
        BY <1>0 DEF SessionInv
    <1>3. /\ row'[i] \in Row /\ row'[i].token = row[i].token
          /\ row'[i].active <=> row[i].active /\ ~row[i].ended
        BY <1>1, <1>2 DEF Row, r
    <1>4. row' \in [Ids -> Row \cup {NoRow}]
        BY <1>0, <1>2, <1>3 DEF SessionInv
    <1>5. \A j \in Ids : There(j)' <=> There(j)
        BY <1>1, <1>2, <1>3, NoRowIsNone DEF There
    <1>6. SessionInv'
        BY <1>4, <1>5, RowsKept DEF SessionEnds, World, SessionInv
    <1>7. \A j \in Ids \ {i} : LiveToken(j)' = LiveToken(j)
        BY <1>2 DEF LiveToken, There
    <1>8. CASE row'[i].active <=> row[i].active
        <2>1. LiveToken(i)' = LiveToken(i)
            BY <1>1, <1>3, <1>5, <1>8 DEF LiveToken
        <2> QED
            BY <1>5, <1>6, <1>7, <2>1, SameStore
    <1>9. CASE ~row'[i].active
        <2>1. LiveToken(i)' = None
            BY <1>9 DEF LiveToken
        <2>2. [j \in Ids |-> LiveToken(j)]' =
                  [j \in Ids |-> IF j \in {i} THEN None ELSE [k \in Ids |-> LiveToken(k)][j]]
            BY <1>7, <2>1
        <2>3. {j \in Ids : There(j)}' = {j \in Ids : There(j)}
            BY <1>5
        <2>4. Store!Close({i})
            BY <2>2, <2>3 DEF Store!Close
        <2> QED
            BY <1>6, <2>4 DEF Store!StoreNext
    <1> QED
        BY <1>3, <1>8, <1>9

-----------------------------------------------------------------------------
LEMMA StoreStarts == Init => SessionInv /\ Store!StoreInit
    <1> SUFFICES ASSUME Init PROVE SessionInv /\ Store!StoreInit
        OBVIOUS
    <1>1. SessionInv
        BY BoundsAssumption DEF Init, SessionInv, Calls, Idle, Refreshing
    <1>2. \A i \in Ids : ~There(i) /\ LiveToken(i) = None
        BY DEF Init, There, LiveToken
    <1>3. [i \in Ids |-> LiveToken(i)] = [i \in Ids |-> None] /\ {i \in Ids : There(i)} = {}
        BY <1>2
    <1> QED
        BY <1>1, <1>3 DEF Store!StoreInit

LEMMA StoreSteps ==
    SessionInv /\ [Next]_vars => SessionInv' /\ [Store!StoreNext]_(Store!storeVars)
    <1> SUFFICES ASSUME SessionInv, [Next]_vars
                 PROVE  SessionInv' /\ (Store!StoreNext \/ UNCHANGED Store!storeVars)
        OBVIOUS
    <1>1. CASE UNCHANGED vars
        <2>1. row' = row /\ call' = call /\ now' = now
            BY <1>1 DEF vars
        <2>2. SessionInv'
            BY <2>1 DEF SessionInv, There
        <2> QED
            BY <2>1, <2>2, SameRows
    <1>2. ASSUME SessionInv' /\ row' = row
          PROVE  SessionInv' /\ (Store!StoreNext \/ UNCHANGED Store!storeVars)
        BY <1>2, SameRows
    <1>3. ASSUME NEW s \in Slots, Step(s)
          PROVE  SessionInv' /\ (Store!StoreNext \/ UNCHANGED Store!storeVars)
        BY <1>2, <1>3, Elsewhere, RefreshReads, Creating, Writing DEF Step
    <1>4. ASSUME NEW s \in Slots,
                 \/ LoginStart(s) \/ LoginLost(s) \/ LoginUnlimited(s)
                 \/ VerifyRegistration(s) \/ Logout(s)
                 \/ \E t \in Tenants : SwitchTenant(s, t)
                 \/ \E i \in Ids : RefreshRead(s, i)
                 \/ Abort(s)
          PROVE  SessionInv' /\ (Store!StoreNext \/ UNCHANGED Store!storeVars)
        BY <1>2, <1>4, Elsewhere, RefreshReads, LoggingOut
    <1>5. ASSUME NEW i \in Ids, SessionEnds(i)
          PROVE  SessionInv' /\ (Store!StoreNext \/ UNCHANGED Store!storeVars)
        BY <1>5, SessionEnding
    <1>6. CASE Tick \/ Suspend \/ Restore \/ WindowEnds \/ RedisFails \/ RedisReturns
        BY <1>2, <1>6, Surroundings
    <1> QED
        BY <1>1, <1>3, <1>4, <1>5, <1>6 DEF Next

\* StoreImplemented: each step of the handlers is one of the store of sessions,
\* or none to it.
THEOREM SessionsImplementStore == Spec => StoreImplemented
    <1> QED
        BY StoreStarts, StoreSteps, PTL DEF Spec, StoreImplemented, Store!StoreSpec

-----------------------------------------------------------------------------
\* The requests to log in that may still compare a password.
LoginSteps == {"login.expire", "login.user"}
Logging == {s \in Slots : call[s].pc \in LoginSteps}

\* What the limit allows of the attempts the key has counted.
Allowed == IF count < Limit THEN count ELSE Limit

\* Who was let through has been counted, or allowed without the key; and only
\* the first of a window starts its clock.
Counted ==
    /\ IsFiniteSet(Logging)
    /\ tries + Cardinality(Logging) <= Allowed + unlimited
    /\ \A s \in Slots : At(s, "login.expire") => count > 0 /\ ~timed
    /\ \A r, s \in Slots : At(r, "login.expire") /\ At(s, "login.expire") => r = s

\* A session nothing disturbed has one refresh at a time, which brings its
\* client the token of the row.
Kept ==
    /\ \A s \in Slots, i \in Ids : Refreshes(s, i) => There(i)
    /\ \A i \in Ids \ disturbed, r, s \in Slots : Refreshes(r, i) /\ Refreshes(s, i) => r = s
    /\ \A s \in Slots, i \in Ids \ disturbed :
           Refreshes(s, i) /\ call[s].pc \in {"opened", "answer"} => call[s].token = row[i].token

LoginInv == TypeOK /\ SessionInv /\ Counted /\ Kept /\ HolderCanRefresh

LEMMA LoggingMoves ==
    ASSUME NEW s \in Slots, \A r \in Slots \ {s} : call'[r] = call[r], IsFiniteSet(Logging)
    PROVE  /\ IsFiniteSet(Logging') /\ Cardinality(Logging) \in Nat /\ Cardinality(Logging') \in Nat
           /\ call'[s].pc \in LoginSteps => Cardinality(Logging') =
                  Cardinality(Logging) + (IF call[s].pc \in LoginSteps THEN 0 ELSE 1)
           /\ call'[s].pc \notin LoginSteps => Cardinality(Logging') =
                  Cardinality(Logging) - (IF call[s].pc \in LoginSteps THEN 1 ELSE 0)
    <1>1. Logging' = IF call'[s].pc \in LoginSteps THEN Logging \cup {s} ELSE Logging \ {s}
        BY DEF Logging
    <1>2. s \in Logging <=> call[s].pc \in LoginSteps
        BY DEF Logging
    <1>3. /\ IsFiniteSet(Logging \cup {s}) /\ Cardinality(Logging) \in Nat
          /\ Cardinality(Logging \cup {s}) = Cardinality(Logging) + (IF s \in Logging THEN 0 ELSE 1)
        BY FS_AddElement, FS_CardinalityType
    <1>4. /\ IsFiniteSet(Logging \ {s})
          /\ Cardinality(Logging \ {s}) = Cardinality(Logging) - (IF s \in Logging THEN 1 ELSE 0)
        BY <1>3, FS_RemoveElement
    <1>5. Cardinality(Logging \cup {s}) \in Nat /\ Cardinality(Logging \ {s}) \in Nat
        BY <1>3, <1>4, FS_CardinalityType
    <1> QED
        BY <1>1, <1>2, <1>3, <1>4, <1>5

\* An action of a request moves that request alone.
LEMMA OneMoves ==
    ASSUME SessionInv, NEW s \in Slots,
           \/ LoginStart(s) \/ LoginLost(s) \/ LoginUnlimited(s)
                 \/ VerifyRegistration(s) \/ Logout(s)
           \/ \E t \in Tenants : SwitchTenant(s, t)
           \/ \E i \in Ids : RefreshRead(s, i)
           \/ Step(s) \/ Abort(s)
    PROVE  \A r \in Slots \ {s} : call'[r] = call[r]
    <1>1. call = [r \in Slots |-> call[r]]
        BY DEF SessionInv
    <1> QED
        BY <1>1 DEF LoginStart, LoginLost, LoginUnlimited, VerifyRegistration, Logout, SwitchTenant, RefreshRead,
            Step, Abort, LoginExpire, LoginTtl, LoginUser, VerifyUser, CreateSession, Opened, RefreshUser, RefreshWrite,
            Answered, Begin, Goto, Done

LEMMA LogsIn ==
    ASSUME SessionInv, Counted, TypeOK, NEW s \in Slots,
           \/ LoginStart(s) \/ LoginLost(s) \/ LoginUnlimited(s)
           \/ LoginExpire(s) \/ LoginTtl(s) \/ LoginUser(s)
    PROVE  Counted'
    <1>0. /\ \A r \in Slots \ {s} : call'[r] = call[r]
          /\ Limit \in Nat /\ Limit > 0 /\ count \in Nat /\ tries \in Nat /\ unlimited \in Nat
          /\ count = 0 => ~timed
        BY OneMoves, LimitAssumption DEF Step, TypeOK
    <1>1. /\ IsFiniteSet(Logging') /\ Cardinality(Logging) \in Nat /\ Cardinality(Logging') \in Nat
          /\ call'[s].pc \in LoginSteps => Cardinality(Logging') =
                  Cardinality(Logging) + (IF call[s].pc \in LoginSteps THEN 0 ELSE 1)
          /\ call'[s].pc \notin LoginSteps => Cardinality(Logging') =
                  Cardinality(Logging) - (IF call[s].pc \in LoginSteps THEN 1 ELSE 0)
        BY <1>0, LoggingMoves DEF Counted
    <1>2. CASE LoginStart(s)
        <2>1. /\ call[s].pc = "idle"
              /\ call'[s].pc = IF count = 0 THEN "login.expire"
                               ELSE IF count < Limit THEN "login.user" ELSE "login.ttl"
              /\ count' = count + 1 /\ timed' = timed /\ tries' = tries /\ unlimited' = unlimited
            BY <1>2 DEF LoginStart, Begin, Idle, SessionInv
        <2>2. tries' + Cardinality(Logging') <= Allowed' + unlimited'
            BY <1>0, <1>1, <2>1 DEF Counted, Allowed, LoginSteps, Idle
        <2>3. At(s, "login.expire")' => count = 0
            BY <2>1 DEF At, Idle
        <2> QED
            BY <1>0, <1>1, <2>1, <2>2, <2>3 DEF Counted, At
    <1>3. CASE LoginUnlimited(s)
        <2>1. /\ call[s].pc = "idle" /\ call'[s].pc = "login.user"
              /\ count' = count /\ timed' = timed /\ tries' = tries /\ unlimited' = unlimited + 1
            BY <1>3 DEF LoginUnlimited, Begin, Idle, SessionInv
        <2>2. tries' + Cardinality(Logging') <= Allowed' + unlimited'
            BY <1>0, <1>1, <2>1 DEF Counted, Allowed, LoginSteps
        <2> QED
            BY <1>0, <1>1, <2>1, <2>2 DEF Counted, At
    <1>4. CASE LoginExpire(s)
        <2>1. call[s] \in Login
            BY <1>4 DEF LoginExpire, At, SessionInv, Calls, Login, Insert, Refresh, Answer, Idle
        <2>2. /\ call[s].pc = "login.expire" /\ call'[s].pc = "login.user"
              /\ count' = count /\ tries' = tries /\ unlimited' = unlimited
            BY <1>4, <2>1 DEF LoginExpire, Goto, At, SessionInv, Login
        <2>3. tries' + Cardinality(Logging') <= Allowed' + unlimited'
            BY <1>0, <1>1, <2>2 DEF Counted, Allowed, LoginSteps
        <2>4. \A r \in Slots : ~At(r, "login.expire")'
            BY <1>0, <2>2 DEF Counted, At
        <2> QED
            BY <1>0, <1>1, <2>2, <2>3, <2>4 DEF Counted
    <1>5. CASE LoginUser(s)
        <2>1. /\ call[s].pc = "login.user" /\ call'[s].pc \in {"idle", "insert"}
              /\ count' = count /\ timed' = timed /\ tries' = tries + 1 /\ unlimited' = unlimited
            BY <1>5 DEF LoginUser, Done, At, Idle, SessionInv
        <2>2. tries' + Cardinality(Logging') <= Allowed' + unlimited'
            BY <1>0, <1>1, <2>1 DEF Counted, Allowed, LoginSteps
        <2> QED
            BY <1>0, <1>1, <2>1, <2>2 DEF Counted, At
    <1>6. CASE LoginLost(s)
        <2>1. /\ call[s].pc = "idle" /\ call'[s].pc = "login.user"
              /\ count' = count + 1 /\ timed' = timed /\ tries' = tries
              /\ unlimited' = IF count < Limit THEN unlimited ELSE unlimited + 1
            BY <1>6 DEF LoginLost, Idle, SessionInv
        <2>2. tries' + Cardinality(Logging') <= Allowed' + unlimited'
            BY <1>0, <1>1, <2>1 DEF Counted, Allowed, LoginSteps
        <2> QED
            BY <1>0, <1>1, <2>1, <2>2 DEF Counted, At
    <1>7. CASE LoginTtl(s)
        <2>1. call[s] \in Login
            BY <1>7 DEF LoginTtl, At, SessionInv, Calls, Login, Insert, Refresh, Answer, Idle
        <2>2. /\ call[s].pc = "login.ttl" /\ call'[s].pc \in {"idle", "login.user"}
              /\ count' = count /\ timed' = timed /\ tries' = tries
              /\ unlimited' = IF call'[s].pc = "idle" THEN unlimited ELSE unlimited + 1
            BY <1>7, <2>1 DEF LoginTtl, Goto, Done, Idle, At, SessionInv, Login
        <2>3. tries' + Cardinality(Logging') <= Allowed' + unlimited'
            BY <1>0, <1>1, <2>2 DEF Counted, Allowed, LoginSteps
        <2> QED
            BY <1>0, <1>1, <2>2, <2>3 DEF Counted, At
    <1> QED
        BY <1>2, <1>3, <1>4, <1>5, <1>6, <1>7

\* All others let nobody in.
LEMMA LogsNobodyIn ==
    ASSUME SessionInv, Counted, TypeOK, NEW s \in Slots,
           \/ VerifyRegistration(s) \/ Logout(s)
           \/ \E t \in Tenants : SwitchTenant(s, t)
           \/ \E i \in Ids : RefreshRead(s, i)
           \/ VerifyUser(s) \/ CreateSession(s) \/ Opened(s)
           \/ RefreshUser(s) \/ RefreshWrite(s) \/ Answered(s) \/ Abort(s)
    PROVE  Counted'
    <1>0. /\ \A r \in Slots \ {s} : call'[r] = call[r]
          /\ Limit \in Nat /\ count \in Nat /\ tries \in Nat /\ unlimited \in Nat
        BY OneMoves, LimitAssumption DEF Step, TypeOK
    <1>1. /\ IsFiniteSet(Logging') /\ Cardinality(Logging) \in Nat /\ Cardinality(Logging') \in Nat
          /\ call'[s].pc \notin LoginSteps => Cardinality(Logging') <= Cardinality(Logging)
        BY <1>0, LoggingMoves DEF Counted
    <1>2. count' = count /\ timed' = timed /\ tries' = tries /\ unlimited' = unlimited
        BY DEF VerifyRegistration, Logout, SwitchTenant, RefreshRead, VerifyUser, CreateSession, Opened,
            RefreshUser, RefreshWrite, Answered, Abort, Window
    <1>3. call'[s].pc \notin LoginSteps
        <2>1. CASE RefreshUser(s) \/ RefreshWrite(s)
            <3>1. call[s] \in Refresh
                BY <2>1, RefreshShape DEF RefreshUser, RefreshWrite, At, Refreshing
            <3> QED
                BY <2>1, <3>1 DEF RefreshUser, RefreshWrite, Goto, Done, Idle, LoginSteps, SessionInv, Refresh
        <2>2. CASE \/ VerifyRegistration(s) \/ Logout(s) \/ VerifyUser(s) \/ CreateSession(s)
                   \/ Opened(s) \/ Answered(s) \/ Abort(s)
            BY <2>2 DEF VerifyRegistration, Logout, VerifyUser, CreateSession, Opened, Answered, Abort,
                Begin, Done, Idle, LoginSteps, SessionInv
        <2>3. ASSUME NEW t \in Tenants, SwitchTenant(s, t) PROVE call'[s].pc \notin LoginSteps
            BY <2>3 DEF SwitchTenant, Begin, LoginSteps, SessionInv
        <2>4. ASSUME NEW i \in Ids, RefreshRead(s, i) PROVE call'[s].pc \notin LoginSteps
            BY <2>4 DEF RefreshRead, Begin, LoginSteps, SessionInv
        <2> QED
            BY <2>1, <2>2, <2>3, <2>4
    <1>4. tries' + Cardinality(Logging') <= Allowed' + unlimited'
        BY <1>0, <1>1, <1>2, <1>3 DEF Counted, Allowed
    <1>5. ~At(s, "login.expire")'
        BY <1>3 DEF At, LoginSteps
    <1> QED
        BY <1>0, <1>1, <1>2, <1>4, <1>5 DEF Counted, At

\* When the key expires nobody has still to start its clock.
LEMMA WindowsEnd ==
    ASSUME SessionInv, Counted, TypeOK, WindowEnds
    PROVE  Counted'
    <1>1. \A s \in Slots : ~At(s, "login.expire")
        BY DEF WindowEnds, Counted
    <1>2. Logging = {s \in Slots : At(s, "login.user")}
        BY <1>1 DEF Logging, At, LoginSteps
    <1>3. Logging' = Logging /\ call' = call
        BY DEF WindowEnds, Logging
    <1>4. tries' = 0 /\ count' = 0 /\ unlimited' = Cardinality(Logging)
        BY <1>2 DEF WindowEnds
    <1>5. Cardinality(Logging) \in Nat
        BY FS_CardinalityType DEF Counted
    <1>6. tries' + Cardinality(Logging') <= Allowed' + unlimited'
        BY <1>3, <1>4, <1>5, LimitAssumption DEF Allowed
    <1> QED
        BY <1>1, <1>3, <1>6 DEF Counted, At

LEMMA CountedKept == SessionInv /\ TypeOK /\ Counted /\ [Next]_vars => Counted'
    <1> SUFFICES ASSUME SessionInv, TypeOK, Counted, [Next]_vars PROVE Counted'
        OBVIOUS
    <1>1. ASSUME call' = call, count' = count, timed' = timed, tries' = tries, unlimited' = unlimited
          PROVE  Counted'
        BY <1>1 DEF Counted, Logging, Allowed, At
    <1>2. CASE UNCHANGED vars
        BY <1>1, <1>2 DEF vars
    <1>3. CASE Tick \/ Suspend \/ Restore \/ RedisFails \/ RedisReturns \/ \E i \in Ids : SessionEnds(i)
        BY <1>1, <1>3 DEF Tick, Suspend, Restore, RedisFails, RedisReturns, SessionEnds, Window
    <1> QED
        BY <1>2, <1>3, LogsIn, LogsNobodyIn, WindowsEnd DEF Next, Step

-----------------------------------------------------------------------------
\* A request that holds no session, before or after, and rows and clients that
\* are as they were, but for tokens nobody else has.
Refreshings == {"refresh.user", "refresh.write", "opened", "answer"}

LEMMA CallShape ==
    ASSUME SessionInv, NEW s \in Slots
    PROVE  /\ call[s].pc \in Refreshings => /\ call[s] \in Refresh \cup Answer
                                             /\ call[s].id \in Ids /\ call[s].token \in Tokens
           /\ call[s].pc \in {"opened", "answer"} => call[s] \in Answer
           /\ \A i \in Ids : Refreshes(s, i) <=> call[s].pc \in Refreshings /\ call[s].id = i
    BY DEF SessionInv, Calls, Login, Insert, Refresh, Answer, Idle, Refreshings, Refreshes

LEMMA IdleHolds ==
    ASSUME NEW s \in Slots, call[s].pc \notin Refreshings
    PROVE  \A i \in Ids : ~Refreshes(s, i)
    BY DEF Refreshes, Refreshings

\* The requests that stand by, and those that end without a word to the client.
LEMMA Standing ==
    ASSUME SessionInv, Kept, HolderCanRefresh, NEW s \in Slots,
           row' = row, mine' = mine, disturbed \subseteq disturbed',
           \A r \in Slots \ {s} : call'[r] = call[r],
           call'[s].pc \notin Refreshings,
           call[s].pc \in {"opened", "answer"} => call[s].id \in disturbed'
    PROVE  Kept' /\ HolderCanRefresh'
    <1>1. \A r \in Slots, i \in Ids : Refreshes(r, i)' => r # s /\ Refreshes(r, i) /\ call'[r] = call[r]
        BY DEF Refreshes, Refreshings
    <1>2. Kept'
        BY <1>1 DEF Kept, There
    <1>3. HolderCanRefresh'
        <2> SUFFICES ASSUME NEW i \in Ids, There(i), mine[i] # row[i].token, i \notin disturbed'
                     PROVE  \E r \in Slots : call'[r].pc \in {"opened", "answer"} /\ call'[r].id = i
            BY DEF HolderCanRefresh, There
        <2>1. PICK r \in Slots : call[r].pc \in {"opened", "answer"} /\ call[r].id = i
            BY DEF HolderCanRefresh
        <2>2. r # s
            BY <2>1
        <2> QED
            BY <2>1, <2>2
    <1> QED
        BY <1>2, <1>3

LEMMA StandsBy ==
    ASSUME SessionInv, Kept, HolderCanRefresh, NEW s \in Slots,
           \/ LoginStart(s) \/ LoginLost(s) \/ LoginUnlimited(s) \/ VerifyRegistration(s)
           \/ LoginExpire(s) \/ LoginTtl(s) \/ LoginUser(s) \/ VerifyUser(s) \/ Abort(s)
           \/ \E t \in Tenants : SwitchTenant(s, t)
    PROVE  Kept' /\ HolderCanRefresh'
    <1>1. row' = row /\ mine' = mine /\ disturbed \subseteq disturbed'
        BY DEF LoginStart, LoginLost, LoginUnlimited, VerifyRegistration, LoginExpire, LoginTtl, LoginUser,
            VerifyUser, Abort, SwitchTenant, Rows
    <1>2. \A r \in Slots \ {s} : call'[r] = call[r]
        BY OneMoves DEF Step
    <1>3. call'[s].pc \notin Refreshings /\ (call[s].pc \in {"opened", "answer"} => call[s].id \in disturbed')
        <2>1. CASE LoginStart(s) \/ LoginLost(s) \/ LoginUnlimited(s) \/ VerifyRegistration(s)
            BY <2>1 DEF LoginStart, LoginLost, LoginUnlimited, VerifyRegistration, Begin, Idle, Refreshings, SessionInv
        <2>2. CASE LoginUser(s) \/ VerifyUser(s)
            BY <2>2 DEF LoginUser, VerifyUser, At, Done, Idle, Refreshings, SessionInv
        <2>3. CASE LoginExpire(s) \/ LoginTtl(s)
            <3>1. call[s] \in Login
                BY <2>3 DEF LoginExpire, LoginTtl, At, SessionInv, Calls, Login, Insert, Refresh, Answer, Idle
            <3> QED
                BY <2>3, <3>1 DEF LoginExpire, LoginTtl, At, Goto, Done, Idle, Refreshings, SessionInv, Login
        <2>4. CASE Abort(s)
            <3>1. call'[s].pc \notin Refreshings
                BY <2>4 DEF Abort, Done, Idle, Refreshings, SessionInv
            <3>2. \A i \in Ids : Refreshes(s, i) => i \in disturbed'
                BY <2>4 DEF Abort
            <3> QED
                BY <3>1, <3>2, CallShape DEF Refreshings
        <2>5. ASSUME NEW t \in Tenants, SwitchTenant(s, t)
              PROVE  call'[s].pc \notin Refreshings /\ call[s].pc = "idle"
            BY <2>5 DEF SwitchTenant, Begin, Idle, Refreshings, SessionInv
        <2> QED
            BY <2>1, <2>2, <2>3, <2>4, <2>5
    <1> QED
        BY <1>1, <1>2, <1>3, Standing

\* What happens around the requests: tokens are not touched.
LEMMA TokensKept ==
    ASSUME SessionInv, Kept, HolderCanRefresh, call' = call, mine' = mine, disturbed' = disturbed,
           \A i \in Ids : (There(i)' <=> There(i)) /\ (There(i) => row'[i].token = row[i].token)
    PROVE  Kept' /\ HolderCanRefresh'
    <1>1. \A s \in Slots, i \in Ids : Refreshes(s, i)' <=> Refreshes(s, i)
        BY DEF Refreshes
    <1> QED
        BY <1>1 DEF Kept, HolderCanRefresh

LEMMA ReadHolds ==
    ASSUME SessionInv, Kept, HolderCanRefresh, NEW s \in Slots, NEW i \in Ids, RefreshRead(s, i)
    PROVE  Kept' /\ HolderCanRefresh'
    <1>1. /\ call[s].pc = "idle" /\ call'[s].pc = "refresh.user" /\ call'[s].id = i
          /\ \A r \in Slots \ {s} : call'[r] = call[r]
          /\ row' = row /\ mine' = mine /\ There(i)
          /\ disturbed' = disturbed \cup {j \in {i} : \E r \in Slots : Refreshes(r, j)}
        BY DEF RefreshRead, Begin, Idle, SessionInv
    <1>2. \A r \in Slots \ {s}, j \in Ids : Refreshes(r, j)' <=> Refreshes(r, j)
        BY <1>1 DEF Refreshes
    <1>3. \A j \in Ids : Refreshes(s, j)' <=> j = i
        BY <1>1 DEF Refreshes
    <1>4. \A j \in Ids : There(j)' <=> There(j)
        BY <1>1 DEF There
    <1>5. \A j \in Ids \ disturbed' : j \notin disturbed /\ (j = i => \A r \in Slots : ~Refreshes(r, j))
        BY <1>1
    <1>6. \A j \in Ids \ disturbed', r, q \in Slots : Refreshes(r, j)' /\ Refreshes(q, j)' => r = q
        BY <1>2, <1>3, <1>5 DEF Kept
    <1>7. \A r \in Slots, j \in Ids \ disturbed' :
              Refreshes(r, j)' /\ call'[r].pc \in {"opened", "answer"} => call'[r].token = row'[j].token
        BY <1>1, <1>2, <1>5 DEF Kept
    <1>8. HolderCanRefresh'
        <2> SUFFICES ASSUME NEW j \in Ids, There(j), mine[j] # row[j].token, j \notin disturbed'
                     PROVE  \E r \in Slots : call'[r].pc \in {"opened", "answer"} /\ call'[r].id = j
            BY <1>1, <1>4 DEF HolderCanRefresh
        <2>1. PICK r \in Slots : call[r].pc \in {"opened", "answer"} /\ call[r].id = j
            BY <1>5 DEF HolderCanRefresh
        <2> QED
            BY <1>1, <2>1
    <1> QED
        BY <1>1, <1>2, <1>3, <1>4, <1>6, <1>7, <1>8 DEF Kept

\* Signing a new token; nothing is written yet.
LEMMA SignHolds ==
    ASSUME SessionInv, Kept, HolderCanRefresh, NEW s \in Slots, RefreshUser(s)
    PROVE  Kept' /\ HolderCanRefresh'
    <1>0. call[s] \in Refresh /\ call[s].id \in Ids /\ call[s].pc = "refresh.user"
        BY RefreshShape DEF RefreshUser, At, Refreshing
    <1>1. row' = row /\ mine' = mine /\ disturbed' = disturbed
          /\ \A r \in Slots \ {s} : call'[r] = call[r]
        BY OneMoves DEF RefreshUser, Rows, Step
    <1>2. CASE ~enabled
        <2>1. call'[s].pc \notin Refreshings
            BY <1>2 DEF RefreshUser, Done, Idle, Refreshings, SessionInv
        <2> QED
            BY <1>0, <1>1, <2>1, Standing
    <1>3. CASE enabled
        <2>1. call'[s].pc = "refresh.write" /\ call'[s].id = call[s].id
            <3>1. call' = [call EXCEPT ![s] = [call[s] EXCEPT !.pc = "refresh.write",
                                              !.token = [@ EXCEPT !.at = now, !.onboarding = TRUE]]]
                BY <1>0, <1>3 DEF RefreshUser, SessionInv
            <3>2. call'[s] = [call[s] EXCEPT !.pc = "refresh.write",
                                              !.token = [@ EXCEPT !.at = now, !.onboarding = TRUE]]
                BY <3>1 DEF SessionInv
            <3> QED
                BY <1>0, <3>2 DEF Refresh
        <2>2. \A r \in Slots, j \in Ids : Refreshes(r, j)' <=> Refreshes(r, j)
            BY <1>0, <1>1, <2>1 DEF Refreshes
        <2>3. \A r \in Slots : call'[r].pc \in {"opened", "answer"} => call'[r] = call[r]
            BY <1>1, <2>1
        <2>4. Kept'
            BY <1>1, <2>2, <2>3 DEF Kept, There
        <2>5. HolderCanRefresh'
            <3> SUFFICES ASSUME NEW j \in Ids, There(j), mine[j] # row[j].token, j \notin disturbed
                         PROVE  \E r \in Slots : call'[r].pc \in {"opened", "answer"} /\ call'[r].id = j
                BY <1>1 DEF HolderCanRefresh, There
            <3>1. PICK r \in Slots : call[r].pc \in {"opened", "answer"} /\ call[r].id = j
                BY DEF HolderCanRefresh
            <3> QED
                BY <1>0, <1>1, <3>1
        <2> QED
            BY <2>4, <2>5
    <1> QED
        BY <1>2, <1>3

\* The row of session i has the token tk, which request s brings to the client.
LEMMA Brings ==
    ASSUME SessionInv, Kept, HolderCanRefresh, NEW s \in Slots, NEW i \in Ids, NEW tk,
           \A r \in Slots \ {s} : call'[r] = call[r], mine' = mine, disturbed' = disturbed,
           call'[s].pc \in {"opened", "answer"}, call'[s].id = i, call'[s].token = tk,
           call[s].pc \notin {"opened", "answer"},
           i \notin disturbed => \A r \in Slots \ {s} : ~Refreshes(r, i),
           row'[i].token = tk, There(i)', \A j \in Ids \ {i} : row'[j] = row[j]
    PROVE  Kept' /\ HolderCanRefresh'
    <1>1. \A r \in Slots \ {s}, j \in Ids : Refreshes(r, j)' <=> Refreshes(r, j)
        BY DEF Refreshes
    <1>2. \A j \in Ids : Refreshes(s, j)' <=> j = i
        BY DEF Refreshes
    <1>3. \A j \in Ids \ {i} : There(j)' <=> There(j)
        BY DEF There
    <1>4. \A j \in Ids \ disturbed', r, q \in Slots : Refreshes(r, j)' /\ Refreshes(q, j)' => r = q
        BY <1>1, <1>2 DEF Kept
    <1>5. \A r \in Slots, j \in Ids \ disturbed' :
              Refreshes(r, j)' /\ call'[r].pc \in {"opened", "answer"} => call'[r].token = row'[j].token
        BY <1>1, <1>2 DEF Kept
    <1>6. \A r \in Slots, j \in Ids : Refreshes(r, j)' => There(j)'
        BY <1>1, <1>2, <1>3 DEF Kept
    <1>7. HolderCanRefresh'
        <2> SUFFICES ASSUME NEW j \in Ids, There(j)', mine[j] # row'[j].token, j \notin disturbed
                     PROVE  \E r \in Slots : call'[r].pc \in {"opened", "answer"} /\ call'[r].id = j
            BY DEF HolderCanRefresh
        <2>1. CASE j = i
            BY <2>1
        <2>2. CASE j # i
            <3>1. PICK r \in Slots : call[r].pc \in {"opened", "answer"} /\ call[r].id = j
                BY <1>3, <2>2 DEF HolderCanRefresh
            <3> QED
                BY <3>1
        <2> QED
            BY <2>1, <2>2
    <1> QED
        BY <1>4, <1>5, <1>6, <1>7 DEF Kept

LEMMA CreateHolds ==
    ASSUME SessionInv, Kept, HolderCanRefresh, NEW s \in Slots, CreateSession(s)
    PROVE  Kept' /\ HolderCanRefresh'
    <1> DEFINE tk == call[s].token
    <1>1. /\ mine' = mine /\ disturbed' = disturbed /\ call[s].pc = "insert" /\ tk \in Tokens
          /\ \A r \in Slots \ {s} : call'[r] = call[r]
        BY InsertShape, OneMoves DEF CreateSession, At, Step
    <1>2. CASE Done(s) /\ row' = row
        <2>1. call'[s].pc \notin Refreshings
            BY <1>2 DEF Done, Idle, Refreshings, SessionInv
        <2> QED
            BY <1>1, <1>2, <2>1, Standing
    <1>3. ASSUME NEW i \in Ids, NewId(i),
                 row' = [row EXCEPT ![i] = [token |-> tk, active |-> TRUE, ended |-> FALSE]],
                 call' = [call EXCEPT ![s] = [pc |-> "opened", id |-> i, token |-> tk]]
          PROVE  Kept' /\ HolderCanRefresh'
        <2>1. call'[s].pc = "opened" /\ call'[s].id = i /\ call'[s].token = tk
            BY <1>3 DEF SessionInv
        <2>2. row'[i].token = tk /\ \A j \in Ids \ {i} : row'[j] = row[j]
            BY <1>3 DEF SessionInv
        <2>3. There(i)'
            BY <1>1, <2>2, NoneAssumption DEF There, NoRow
        <2>4. \A r \in Slots : ~Refreshes(r, i)
            BY <1>3 DEF NewId, Kept
        <2> QED
            BY <1>1, <2>1, <2>2, <2>3, <2>4, Brings
    <1> QED
        BY <1>2, <1>3 DEF CreateSession

LEMMA WriteHolds ==
    ASSUME SessionInv, Kept, HolderCanRefresh, NEW s \in Slots, RefreshWrite(s)
    PROVE  Kept' /\ HolderCanRefresh'
    <1>0. /\ call[s] \in Refresh /\ call[s].id \in Ids /\ call[s].token \in Tokens
          /\ call[s].pc = "refresh.write" /\ There(call[s].id)
        BY RefreshShape DEF RefreshWrite, At, Refreshing, SessionInv
    <1>1. PICK i \in Ids, tk \in Tokens : i = call[s].id /\ tk = call[s].token
        BY <1>0
    <1>2. /\ mine' = mine /\ disturbed' = disturbed
          /\ \A r \in Slots \ {s} : call'[r] = call[r]
        BY OneMoves DEF RefreshWrite, Step
    <1>3. CASE Done(s) /\ row' = row
        <2>1. call'[s].pc \notin Refreshings
            BY <1>3 DEF Done, Idle, Refreshings, SessionInv
        <2> QED
            BY <1>0, <1>2, <1>3, <2>1, Standing
    <1>4. CASE row' = [row EXCEPT ![i].token = tk, ![i].ended = FALSE] /\ Goto(s, "answer")
        <2>1. row[i] \in Row
            BY <1>0, <1>1, RowShape
        <2>2. row'[i].token = tk /\ \A j \in Ids \ {i} : row'[j] = row[j]
            <3>1. row'[i] = [row[i] EXCEPT !.token = tk, !.ended = FALSE]
                BY <1>4 DEF SessionInv
            <3> QED
                BY <1>4, <2>1, <3>1 DEF SessionInv, Row
        <2>3. There(i)'
            BY <2>2, NoneAssumption DEF There, NoRow
        <2>4. call'[s].pc = "answer" /\ call'[s].id = i /\ call'[s].token = tk
            <3>1. call'[s] = [call[s] EXCEPT !.pc = "answer"]
                BY <1>4 DEF Goto, SessionInv
            <3> QED
                BY <1>0, <1>1, <3>1 DEF Refresh
        <2>5. i \notin disturbed => \A r \in Slots \ {s} : ~Refreshes(r, i)
            <3>1. Refreshes(s, i)
                BY <1>0, <1>1 DEF Refreshes
            <3> QED
                BY <3>1 DEF Kept
        <2> QED
            BY <1>0, <1>2, <2>2, <2>3, <2>4, <2>5, Brings
    <1> QED
        BY <1>1, <1>3, <1>4 DEF RefreshWrite

\* The client has the token that its session knows, when nothing came between.
LEMMA AnswerHolds ==
    ASSUME SessionInv, TypeOK, Kept, HolderCanRefresh, NEW s \in Slots, Opened(s) \/ Answered(s)
    PROVE  Kept' /\ HolderCanRefresh'
    <1>0. call[s].pc \in {"opened", "answer"} /\ call[s].id \in Ids
        BY CallShape DEF Opened, Answered, At, Refreshings
    <1>1. PICK i \in Ids : i = call[s].id
        BY <1>0
    <1>2. /\ row' = row /\ disturbed' = disturbed /\ mine' = [mine EXCEPT ![i] = call[s].token]
          /\ \A r \in Slots \ {s} : call'[r] = call[r]
          /\ call'[s].pc = "idle"
        BY <1>1, OneMoves DEF Opened, Answered, Step, Done, Idle, SessionInv
    <1>3. mine'[i] = call[s].token /\ \A j \in Ids \ {i} : mine'[j] = mine[j]
        BY <1>2 DEF TypeOK
    <1>4. \A r \in Slots, j \in Ids : Refreshes(r, j)' => r # s /\ Refreshes(r, j) /\ call'[r] = call[r]
        BY <1>2 DEF Refreshes
    <1>5. Kept'
        BY <1>2, <1>4 DEF Kept, There
    <1>6. i \notin disturbed => mine'[i] = row[i].token
        BY <1>0, <1>1, <1>3 DEF Kept, Refreshes
    <1>7. HolderCanRefresh'
        <2> SUFFICES ASSUME NEW j \in Ids, There(j), mine'[j] # row[j].token, j \notin disturbed
                     PROVE  \E r \in Slots : call'[r].pc \in {"opened", "answer"} /\ call'[r].id = j
            BY <1>2 DEF HolderCanRefresh, There
        <2>1. j # i /\ mine[j] # row[j].token
            BY <1>3, <1>6
        <2>2. PICK r \in Slots : call[r].pc \in {"opened", "answer"} /\ call[r].id = j
            BY <2>1 DEF HolderCanRefresh
        <2> QED
            BY <1>1, <1>2, <2>1, <2>2
    <1> QED
        BY <1>5, <1>7

LEMMA KeptKept == SessionInv /\ TypeOK /\ Kept /\ HolderCanRefresh /\ [Next]_vars => Kept' /\ HolderCanRefresh'
    <1> SUFFICES ASSUME SessionInv, TypeOK, Kept, HolderCanRefresh, [Next]_vars
                 PROVE  Kept' /\ HolderCanRefresh'
        OBVIOUS
    <1>1. CASE UNCHANGED vars \/ Tick \/ Suspend \/ Restore \/ WindowEnds \/ RedisFails \/ RedisReturns
        <2>1. call' = call /\ mine' = mine /\ disturbed' = disturbed /\ row' = row
            BY <1>1 DEF vars, Tick, Suspend, Restore, WindowEnds, RedisFails, RedisReturns, Rows
        <2> QED
            BY <2>1, TokensKept DEF There
    <1>2. ASSUME NEW i \in Ids, SessionEnds(i) PROVE Kept' /\ HolderCanRefresh'
        <2>0. row[i] \in Row
            BY <1>2, RowShape DEF SessionEnds
        <2>1. row'[i].token = row[i].token /\ \A j \in Ids \ {i} : row'[j] = row[j]
            <3>1. row'[i] = [row[i] EXCEPT !.ended = TRUE, !.active = @ /\ ~row[i].ended]
                BY <1>2 DEF SessionEnds, SessionInv
            <3> QED
                BY <1>2, <2>0, <3>1 DEF SessionEnds, SessionInv, Row
        <2>2. There(i) /\ There(i)'
            <3>1. There(i) /\ row[i].token # None
                BY <1>2, RowShape DEF SessionEnds
            <3> QED
                BY <2>1, <3>1 DEF There, NoRow
        <2>3. \A j \in Ids : (There(j)' <=> There(j)) /\ (There(j) => row'[j].token = row[j].token)
            BY <2>1, <2>2 DEF There
        <2> QED
            BY <1>2, <2>3, TokensKept DEF SessionEnds
    <1>3. ASSUME NEW s \in Slots, Logout(s) PROVE Kept' /\ HolderCanRefresh'
        <2>1. call' = call /\ mine' = mine /\ disturbed' = disturbed
            BY <1>3 DEF Logout, Begin, SessionInv
        <2>2. \A i \in Ids : There(i) => row'[i] = [row[i] EXCEPT !.active = FALSE]
            BY <1>3 DEF Logout
        <2>3. \A i \in Ids : There(i) => row'[i].token = row[i].token /\ row'[i].token # None
            BY <2>2, RowShape DEF Row
        <2>4. \A i \in Ids : ~There(i) => row'[i] = NoRow
            BY <1>3 DEF Logout
        <2>5. \A j \in Ids : There(j)' <=> There(j)
            BY <2>3, <2>4 DEF There, NoRow
        <2> QED
            BY <2>1, <2>3, <2>5, TokensKept
    <1> QED
        BY <1>1, <1>2, <1>3, StandsBy, ReadHolds, SignHolds, CreateHolds, WriteHolds, AnswerHolds
        DEF Next, Step

-----------------------------------------------------------------------------
LEMMA TypeKept ==
    SessionInv /\ SessionInv' /\ TypeOK /\ Counted /\ [Next]_vars => TypeOK'
    <1> SUFFICES ASSUME SessionInv, SessionInv', TypeOK, Counted, [Next]_vars PROVE TypeOK'
        OBVIOUS
    <1> DEFINE Rest ==
            /\ enabled \in BOOLEAN /\ mine \in [Ids -> Tokens \cup {None}]
            /\ count \in Nat /\ timed \in BOOLEAN /\ redis \in BOOLEAN /\ (count = 0 => ~timed)
            /\ tries \in Nat /\ unlimited \in Nat /\ orphaned \in BOOLEAN
            /\ disturbed \subseteq Ids /\ calls \in 0..MaxCalls /\ faults \in 0..MaxFaults
    <1> SUFFICES Rest'
        BY DEF TypeOK, SessionInv, Calls
    <1>0. MaxCalls \in Nat /\ MaxFaults \in Nat
        BY BoundsAssumption
    <1>1. Rest
        BY DEF TypeOK
    <1>2. CASE UNCHANGED vars
        BY <1>1, <1>2 DEF vars
    <1>3. CASE Tick \/ Suspend \/ Restore \/ RedisFails \/ RedisReturns \/ \E i \in Ids : SessionEnds(i)
        <2>1. /\ mine' = mine /\ disturbed' = disturbed /\ calls' = calls
              /\ count' = count /\ timed' = timed /\ tries' = tries /\ unlimited' = unlimited
              /\ orphaned' = orphaned
            BY <1>3 DEF Tick, Suspend, Restore, RedisFails, RedisReturns, SessionEnds, Rows, Window, Counters
        <2>2. enabled' \in BOOLEAN /\ redis' \in BOOLEAN
            BY <1>1, <1>3 DEF Rest, Tick, Suspend, Restore, RedisFails, RedisReturns, SessionEnds, World
        <2>3. faults' \in 0..MaxFaults
            <3>1. faults' = faults \/ (faults < MaxFaults /\ faults' = faults + 1)
                BY <1>3 DEF Tick, Suspend, Restore, RedisFails, RedisReturns, SessionEnds, Counters
            <3>2. faults \in 0..MaxFaults
                BY <1>1 DEF Rest
            <3> QED
                BY <1>0, <3>1, <3>2
        <2> QED
            BY <1>1, <2>1, <2>2, <2>3
    <1>4. CASE WindowEnds
        <2>1. {s \in Slots : At(s, "login.user")} \subseteq Logging
            BY DEF Logging, LoginSteps, At
        <2>2. unlimited' \in Nat
            BY <1>4, <2>1, FS_Subset, FS_CardinalityType DEF WindowEnds, Counted
        <2> QED
            BY <1>1, <1>4, <2>2 DEF WindowEnds, Rows, World, Counters
    <1>5. ASSUME NEW s \in Slots,
                 \/ LoginStart(s) \/ LoginLost(s) \/ LoginUnlimited(s)
                 \/ VerifyRegistration(s) \/ Logout(s)
                 \/ \E t \in Tenants : SwitchTenant(s, t)
                 \/ \E i \in Ids : RefreshRead(s, i)
          PROVE  Rest'
        <2>1. CASE LoginLost(s)
            <3>1. /\ mine' = mine /\ enabled' = enabled /\ timed' = timed /\ tries' = tries
                  /\ disturbed' = disturbed /\ redis' = FALSE
                BY <2>1 DEF LoginLost, Rows
            <3>2. orphaned' \in BOOLEAN
                BY <1>1, <2>1 DEF LoginLost
            <3>3. /\ count' \in Nat /\ unlimited' \in Nat /\ count' # 0
                  /\ calls' \in 0..MaxCalls /\ faults' \in 0..MaxFaults
                BY <1>0, <1>1, <2>1 DEF LoginLost
            <3> QED
                BY <1>1, <3>1, <3>2, <3>3
        <2>2. CASE ~LoginLost(s)
            BY <1>0, <1>1, <1>5, <2>2 DEF LoginStart, LoginUnlimited, VerifyRegistration, Logout,
                SwitchTenant, RefreshRead, Begin, Rows, Window, World
        <2> QED
            BY <2>1, <2>2
    <1>6. ASSUME NEW s \in Slots,
                 \/ LoginUser(s) \/ VerifyUser(s) \/ CreateSession(s)
                 \/ RefreshUser(s) \/ RefreshWrite(s) \/ Abort(s)
          PROVE  Rest'
        <2>1. mine' = mine /\ calls' = calls /\ redis' = redis /\ count' = count /\ timed' = timed
              /\ unlimited' = unlimited
            BY <1>6 DEF LoginUser, VerifyUser, CreateSession, RefreshUser, RefreshWrite, Abort,
                Rows, Window, World, Counters
        <2>2. enabled' \in BOOLEAN /\ orphaned' \in BOOLEAN /\ disturbed' \subseteq Ids
            BY <1>1, <1>6 DEF Rest, LoginUser, VerifyUser, CreateSession, RefreshUser, RefreshWrite, Abort,
                Rows, Window, World
        <2>3. tries' \in Nat /\ faults' \in 0..MaxFaults
            BY <1>0, <1>1, <1>6 DEF Rest, LoginUser, VerifyUser, CreateSession, RefreshUser, RefreshWrite,
                Abort, Window, Counters
        <2> QED
            BY <1>1, <2>1, <2>2, <2>3
    <1>7. ASSUME NEW s \in Slots, LoginExpire(s) PROVE Rest'
        <2>1. count > 0
            BY <1>7 DEF LoginExpire, Counted
        <2>2. count' = count /\ tries' = tries /\ unlimited' = unlimited /\ mine' = mine
              /\ disturbed' = disturbed /\ enabled' = enabled /\ redis' = redis
              /\ calls' = calls /\ faults' = faults
            BY <1>7 DEF LoginExpire, Rows, World, Counters
        <2>3. timed' \in BOOLEAN /\ orphaned' \in BOOLEAN
            BY <1>1, <1>7 DEF Rest, LoginExpire
        <2>4. count' # 0
            BY <1>1, <2>1, <2>2 DEF Rest
        <2> QED
            BY <1>1, <2>2, <2>3, <2>4
    <1>8. ASSUME NEW s \in Slots, Opened(s) \/ Answered(s) PROVE Rest'
        <2>1. call[s].id \in Ids /\ call[s].token \in Tokens
            BY <1>8, CallShape DEF Opened, Answered, At, Refreshings
        <2> QED
            BY <1>1, <1>8, <2>1 DEF Opened, Answered, Window, World, Counters
    <1>9. ASSUME NEW s \in Slots, LoginTtl(s) PROVE Rest'
        <2>1. count' = count /\ tries' = tries /\ mine' = mine /\ timed' = timed /\ orphaned' = orphaned
              /\ disturbed' = disturbed /\ enabled' = enabled /\ redis' = redis
              /\ calls' = calls /\ faults' = faults
            BY <1>9 DEF LoginTtl, Rows, World, Counters
        <2>2. unlimited' \in Nat
            BY <1>1, <1>9 DEF Rest, LoginTtl
        <2> QED
            BY <1>1, <2>1, <2>2
    <1> HIDE DEF Rest
    <1> QED
        BY <1>2, <1>3, <1>4, <1>5, <1>6, <1>7, <1>8, <1>9 DEF Next, Step

LEMMA LoginStarts == Init => LoginInv
    <1> SUFFICES ASSUME Init PROVE LoginInv
        OBVIOUS
    <1>1. SessionInv
        BY StoreStarts
    <1>2. TypeOK
        <2>1. calls \in 0..MaxCalls /\ faults \in 0..MaxFaults /\ count \in Nat /\ tries \in Nat
              /\ unlimited \in Nat /\ mine \in [Ids -> Tokens \cup {None}] /\ disturbed \subseteq Ids
            BY BoundsAssumption DEF Init
        <2>2. /\ timed = FALSE /\ enabled \in BOOLEAN /\ timed \in BOOLEAN /\ redis \in BOOLEAN
              /\ orphaned \in BOOLEAN
            BY DEF Init
        <2> QED
            BY <1>1, <2>1, <2>2 DEF TypeOK, SessionInv, Calls
    <1>3. \A s \in Slots : call[s].pc = "idle"
        BY DEF Init, Idle
    <1>4. Logging = {}
        BY <1>3 DEF Logging, LoginSteps
    <1>5. IsFiniteSet(Logging) /\ Cardinality(Logging) = 0
        BY <1>4, FS_EmptySet
    <1>6. Counted
        BY <1>3, <1>5, LimitAssumption DEF Init, Counted, Allowed, At
    <1>7. \A s \in Slots, i \in Ids : ~Refreshes(s, i)
        BY <1>3 DEF Refreshes
    <1>8. Kept /\ HolderCanRefresh
        BY <1>3, <1>7 DEF Kept, HolderCanRefresh, Init, There
    <1> QED
        BY <1>1, <1>2, <1>6, <1>8 DEF LoginInv

LEMMA LoginInvAlways == Spec => []LoginInv
    <1>1. LoginInv /\ [Next]_vars => LoginInv'
        BY StoreSteps, TypeKept, CountedKept, KeptKept DEF LoginInv
    <1> QED
        BY <1>1, LoginStarts, PTL DEF Spec

\* The sessions, the counter of attempts and the requests have their types.
THEOREM TypeCorrect == Spec => []TypeOK
    <1>1. LoginInv => TypeOK
        BY DEF LoginInv
    <1> QED
        BY <1>1, LoginInvAlways, PTL

\* LoginSafe: whoever refreshes one request at a time, and loses no answer, holds
\* the token of the session; and no more passwords are compared within a window
\* than the limit allows, but for those the counter could not count.
THEOREM LoginStaysSafe == Spec => []LoginSafe
    <1>1. LoginInv => LoginSafe
        <2> SUFFICES ASSUME LoginInv PROVE TriesWithinLimit
            BY DEF LoginInv, LoginSafe
        <2>1. /\ tries + Cardinality(Logging) <= Allowed + unlimited
              /\ Cardinality(Logging) \in Nat /\ Allowed <= Limit
              /\ tries \in Nat /\ unlimited \in Nat /\ Allowed \in Nat /\ Limit \in Nat
            BY FS_CardinalityType, LimitAssumption DEF LoginInv, TypeOK, Counted, Allowed
        <2> QED
            BY <2>1 DEF TriesWithinLimit
    <1> QED
        BY <1>1, LoginInvAlways, PTL
=============================================================================
