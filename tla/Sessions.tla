------------------------------ MODULE Sessions ------------------------------
(***************************************************************************)
(* The sessions of one account: AuthService opens them at login and        *)
(* AuthController when the tenant is switched, exchanges their refresh     *)
(* tokens and closes all of them at logout; attempts to log in are counted *)
(* in Redis.  A refresh token is a signed payload with the second it was   *)
(* signed in, so that two of one second with one payload are the same      *)
(* token, of which user_sessions holds one: refresh_token is UNIQUE.       *)
(***************************************************************************)
EXTENDS Naturals, FiniteSets

CONSTANTS
    Ids,        \* ids the user_sessions table may hand out, in ascending order
    Tenants,    \* the tenants of the account
    Slots,      \* requests in flight at once
    None,
    Limit,      \* attempts to log in per window (5)
    MaxTime,    \* bound: seconds that pass
    MaxCalls,   \* bound: requests that are made
    MaxFaults   \* bound: requests that break off, commands that fail, suspensions

ASSUME IdsAssumption == Ids \subseteq Nat
ASSUME LimitAssumption == Limit \in Nat \ {0}
ASSUME BoundsAssumption == MaxTime \in Nat /\ MaxCalls \in Nat /\ MaxFaults \in Nat

VARIABLES
    now,        \* the second
    enabled,    \* users.status = 'active'
    row,        \* row[i]: the user_sessions row
    mine,       \* mine[i]: the last token answered to the client of session i
    count,      \* the Redis counter of attempts, 0 without the key
    timed,      \* the key has an expiry
    redis,      \* Redis can be reached
    tries,      \* history: passwords compared since the key is there
    unlimited,  \* history: those among them that the limit did not hold back
    orphaned,   \* history: the expiry was not set
    disturbed,  \* history: sessions with overlapping refreshes, or a lost answer
    call, calls, faults

vars == <<now, enabled, row, mine, count, timed, redis, tries, unlimited, orphaned,
          disturbed, call, calls, faults>>

-----------------------------------------------------------------------------
Tokens == [at : 0..MaxTime, tenant : Tenants \cup {None}, onboarding : BOOLEAN]
ASSUME NoneAssumption == None \notin Tokens
Row == [token : Tokens, active : BOOLEAN, ended : BOOLEAN]  \* ended: expires_at
NoRow == [token |-> None]

Idle == [pc |-> "idle"]
Login == [pc : {"login.expire", "login.ttl", "login.user", "verify.user"}]
Insert == [pc : {"insert"}, token : Tokens]
Refresh == [pc : {"refresh.user", "refresh.write"}, id : Ids, token : Tokens]
Answer == [pc : {"opened", "answer"}, id : Ids, token : Tokens]

TypeOK ==
    /\ now \in 0..MaxTime
    /\ enabled \in BOOLEAN
    /\ row \in [Ids -> Row \cup {NoRow}]
    /\ mine \in [Ids -> Tokens \cup {None}]
    /\ count \in Nat /\ timed \in BOOLEAN /\ redis \in BOOLEAN
    /\ count = 0 => ~timed
    /\ tries \in Nat /\ unlimited \in Nat /\ orphaned \in BOOLEAN
    /\ disturbed \subseteq Ids
    /\ call \in [Slots -> Login \cup Insert \cup Refresh \cup Answer \cup {Idle}]
    /\ calls \in 0..MaxCalls /\ faults \in 0..MaxFaults

Init ==
    /\ now = 0 /\ enabled = TRUE
    /\ row = [i \in Ids |-> NoRow] /\ mine = [i \in Ids |-> None]
    /\ count = 0 /\ timed = FALSE /\ redis = TRUE
    /\ tries = 0 /\ unlimited = 0 /\ orphaned = FALSE
    /\ disturbed = {}
    /\ call = [s \in Slots |-> Idle]
    /\ calls = 0 /\ faults = 0

At(s, pc) == call[s].pc = pc
Goto(s, pc) == call' = [call EXCEPT ![s].pc = pc]
Done(s) == call' = [call EXCEPT ![s] = Idle]
Rows == <<row, mine, disturbed>>
Window == <<count, timed, tries, unlimited, orphaned>>
World == <<now, enabled, redis>>
Counters == <<calls, faults>>

Begin(s, c) ==
    /\ call[s] = Idle
    /\ calls < MaxCalls
    /\ call' = [call EXCEPT ![s] = c]
    /\ calls' = calls + 1
    /\ UNCHANGED <<World, faults>>

There(i) == row[i] # NoRow
Refreshes(s, i) == call[s].pc \in {"refresh.user", "refresh.write", "opened", "answer"} /\ call[s].id = i

-----------------------------------------------------------------------------
\* checkRateLimit: INCR, ...
LoginStart(s) ==
    /\ redis
    /\ Begin(s, [pc |-> IF count = 0 THEN "login.expire"
                        ELSE IF count < Limit THEN "login.user" ELSE "login.ttl"])
    /\ count' = count + 1
    /\ UNCHANGED <<timed, tries, unlimited, orphaned, Rows>>

\* ... whose answer may be lost with the connection: the attempt is counted, and
\* allowed, ...
LoginLost(s) ==
    /\ redis /\ faults < MaxFaults
    /\ call[s] = Idle /\ calls < MaxCalls
    /\ call' = [call EXCEPT ![s] = [pc |-> "login.user"]]
    /\ redis' = FALSE /\ calls' = calls + 1 /\ faults' = faults + 1
    /\ count' = count + 1
    /\ unlimited' = IF count < Limit THEN unlimited ELSE unlimited + 1
    /\ orphaned' = (orphaned \/ count = 0)
    /\ UNCHANGED <<now, enabled, timed, tries, Rows>>

\* ... all are allowed without Redis, ...
LoginUnlimited(s) ==
    /\ ~redis
    /\ Begin(s, [pc |-> "login.user"])
    /\ unlimited' = unlimited + 1
    /\ UNCHANGED <<count, timed, tries, orphaned, Rows>>

\* Mutant: the window is not started.
LoginNoExpire(s) ==
    /\ At(s, "login.expire")
    /\ Goto(s, "login.user")
    /\ UNCHANGED <<Window, World, Rows, Counters>>

\* ... EXPIRE by the first attempt, which is allowed when that fails too, ...
LoginExpire(s) ==
    /\ At(s, "login.expire")
    /\ \/ redis /\ timed' = TRUE /\ UNCHANGED orphaned
       \/ ~redis /\ orphaned' = TRUE /\ UNCHANGED timed
    /\ Goto(s, "login.user")
    /\ UNCHANGED <<count, tries, unlimited, World, Rows, Counters>>

\* ... and TTL above the limit, for the refusal; when that fails, the attempt is
\* allowed like any that Redis could not count.
LoginTtl(s) ==
    /\ At(s, "login.ttl")
    /\ \/ redis /\ Done(s) /\ UNCHANGED unlimited
       \/ ~redis /\ Goto(s, "login.user") /\ unlimited' = unlimited + 1
    /\ UNCHANGED <<count, timed, tries, orphaned, World, Rows, Counters>>

\* login: the user is read, the password compared, the tokens signed for the
\* first tenant.
LoginUser(s) ==
    /\ At(s, "login.user")
    /\ tries' = tries + 1
    /\ \/ Done(s)
       \/ \E t \in Tenants :
              /\ enabled
              /\ call' = [call EXCEPT ![s] =
                             [pc |-> "insert", token |-> [at |-> now, tenant |-> t, onboarding |-> FALSE]]]
    /\ UNCHANGED <<count, timed, unlimited, orphaned, World, Rows, Counters>>

\* verifyRegistration, by a code that was used up: whatever the status of the
\* account, ...
VerifyRegistration(s) ==
    /\ Begin(s, [pc |-> "verify.user"])
    /\ UNCHANGED <<Window, Rows>>

\* ... it is active from now on, and its tokens name no tenant yet.
VerifyUser(s) ==
    /\ At(s, "verify.user")
    /\ enabled' = TRUE
    /\ call' = [call EXCEPT ![s] =
                   [pc |-> "insert", token |-> [at |-> now, tenant |-> None, onboarding |-> TRUE]]]
    /\ UNCHANGED <<now, redis, Window, Rows, Counters>>

\* validate: whoever carries a token that was signed once may make requests as
\* long as the account is active; the session is not looked up.
Bearer == enabled /\ \E i \in Ids : There(i)

\* switchTenant, to a tenant of the account.
SwitchTenant(s, t) ==
    /\ Bearer
    /\ Begin(s, [pc |-> "insert", token |-> [at |-> now, tenant |-> t, onboarding |-> FALSE]])
    /\ UNCHANGED <<Window, Rows>>

NewId(i) == ~There(i) /\ \A j \in Ids : j < i => There(j)
Unique(i, tk) == \A j \in Ids \ {i} : row[j].token # tk

\* createSession; an INSERT that repeats a token fails.
CreateSession(s) ==
    LET tk == call[s].token
    IN  /\ At(s, "insert")
        /\ \/ /\ ~Unique(None, tk)
              /\ Done(s)
              /\ UNCHANGED row
           \/ \E i \in Ids :
                  /\ NewId(i) /\ Unique(i, tk)
                  /\ row' = [row EXCEPT ![i] = [token |-> tk, active |-> TRUE, ended |-> FALSE]]
                  /\ call' = [call EXCEPT ![s] = [pc |-> "opened", id |-> i, token |-> tk]]
        /\ UNCHANGED <<mine, disturbed, Window, World, Counters>>

\* The session is cached for 15 minutes, which nobody reads, and the client
\* stores the token it is answered.
Opened(s) ==
    /\ At(s, "opened")
    /\ mine' = [mine EXCEPT ![call[s].id] = call[s].token]
    /\ Done(s)
    /\ UNCHANGED <<row, disturbed, Window, World, Counters>>

-----------------------------------------------------------------------------
\* refreshToken: the session of the token that is active and has not ended, ...
RefreshRead(s, i) ==
    /\ There(i) /\ row[i].active /\ ~row[i].ended
    /\ Begin(s, [pc |-> "refresh.user", id |-> i, token |-> row[i].token])
    /\ disturbed' = disturbed \cup {j \in {i} : \E r \in Slots : Refreshes(r, j)}
    /\ UNCHANGED <<row, mine, Window>>

\* ... the user, and the signing: onboarding is required from now on, ...
RefreshUser(s) ==
    /\ At(s, "refresh.user")
    /\ IF enabled
       THEN call' = [call EXCEPT ![s].pc = "refresh.write",
                                 ![s].token = [@ EXCEPT !.at = now, !.onboarding = TRUE]]
       ELSE Done(s)
    /\ UNCHANGED <<Rows, Window, World, Counters>>

\* Mutant: SET is_active = 1.
RefreshReopening(s) ==
    LET i == call[s].id
        tk == call[s].token
    IN  /\ At(s, "refresh.write")
        /\ IF Unique(i, tk)
           THEN /\ row' = [row EXCEPT ![i] = [token |-> tk, active |-> TRUE, ended |-> FALSE]]
                /\ Goto(s, "answer")
           ELSE Done(s) /\ UNCHANGED row
        /\ UNCHANGED <<mine, disturbed, Window, World, Counters>>

\* Mutant: the new token is not stored.
RefreshForgetting(s) ==
    LET i == call[s].id
        tk == call[s].token
    IN  /\ At(s, "refresh.write")
        /\ IF Unique(i, tk)
           THEN /\ row' = [row EXCEPT ![i].ended = FALSE]
                /\ Goto(s, "answer")
           ELSE Done(s) /\ UNCHANGED row
        /\ UNCHANGED <<mine, disturbed, Window, World, Counters>>

\* ... and the UPDATE, by the id of the session; it fails on a token that is
\* there already.
RefreshWrite(s) ==
    LET i == call[s].id
        tk == call[s].token
    IN  /\ At(s, "refresh.write")
        /\ IF Unique(i, tk)
           THEN /\ row' = [row EXCEPT ![i].token = tk, ![i].ended = FALSE]
                /\ Goto(s, "answer")
           ELSE Done(s) /\ UNCHANGED row
        /\ UNCHANGED <<mine, disturbed, Window, World, Counters>>

\* The client stores the new token.
Answered(s) ==
    /\ At(s, "answer")
    /\ mine' = [mine EXCEPT ![call[s].id] = call[s].token]
    /\ Done(s)
    /\ UNCHANGED <<row, disturbed, Window, World, Counters>>

\* logout: all sessions of the account.
Logout(s) ==
    /\ Bearer
    /\ Begin(s, Idle)
    /\ row' = [i \in Ids |-> IF There(i) THEN [row[i] EXCEPT !.active = FALSE] ELSE NoRow]
    /\ UNCHANGED <<mine, disturbed, Window>>

-----------------------------------------------------------------------------
Tick == now < MaxTime /\ now' = now + 1
        /\ UNCHANGED <<enabled, redis, Rows, Window, call, Counters>>

\* expires_at passes, or sp_CleanupExpiredSessions comes after it.
SessionEnds(i) ==
    /\ There(i)
    /\ row' = [row EXCEPT ![i].ended = TRUE, ![i].active = @ /\ ~row[i].ended]
    /\ UNCHANGED <<mine, disturbed, Window, World, call, Counters>>

\* The account is suspended elsewhere, ...
Suspend ==
    /\ enabled /\ faults < MaxFaults
    /\ enabled' = FALSE /\ faults' = faults + 1
    /\ UNCHANGED <<now, redis, Rows, Window, call, calls>>

\* ... or restored.
Restore ==
    /\ ~enabled
    /\ enabled' = TRUE
    /\ UNCHANGED <<now, redis, Rows, Window, call, Counters>>

\* The key expires; attempts it counted may still be under way.
WindowEnds ==
    /\ timed /\ redis
    /\ count' = 0 /\ timed' = FALSE /\ tries' = 0
    /\ unlimited' = Cardinality({s \in Slots : At(s, "login.user")})
    /\ UNCHANGED <<orphaned, World, Rows, call, Counters>>

\* The connection to Redis is lost, or found again.
RedisFails ==
    /\ redis /\ faults < MaxFaults
    /\ redis' = FALSE /\ faults' = faults + 1
    /\ UNCHANGED <<now, enabled, Rows, Window, call, calls>>
RedisReturns ==
    /\ ~redis /\ redis' = TRUE
    /\ UNCHANGED <<now, enabled, Rows, Window, call, Counters>>

\* A statement fails, the process stops or the answer is lost.
Abort(s) ==
    /\ call[s] # Idle
    /\ faults < MaxFaults
    /\ faults' = faults + 1
    /\ Done(s)
    /\ orphaned' = (orphaned \/ At(s, "login.expire"))
    /\ disturbed' = disturbed \cup {i \in Ids : Refreshes(s, i)}
    /\ UNCHANGED <<World, row, mine, count, timed, tries, unlimited, calls>>

Step(s) ==
    \/ LoginExpire(s) \/ LoginTtl(s) \/ LoginUser(s) \/ VerifyUser(s) \/ CreateSession(s) \/ Opened(s)
    \/ RefreshUser(s) \/ RefreshWrite(s) \/ Answered(s)

Next ==
    \/ \E s \in Slots :
           \/ LoginStart(s) \/ LoginLost(s) \/ LoginUnlimited(s)
           \/ VerifyRegistration(s) \/ Logout(s)
           \/ \E t \in Tenants : SwitchTenant(s, t)
           \/ \E i \in Ids : RefreshRead(s, i)
           \/ Step(s) \/ Abort(s)
    \/ Tick \/ Suspend \/ Restore \/ WindowEnds \/ RedisFails \/ RedisReturns
    \/ \E i \in Ids : SessionEnds(i)

Spec == Init /\ [][Next]_vars

\* Requests go on, Redis comes back and lets keys expire.
Fairness ==
    /\ \A s \in Slots : WF_vars(Step(s))
    /\ WF_vars(RedisReturns) /\ SF_vars(WindowEnds)

FairSpec == Spec /\ Fairness

-----------------------------------------------------------------------------
\* Whoever refreshes one request at a time, and loses no answer, holds the
\* token of the session: whatever else happens to the account, the last token
\* answered is the one user_sessions knows.
HolderCanRefresh ==
    \A i \in Ids : There(i) =>
        \/ mine[i] = row[i].token
        \/ i \in disturbed
        \/ \E s \in Slots : call[s].pc \in {"opened", "answer"} /\ call[s].id = i

\* Within a window no more passwords are compared than the limit allows, but
\* for the attempts that checkRateLimit let through uncounted: made while Redis
\* was away, left without an answer to INCR or, above the limit, to TTL, or
\* allowed in the window before.
TriesWithinLimit == tries <= Limit + unlimited

\* Who has reached the limit may try again some time, unless the process
\* stopped, or Redis, between INCR and EXPIRE: then the counter stays for good.
LimitLifts == count > Limit ~> count = 0 \/ orphaned

LiveToken(i) == IF There(i) /\ row[i].active THEN row[i].token ELSE None

Store == INSTANCE SessionStore WITH
    token <- [i \in Ids |-> LiveToken(i)],
    opened <- {i \in Ids : There(i)}

\* The rows implement the store of sessions: a refresh that was under way
\* while the account logged out writes a token that opens nothing.
StoreImplemented == Store!StoreSpec

\* Who is in stays in, and who guesses is stopped.
LoginSafe == HolderCanRefresh /\ TriesWithinLimit
=============================================================================
