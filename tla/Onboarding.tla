----------------------------- MODULE Onboarding -----------------------------
(***************************************************************************)
(* How a pending user becomes the owner of an agency, a brand or a         *)
(* creator tenant.  Each of the three handlers opens a transaction and so  *)
(* keeps a connection of the pool; most of its statements go to the pool   *)
(* all the same, wait there for another connection and are committed at    *)
(* once.  The profile and the users row are written inside the transaction *)
(* for brands and creators, and outside it for agencies.                   *)
(***************************************************************************)
EXTENDS Naturals, FiniteSets

CONSTANTS
    Tenants,    \* tenant ids that sp_CreateTenant may hand out
    Slots,      \* requests of the user in flight at once
    None,
    PoolSize,   \* pool.max, 10
    MaxCalls,   \* bound: requests that are made
    MaxFaults   \* bound: statements that fail, restarts

VARIABLES
    tenant,     \* tenant[t]: the tenants row, with what is filed under it
    userType,   \* users.user_type, with onboarding_completed_at
    lock,       \* the request whose transaction has written the users row
    failed,     \* history: tenants at which something failed
    call, calls, faults

vars == <<tenant, userType, lock, failed, call, calls, faults>>

-----------------------------------------------------------------------------
Kinds == {"agency", "brand", "creator"}
NoTenant == [kind |-> "none"]
Tenant == [kind : Kinds, plan : BOOLEAN, history : BOOLEAN, profile : BOOLEAN, session : BOOLEAN]
NewTenant(k) == [kind |-> k, plan |-> FALSE, history |-> FALSE, profile |-> FALSE, session |-> FALSE]

Idle == [pc |-> "idle"]
Steps == {"onboard.begin", "onboard.tenant", "onboard.plan", "onboard.history",
          "onboard.profile", "onboard.user", "onboard.session", "onboard.commit"}
Request == [pc : Steps, kind : Kinds, tenant : Tenants \cup {None}]

TypeOK ==
    /\ tenant \in [Tenants -> Tenant \cup {NoTenant}]
    /\ userType \in Kinds \cup {"pending"}
    /\ lock \in Slots \cup {None}
    /\ failed \subseteq Tenants
    /\ call \in [Slots -> Request \cup {Idle}]
    /\ calls \in 0..MaxCalls /\ faults \in 0..MaxFaults

Init ==
    /\ tenant = [t \in Tenants |-> NoTenant]
    /\ userType = "pending"
    /\ lock = None
    /\ failed = {}
    /\ call = [s \in Slots |-> Idle]
    /\ calls = 0 /\ faults = 0

At(s, pc) == call[s].pc = pc
Goto(s, pc) == call' = [call EXCEPT ![s].pc = pc]
Mine(s) == call[s].tenant
Counters == <<calls, faults>>

\* Inside the transaction for brands and creators, outside it for agencies.
InTransaction(s) == call[s].kind # "agency"

\* sql.Transaction.begin takes a connection until commit or rollback.
Holds(s) == call[s].pc \in Steps \ {"onboard.begin"}
Exhausted == Cardinality({s \in Slots : Holds(s)}) >= PoolSize

\* The statement at which s is goes to the pool.
ToPool(s) ==
    \/ call[s].pc \in {"onboard.begin", "onboard.tenant", "onboard.plan", "onboard.history",
                       "onboard.session"}
    \/ call[s].pc \in {"onboard.profile", "onboard.user"} /\ ~InTransaction(s)
Connected(s) == ToPool(s) => ~Exhausted

Locked(s) == lock \notin {None, s}
Unlock(s) == lock' = IF lock = s THEN None ELSE lock

-----------------------------------------------------------------------------
\* createAgency, createBrand, createCreator: nobody asks whether the user is
\* pending.
Create(s, k) ==
    /\ call[s] = Idle
    /\ calls < MaxCalls
    /\ calls' = calls + 1
    /\ call' = [call EXCEPT ![s] = [pc |-> "onboard.begin", kind |-> k, tenant |-> None]]
    /\ UNCHANGED <<tenant, userType, lock, failed, faults>>

BeginTransaction(s) ==
    /\ At(s, "onboard.begin") /\ Connected(s)
    /\ Goto(s, "onboard.tenant")
    /\ UNCHANGED <<tenant, userType, lock, failed, Counters>>

\* sp_CreateTenant: the tenant, its owner's membership and role, at once.
CreateTenant(s, t) ==
    /\ At(s, "onboard.tenant") /\ Connected(s)
    /\ tenant[t] = NoTenant
    /\ tenant' = [tenant EXCEPT ![t] = NewTenant(call[s].kind)]
    /\ call' = [call EXCEPT ![s].pc = "onboard.plan", ![s].tenant = t]
    /\ UNCHANGED <<userType, lock, failed, Counters>>

\* assignDefaultFreePlan: the plan's limits are copied to the tenant, ...
AssignPlan(s) ==
    /\ At(s, "onboard.plan") /\ Connected(s)
    /\ tenant' = [tenant EXCEPT ![Mine(s)].plan = TRUE]
    /\ Goto(s, "onboard.history")
    /\ UNCHANGED <<userType, lock, failed, Counters>>

\* ... which is recorded; ...
RecordPlan(s) ==
    /\ At(s, "onboard.history") /\ Connected(s)
    /\ tenant' = [tenant EXCEPT ![Mine(s)].history = TRUE]
    /\ Goto(s, "onboard.profile")
    /\ UNCHANGED <<userType, lock, failed, Counters>>

\* ... there may be no such plan, ...
NoFreePlan(s) ==
    /\ At(s, "onboard.plan") /\ Connected(s)
    /\ Goto(s, "onboard.profile")
    /\ UNCHANGED <<tenant, userType, lock, failed, Counters>>

\* The profile of a tenant whose transaction is open counts from the commit.
InsertProfile(s) ==
    /\ At(s, "onboard.profile") /\ Connected(s)
    /\ tenant' = IF InTransaction(s) THEN tenant
                 ELSE [tenant EXCEPT ![Mine(s)].profile = TRUE]
    /\ Goto(s, "onboard.user")
    /\ UNCHANGED <<userType, lock, failed, Counters>>

\* Mutant: the users row is written outside the transaction.
UpdateUserAtOnce(s) ==
    /\ At(s, "onboard.user") /\ Connected(s) /\ ~Locked(s)
    /\ userType' = call[s].kind
    /\ Goto(s, "onboard.session")
    /\ UNCHANGED <<tenant, lock, failed, Counters>>

\* UPDATE users, which waits for a transaction that has written the row.
UpdateUser(s) ==
    /\ At(s, "onboard.user") /\ Connected(s) /\ ~Locked(s)
    /\ IF InTransaction(s) THEN lock' = s /\ UNCHANGED userType
       ELSE userType' = call[s].kind /\ UNCHANGED lock
    /\ Goto(s, "onboard.session")
    /\ UNCHANGED <<tenant, failed, Counters>>

\* createSession, before the commit.
CreateSession(s) ==
    /\ At(s, "onboard.session") /\ Connected(s)
    /\ tenant' = [tenant EXCEPT ![Mine(s)].session = TRUE]
    /\ Goto(s, "onboard.commit")
    /\ UNCHANGED <<userType, lock, failed, Counters>>

\* The audit rows and the event are written, or not, and the transaction is
\* committed, ...
Commit(s) ==
    /\ At(s, "onboard.commit") /\ InTransaction(s)
    /\ tenant' = [tenant EXCEPT ![Mine(s)].profile = TRUE]
    /\ userType' = call[s].kind
    /\ Unlock(s)
    /\ call' = [call EXCEPT ![s] = Idle]
    /\ UNCHANGED <<failed, Counters>>

\* ... which has nothing in it for an agency.
EndOfAgency(s) ==
    /\ At(s, "onboard.commit") /\ ~InTransaction(s)
    /\ call' = [call EXCEPT ![s] = Idle]
    /\ UNCHANGED <<tenant, userType, lock, failed, Counters>>

-----------------------------------------------------------------------------
Stop(s) ==
    /\ call' = [call EXCEPT ![s] = Idle]
    /\ Unlock(s)

\* A statement of assignDefaultFreePlan that fails is logged, and "tenant
\* creation should still succeed"; any other rolls the transaction back.
Break(s) ==
    /\ failed' = failed \cup ({Mine(s)} \ {None})
    /\ IF call[s].pc \in {"onboard.plan", "onboard.history"}
       THEN Goto(s, "onboard.profile") /\ UNCHANGED lock
       ELSE Stop(s)

\* Mutant: nothing ends the wait for a connection.
TimeoutOfLock(s) ==
    /\ At(s, "onboard.user") /\ Locked(s)
    /\ Break(s)
    /\ UNCHANGED <<tenant, userType, Counters>>

\* A statement finds no connection for 30 seconds, or the users row is locked
\* for as long.
Timeout(s) ==
    /\ call[s] # Idle
    /\ ~Connected(s) \/ (At(s, "onboard.user") /\ Locked(s))
    /\ Break(s)
    /\ UNCHANGED <<tenant, userType, Counters>>

StatementFails(s) ==
    /\ call[s] # Idle
    /\ faults < MaxFaults /\ faults' = faults + 1
    /\ Break(s)
    /\ UNCHANGED <<tenant, userType, calls>>

\* The process restarts: open transactions are rolled back.
Crash ==
    /\ faults < MaxFaults /\ faults' = faults + 1
    /\ failed' = failed \cup ({call[s].tenant : s \in {r \in Slots : call[r] # Idle}} \ {None})
    /\ call' = [s \in Slots |-> Idle]
    /\ lock' = None
    /\ UNCHANGED <<tenant, userType, calls>>

Step(s) ==
    \/ BeginTransaction(s) \/ (\E t \in Tenants : CreateTenant(s, t))
    \/ AssignPlan(s) \/ RecordPlan(s) \/ NoFreePlan(s)
    \/ InsertProfile(s) \/ UpdateUser(s) \/ CreateSession(s)
    \/ Commit(s) \/ EndOfAgency(s) \/ Timeout(s)

Next ==
    \/ \E s \in Slots, k \in Kinds : Create(s, k)
    \/ \E s \in Slots : Step(s) \/ StatementFails(s)
    \/ Crash

\* A request that was begun goes on or runs into its timeout.
Fairness == \A s \in Slots : WF_vars(Step(s))

Spec == Init /\ [][Next]_vars /\ Fairness

-----------------------------------------------------------------------------
Working(t, pcs) == \E s \in Slots : call[s].pc \in pcs /\ Mine(s) = t

\* A user who is of a kind has a tenant of that kind with a profile.
OnboardedOwns ==
    userType # "pending" => \E t \in Tenants : tenant[t].kind = userType /\ tenant[t].profile

\* What a tenant lacks was not there to be had, is on its way, or failed: a
\* tenant without a profile, a plan without its record, a session of a tenant
\* without a profile.
HalvesExplained ==
    \A t \in Tenants : tenant[t] # NoTenant /\ t \notin failed =>
        /\ tenant[t].profile \/ Working(t, Steps)
        /\ tenant[t].plan => tenant[t].history \/ Working(t, {"onboard.history"})
        /\ tenant[t].profile => tenant[t].session
                                \/ Working(t, {"onboard.user", "onboard.session"})
        /\ tenant[t].session => tenant[t].profile \/ Working(t, {"onboard.commit"})

\* The users row is locked only by a transaction that is open.
LockHeld == lock # None => Holds(lock)

\* However many connections the transactions hold, every request ends.
RequestsEnd == \A s \in Slots : call[s] # Idle ~> call[s] = Idle

=============================================================================
