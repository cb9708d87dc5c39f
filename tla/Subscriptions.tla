--------------------------- MODULE Subscriptions ---------------------------
(***************************************************************************)
(* The subscriptions of the tenants: SubscriptionsService changes, cancels *)
(* and reactivates them, switches plans off and keeps the payment methods, *)
(* SubscriptionSchedulerService ends the trials, the paid periods and the  *)
(* cancelled subscriptions that are due, and then mails their owners one   *)
(* by one.  Every statement is a transaction of its own: a change of plan  *)
(* is a sequence of reads and of five writes that others run between, and  *)
(* that a failing statement or a crash cuts short.                         *)
(***************************************************************************)
EXTENDS Naturals, FiniteSets

CONSTANTS
    Tenants,
    Plans,
    FreePlan,   \* the plan assignFreePlan gives to a new tenant
    Methods,    \* ids the payment_methods table may hand out
    Slots,      \* requests in flight at once
    None,       \* NULL: no plan, no payment method
    MaxCalls,   \* bound: requests that are made
    MaxFaults   \* bound: statements that fail and restarts of the process

ASSUME IdsAssumption == FreePlan \in Plans /\ None \notin Plans \cup Methods \cup Tenants
ASSUME BoundsAssumption == MaxCalls \in Nat /\ MaxFaults \in Nat

VARIABLES
    sub,      \* sub[t]: the subscription columns of the tenants row
    plans,    \* the rows of subscription_plans
    active,   \* those with is_active = 1
    granted,  \* granted[t]: the plan t's permissions were last reset to
    entry,    \* entry[t]: the latest subscription_history row of t
    method,   \* method[m]: the payment_methods row
    call,     \* the requests in flight
    queue,    \* queue[j]: tenants the run of job j still has to mail
    mixed,    \* history: tenants two of whose calls overlapped, or one broke off
    excused,  \* history: plans switched off by hand, or deleted during a change
    calls, faults

vars == <<sub, plans, active, granted, entry, method, call, queue, mixed, excused, calls, faults>>

-----------------------------------------------------------------------------
Statuses == {"trial", "active", "expired", "cancelled"}
Jobs == {"trials", "periods", "cancellations"}

Subscription ==
    [plan : Plans \cup {None}, status : Statuses, trial : BOOLEAN,
     ended : BOOLEAN,      \* the trial's or the paid period's end has passed
     requested : BOOLEAN,  \* cancellation_requested_at IS NOT NULL
     renew : BOOLEAN]      \* auto_renew

Entry == [to : Plans \cup {None}, paid : Plans \cup {None}]  \* payment_id, by its plan

NoRow == [tenant |-> None]
Row == [tenant : Tenants, default : BOOLEAN]

Idle == [pc |-> "idle"]
Writing == {"change.reset", "change.history", "change.clear", "change.default"}
ChangeSteps == {"change.current", "change.prices", "change.apply"} \cup Writing
Change == [pc : ChangeSteps, tenant : Tenants, plan : Plans, from : Plans \cup {None},
           method : Methods \cup {None}]
Save == [pc : {"save.insert", "save.others"}, tenant : Tenants, method : Methods \cup {None}]
Reactivate == [pc : {"reactivate.write"}, tenant : Tenants]
Delete == [pc : {"delete.write"}, plan : Plans]

TypeOK ==
    /\ sub \in [Tenants -> Subscription]
    /\ plans \subseteq Plans /\ active \subseteq plans
    /\ granted \in [Tenants -> Plans \cup {None}]
    /\ entry \in [Tenants -> Entry]
    /\ method \in [Methods -> Row \cup {NoRow}]
    /\ call \in [Slots -> Change \cup Save \cup Reactivate \cup Delete \cup {Idle}]
    /\ queue \in [Jobs -> SUBSET Tenants]
    /\ mixed \subseteq Tenants
    /\ excused \subseteq Plans
    /\ calls \in 0..MaxCalls
    /\ faults \in 0..MaxFaults

\* assignFreePlan has given the tenants the free plan, with a trial if it has
\* trial days, and no renewal.
Init ==
    /\ \E trial \in BOOLEAN :
           sub = [t \in Tenants |->
                     [plan |-> FreePlan, status |-> IF trial THEN "trial" ELSE "active",
                      trial |-> trial, ended |-> FALSE, requested |-> FALSE, renew |-> FALSE]]
    /\ plans = {FreePlan} /\ active = plans
    /\ granted = [t \in Tenants |-> None]
    /\ entry = [t \in Tenants |-> [to |-> FreePlan, paid |-> None]]
    /\ method = [m \in Methods |-> NoRow]
    /\ call = [s \in Slots |-> Idle]
    /\ queue = [j \in Jobs |-> {}]
    /\ mixed = {} /\ excused = {}
    /\ calls = 0 /\ faults = 0

At(s, pc) == call[s].pc = pc
Goto(s, pc) == call' = [call EXCEPT ![s].pc = pc]
Done(s) == call' = [call EXCEPT ![s] = Idle]
Counters == <<calls, faults>>
Data == <<sub, plans, active, granted, entry, method>>

\* The calls that write the plan, the permissions or the default method of t.
Busy(s, t) == call[s].pc \in ChangeSteps \cup {"save.insert", "save.others"} /\ call[s].tenant = t

Begin(s, c) ==
    /\ call[s] = Idle
    /\ calls < MaxCalls
    /\ call' = [call EXCEPT ![s] = c]
    /\ calls' = calls + 1
    /\ UNCHANGED <<queue, faults>>

-----------------------------------------------------------------------------
\* getPlanById: sp_GetSubscriptionPlan leaves out the plans that are inactive
\* (updatePlan avoids it for that reason).
Offered(p) == p \in active

\* changeSubscription, to plan p, with a payment by method m or none.
ChangeStart(s, t, p, m) ==
    /\ Offered(p)
    /\ Begin(s, [pc |-> "change.current", tenant |-> t, plan |-> p, from |-> None, method |-> m])
    /\ mixed' = mixed \cup {u \in {t} : \E r \in Slots : Busy(r, u)}
    /\ excused' = excused \cup {q \in {p} : \E r \in Slots : At(r, "delete.write") /\ call[r].plan = q}
    /\ UNCHANGED Data

\* ... getTenantSubscription.
ChangeCurrent(s) ==
    /\ At(s, "change.current")
    /\ LET from == sub[call[s].tenant].plan
       IN  call' = [call EXCEPT ![s].from = from,
                                ![s].pc = IF from = None THEN "change.apply" ELSE "change.prices"]
    /\ UNCHANGED <<Data, queue, mixed, excused, Counters>>

\* ... getPlanById(currentPlanId) and getPlanById(dto.planId), for the prices:
\* a plan that is no longer offered cannot be left.
ChangePrices(s) ==
    /\ At(s, "change.prices")
    /\ IF Offered(call[s].from) /\ Offered(call[s].plan) THEN Goto(s, "change.apply") ELSE Done(s)
    /\ UNCHANGED <<Data, queue, mixed, excused, Counters>>

\* ... sp_ChangeSubscriptionPlan, whose text is not in the repository: it
\* gives the tenant the plan and a new period, and inserts the history row.
\* Whether it withdraws a cancellation is left open.
ChangeApply(s) ==
    LET t == call[s].tenant
        p == call[s].plan
    IN  /\ At(s, "change.apply")
        /\ \E requested \in {FALSE, sub[t].requested} :
               sub' = [sub EXCEPT ![t] = [@ EXCEPT !.plan = p, !.status = "active", !.trial = FALSE,
                                                   !.ended = FALSE, !.requested = requested]]
        /\ entry' = [entry EXCEPT ![t] = [to |-> p, paid |-> None]]
        /\ Goto(s, "change.reset")
        /\ UNCHANGED <<plans, active, granted, method, queue, mixed, excused, Counters>>

\* Mutant: the arguments of the procedure are swapped.
ChangeResetToOld(s) ==
    /\ At(s, "change.reset")
    /\ granted' = [granted EXCEPT ![call[s].tenant] = call[s].from]
    /\ Goto(s, "change.history")
    /\ UNCHANGED <<sub, plans, active, entry, method, queue, mixed, excused, Counters>>

\* ... sp_ResetTenantPermissionsOnPlanChange.
ChangeReset(s) ==
    /\ At(s, "change.reset")
    /\ granted' = [granted EXCEPT ![call[s].tenant] = call[s].plan]
    /\ Goto(s, "change.history")
    /\ UNCHANGED <<sub, plans, active, entry, method, queue, mixed, excused, Counters>>

\* ... 'Don't fail the subscription change if permission reset fails'.
ChangeResetFails(s) ==
    /\ At(s, "change.reset")
    /\ faults < MaxFaults
    /\ faults' = faults + 1
    /\ mixed' = mixed \cup {call[s].tenant}
    /\ Goto(s, "change.history")
    /\ UNCHANGED <<Data, queue, excused, calls>>

Paid(s) == call[s].method # None

\* ... UPDATE subscription_history, the latest row, if it is of this plan.
ChangeHistory(s) ==
    LET t == call[s].tenant
    IN  /\ At(s, "change.history")
        /\ entry' = [entry EXCEPT ![t].paid = IF Paid(s) /\ entry[t].to = call[s].plan
                                              THEN call[s].plan ELSE @]
        /\ IF Paid(s) THEN Goto(s, "change.clear") ELSE Done(s)
        /\ UNCHANGED <<sub, plans, active, granted, method, queue, mixed, excused, Counters>>

\* The default flag set to b in the rows of t that are in ms.
SetDefault(ms, t, b) ==
    method' = [m \in Methods |-> IF m \in ms /\ method[m].tenant = t
                                 THEN [method[m] EXCEPT !.default = b] ELSE method[m]]

\* ... UPDATE payment_methods SET is_default = 0.
ChangeClear(s) ==
    /\ At(s, "change.clear")
    /\ SetDefault(Methods, call[s].tenant, FALSE)
    /\ Goto(s, "change.default")
    /\ UNCHANGED <<sub, plans, active, granted, entry, queue, mixed, excused, Counters>>

\* ... and is_default = 1 WHERE id = @paymentMethodId AND tenant_id = @tenantId.
ChangeDefault(s) ==
    /\ At(s, "change.default")
    /\ SetDefault({call[s].method}, call[s].tenant, TRUE)
    /\ Done(s)
    /\ UNCHANGED <<sub, plans, active, granted, entry, queue, mixed, excused, Counters>>

-----------------------------------------------------------------------------
\* cancelSubscription: sp_CancelSubscription, external, at once or at the end
\* of the period.
Cancel(s, t) ==
    /\ Begin(s, Idle)
    /\ \E status \in {sub[t].status, "cancelled"}, renew \in {FALSE, sub[t].renew} :
           sub' = [sub EXCEPT ![t] = [@ EXCEPT !.status = status, !.requested = TRUE, !.renew = renew]]
    /\ UNCHANGED <<plans, active, granted, entry, method, mixed, excused>>

\* reactivateSubscription: 'Subscription is not cancelled'.
ReactivateRead(s, t) ==
    /\ sub[t].status = "cancelled" \/ sub[t].requested
    /\ Begin(s, [pc |-> "reactivate.write", tenant |-> t])
    /\ UNCHANGED <<Data, mixed, excused>>

\* ... the UPDATE has no condition; trial and period stay as they are, so a
\* period that has ended stays active.
ReactivateWrite(s) ==
    /\ At(s, "reactivate.write")
    /\ sub' = [sub EXCEPT ![call[s].tenant] = [@ EXCEPT !.status = "active", !.requested = FALSE,
                                                        !.renew = TRUE]]
    /\ Done(s)
    /\ UNCHANGED <<plans, active, granted, entry, method, queue, mixed, excused, Counters>>

\* createPlan: the one INSERT, with is_active = 1.
CreatePlan(p) ==
    /\ p \in Plans \ plans
    /\ plans' = plans \cup {p} /\ active' = active \cup {p}
    /\ UNCHANGED <<sub, granted, entry, method, call, queue, mixed, excused, Counters>>

-----------------------------------------------------------------------------
\* updatePlan with isActive, and togglePlanStatus.
UpdatePlan(s, p) ==
    /\ p \in plans
    /\ Begin(s, Idle)
    /\ \/ active' = active \cup {p} /\ UNCHANGED excused
       \/ active' = active \ {p} /\ excused' = excused \cup {p}
    /\ UNCHANGED <<sub, plans, granted, entry, method, mixed>>

Towards(p) == \E r \in Slots : call[r].pc \in ChangeSteps /\ call[r].plan = p

\* deletePlan: 'Cannot delete plan that is currently in use by tenants', ...
DeletePlan(s, p) ==
    /\ \A t \in Tenants : sub[t].plan # p
    /\ Begin(s, [pc |-> "delete.write", plan |-> p])
    /\ excused' = excused \cup {q \in {p} : Towards(q)}
    /\ UNCHANGED <<Data, mixed>>

\* ... is_active = 0.
DeleteWrite(s) ==
    /\ At(s, "delete.write")
    /\ active' = active \ {call[s].plan}
    /\ Done(s)
    /\ UNCHANGED <<sub, plans, granted, entry, method, queue, mixed, excused, Counters>>

-----------------------------------------------------------------------------
\* savePaymentMethod with isDefault: the INSERT ...
SaveStart(s, t) ==
    /\ Begin(s, [pc |-> "save.insert", tenant |-> t, method |-> None])
    /\ mixed' = mixed \cup {u \in {t} : \E r \in Slots : Busy(r, u)}
    /\ UNCHANGED <<Data, excused>>

SaveInsert(s) ==
    /\ At(s, "save.insert")
    /\ \E m \in Methods :
           /\ method[m] = NoRow
           /\ method' = [method EXCEPT ![m] = [tenant |-> call[s].tenant, default |-> TRUE]]
           /\ call' = [call EXCEPT ![s].pc = "save.others", ![s].method = m]
    /\ UNCHANGED <<sub, plans, active, granted, entry, queue, mixed, excused, Counters>>

\* ... and the UPDATE of the others.
SaveOthers(s) ==
    /\ At(s, "save.others")
    /\ SetDefault(Methods \ {call[s].method}, call[s].tenant, FALSE)
    /\ Done(s)
    /\ UNCHANGED <<sub, plans, active, granted, entry, queue, mixed, excused, Counters>>

\* deletePaymentMethod.
DeleteMethod(s, m) ==
    /\ method[m] # NoRow
    /\ Begin(s, Idle)
    /\ method' = [method EXCEPT ![m] = NoRow]
    /\ UNCHANGED <<sub, plans, active, granted, entry, mixed, excused>>

-----------------------------------------------------------------------------
\* A trial or a paid period comes to its end.
PeriodEnds(t) ==
    /\ ~sub[t].ended
    /\ sub' = [sub EXCEPT ![t].ended = TRUE]
    /\ UNCHANGED <<plans, active, granted, entry, method, call, queue, mixed, excused, Counters>>

Ended == {t \in Tenants : sub[t].ended}

\* The WHERE clauses of the three daily jobs.
TrialsDue == {t \in Ended : sub[t].trial /\ sub[t].status = "trial"}
PeriodsDue == {t \in Ended : sub[t].status = "active" /\ ~sub[t].renew}

\* Mutant: without subscription_status != 'cancelled'.
CancellationsDueAgain == {t \in Ended : sub[t].requested}

CancellationsDue == {t \in Ended : sub[t].requested /\ sub[t].status # "cancelled"}

Verdict(j) == IF j = "cancellations" THEN "cancelled" ELSE "expired"

\* The UPDATE of job j in the rows that are due, and the mails it then has to
\* send, one for each row in its OUTPUT.
RunJob(j, due) ==
    /\ queue[j] = {}
    /\ due # {}
    /\ sub' = [t \in Tenants |-> IF t \in due THEN [sub[t] EXCEPT !.status = Verdict(j)]
                                 ELSE sub[t]]
    /\ queue' = [queue EXCEPT ![j] = due]
    /\ UNCHANGED <<plans, active, granted, entry, method, call, mixed, excused, Counters>>

CheckExpiredTrials == RunJob("trials", TrialsDue)
CheckExpiredSubscriptions == RunJob("periods", PeriodsDue)
ProcessPendingCancellations == RunJob("cancellations", CancellationsDue)

\* The mail to one of them, sent or given up: the loop goes on.
MailOwner(j, t) ==
    /\ t \in queue[j]
    /\ queue' = [queue EXCEPT ![j] = @ \ {t}]
    /\ UNCHANGED <<Data, call, mixed, excused, Counters>>

-----------------------------------------------------------------------------
Broken(s) == {t \in Tenants : Busy(s, t)}

\* A statement fails for good: its request answers with an error.
Abort(s) ==
    /\ call[s] # Idle
    /\ faults < MaxFaults
    /\ faults' = faults + 1
    /\ mixed' = mixed \cup Broken(s)
    /\ Done(s)
    /\ UNCHANGED <<Data, queue, excused, calls>>

\* The process restarts: requests and unsent mails are gone.
Crash ==
    /\ faults < MaxFaults
    /\ faults' = faults + 1
    /\ mixed' = mixed \cup UNION {Broken(s) : s \in Slots}
    /\ call' = [s \in Slots |-> Idle]
    /\ queue' = [j \in Jobs |-> {}]
    /\ UNCHANGED <<Data, excused, calls>>

Step(s) ==
    \/ ChangeCurrent(s) \/ ChangePrices(s) \/ ChangeApply(s)
    \/ ChangeReset(s) \/ ChangeHistory(s) \/ ChangeClear(s) \/ ChangeDefault(s)
    \/ ReactivateWrite(s) \/ DeleteWrite(s) \/ SaveInsert(s) \/ SaveOthers(s)

Next ==
    \/ \E s \in Slots, t \in Tenants :
           \/ \E p \in Plans, m \in Methods \cup {None} : ChangeStart(s, t, p, m)
           \/ Cancel(s, t) \/ ReactivateRead(s, t) \/ SaveStart(s, t)
    \/ \E p \in Plans : CreatePlan(p)
    \/ \E s \in Slots, p \in Plans : UpdatePlan(s, p) \/ DeletePlan(s, p)
    \/ \E s \in Slots, m \in Methods : DeleteMethod(s, m)
    \/ \E s \in Slots : Step(s) \/ ChangeResetFails(s) \/ Abort(s)
    \/ \E t \in Tenants : PeriodEnds(t)
    \/ CheckExpiredTrials \/ CheckExpiredSubscriptions \/ ProcessPendingCancellations
    \/ \E j \in Jobs, t \in Tenants : MailOwner(j, t)
    \/ Crash

Spec == Init /\ [][Next]_vars

\* Every job runs once a day, and a run gets through its mails.
Fairness ==
    /\ WF_vars(CheckExpiredTrials)
    /\ WF_vars(CheckExpiredSubscriptions)
    /\ WF_vars(ProcessPendingCancellations)
    /\ \A j \in Jobs : WF_vars(\E t \in Tenants : MailOwner(j, t))

FairSpec == Spec /\ Fairness

-----------------------------------------------------------------------------
\* The permissions of a tenant that has changed plan are those of the plan it
\* is on: changeSubscription applies the plan and resets the permissions in two
\* calls, which only two overlapping changes or a failure can tear apart.
PermissionsFollowPlan ==
    \A t \in Tenants : \/ granted[t] \in {None, sub[t].plan}
                       \/ t \in mixed
                       \/ \E s \in Slots : At(s, "change.reset") /\ call[s].tenant = t

\* A payment is never booked on the history row of another plan, however
\* changes of one tenant overlap.
PaymentOnItsPlan == \A t \in Tenants : entry[t].paid \in {None, entry[t].to}

Defaults(t) == {m \in Methods : method[m] = [tenant |-> t, default |-> TRUE]}

\* A tenant has one default payment method, although savePaymentMethod and
\* changeSubscription set the new flag and clear the old ones in two
\* statements, unless two calls of the tenant overlap or one breaks off.
OneDefault ==
    \A t \in Tenants : \/ t \in mixed
                       \/ \E s \in Slots : At(s, "save.others") /\ call[s].tenant = t
                       \/ \A m, n \in Defaults(t) : m = n

\* 'Cannot delete plan that is currently in use': the plan of a tenant is
\* offered, unless an administrator switched it off or deleted it in the
\* middle of a change to it.
InUseIsOffered == \A t \in Tenants : sub[t].plan \in active \cup excused \cup {None}

\* The scheduler tells an owner of an end once: a job queues a mail only when
\* that run took the subscription from another status, whatever the calls do
\* to it between two runs.
MailsForEnds ==
    [][\A j \in Jobs : \A t \in queue'[j] \ queue[j] :
           sub[t].status # Verdict(j) /\ sub'[t].status = Verdict(j)]_vars

\* A cancellation takes effect once the period has ended, unless it is
\* withdrawn or a new period begins, and a trial comes to an end, whatever
\* requests and crashes come between.
CancellationsTakeEffect ==
    \A t \in Tenants :
        sub[t].requested /\ sub[t].ended
            ~> ~sub[t].requested \/ ~sub[t].ended \/ sub[t].status = "cancelled"
TrialsEnd ==
    \A t \in Tenants : sub[t].trial /\ sub[t].ended ~> sub[t].status # "trial"

\* What the calls leave in subscriptions, role permissions, history, payment
\* methods and plans is of its type and fits together.
BillingConsistent ==
    TypeOK /\ PermissionsFollowPlan /\ PaymentOnItsPlan /\ OneDefault /\ InUseIsOffered

\* What is due happens, and is told once.
SchedulerWorks == MailsForEnds /\ CancellationsTakeEffect /\ TrialsEnd
=============================================================================
