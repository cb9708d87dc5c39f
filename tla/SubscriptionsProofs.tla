------------------------- MODULE SubscriptionsProofs -------------------------
(***************************************************************************)
(* What the calls of the subscriptions leave behind fits together, for any *)
(* number of tenants, plans, payment methods and requests: the proof       *)
(* follows each multi-statement call of a tenant that no other call and no *)
(* failure has come into, and the plans from the check of deletePlan to    *)
(* its UPDATE.                                                             *)
(***************************************************************************)
EXTENDS Subscriptions, TLAPS

Calls == Change \cup Save \cup Reactivate \cup Delete \cup {Idle}

\* A tenant none of whose calls overlapped or broke off has one call at most.
Separate == \A t \in Tenants \ mixed, r, s \in Slots : Busy(r, t) /\ Busy(s, t) => r = s

\* Before the permissions are reset the tenant is on the plan they will follow.
Applied == \A s \in Slots : At(s, "change.reset") =>
               call[s].tenant \in mixed \/ sub[call[s].tenant].plan = call[s].plan

\* Before the new default method is set there is none.
Cleared == \A s \in Slots : At(s, "change.default") =>
               call[s].tenant \in mixed \/ Defaults(call[s].tenant) = {}

\* The plan a change goes to is offered, or its end is excused.
Backed == \A s \in Slots : call[s].pc \in ChangeSteps => call[s].plan \in active \cup excused

\* A plan that is about to be deleted is nobody's, and nobody changes to it,
\* unless that is excused.
Unwanted(p) == p \in excused \/ ((\A t \in Tenants : sub[t].plan # p) /\ ~Towards(p))
Deleting == \A s \in Slots : At(s, "delete.write") => Unwanted(call[s].plan)

Permissions == PermissionsFollowPlan /\ Applied
Payments == OneDefault /\ Cleared
PlanUse == InUseIsOffered /\ Backed /\ Deleting

BillingInv == TypeOK /\ Separate /\ Permissions /\ Payments /\ PlanUse /\ PaymentOnItsPlan

-----------------------------------------------------------------------------
LEMMA ChangeShape ==
    ASSUME TypeOK, NEW s \in Slots, call[s].pc \in ChangeSteps
    PROVE  /\ call[s] \in Change /\ call[s].tenant \in Tenants /\ call[s].plan \in Plans
           /\ call[s].method \in Methods \cup {None}
    <1>1. call[s] \in Change
        BY DEF TypeOK, Change, Save, Reactivate, Delete, Idle, ChangeSteps, Writing
    <1> QED
        BY <1>1 DEF Change

LEMMA SaveShape ==
    ASSUME TypeOK, NEW s \in Slots, call[s].pc \in {"save.insert", "save.others"}
    PROVE  /\ call[s] \in Save /\ call[s].tenant \in Tenants
           /\ call[s].method \in Methods \cup {None}
    <1>1. call[s] \in Save
        BY DEF TypeOK, Change, Save, Reactivate, Delete, Idle, ChangeSteps, Writing
    <1> QED
        BY <1>1 DEF Save

LEMMA ReactivateShape ==
    ASSUME TypeOK, NEW s \in Slots, call[s].pc = "reactivate.write"
    PROVE  call[s].tenant \in Tenants
    BY DEF TypeOK, Change, Save, Reactivate, Delete, Idle, ChangeSteps, Writing

LEMMA DeleteShape ==
    ASSUME TypeOK, NEW s \in Slots, call[s].pc = "delete.write"
    PROVE  call[s].plan \in Plans
    BY DEF TypeOK, Change, Save, Reactivate, Delete, Idle, ChangeSteps, Writing

LEMMA BusyShape ==
    ASSUME TypeOK, NEW s \in Slots, NEW t, Busy(s, t)
    PROVE  t \in Tenants
    BY ChangeShape, SaveShape DEF Busy

\* What one slot's step makes of the calls.
LEMMA Assigned ==
    ASSUME TypeOK, NEW s \in Slots, NEW c \in Calls, call' = [call EXCEPT ![s] = c]
    PROVE  /\ call' \in [Slots -> Calls] /\ call'[s] = c
           /\ \A r \in Slots \ {s} : call'[r] = call[r]
    BY DEF TypeOK, Calls

\* A change that goes on to its next step.
LEMMA Advanced ==
    ASSUME TypeOK, NEW s \in Slots, call[s] \in Change, NEW pc \in ChangeSteps, Goto(s, pc)
    PROVE  /\ call' \in [Slots -> Calls]
           /\ call'[s].pc = pc /\ call'[s].tenant = call[s].tenant /\ call'[s].plan = call[s].plan
           /\ call'[s].method = call[s].method
           /\ \A r \in Slots \ {s} : call'[r] = call[r]
    <1>1. [call[s] EXCEPT !.pc = pc] \in Change
        BY DEF Change
    <1>2. call' = [call EXCEPT ![s] = [call[s] EXCEPT !.pc = pc]]
        BY DEF Goto, TypeOK
    <1>3. [call[s] EXCEPT !.pc = pc] \in Calls
        BY <1>1 DEF Calls
    <1>4. /\ call' \in [Slots -> Calls] /\ call'[s] = [call[s] EXCEPT !.pc = pc]
          /\ \A r \in Slots \ {s} : call'[r] = call[r]
        BY <1>2, <1>3, Assigned
    <1> QED
        BY <1>4 DEF Change

LEMMA Over ==
    ASSUME TypeOK, NEW s \in Slots, Done(s)
    PROVE  /\ call' \in [Slots -> Calls] /\ call'[s] = Idle
           /\ \A r \in Slots \ {s} : call'[r] = call[r]
    <1>1. Idle \in Calls
        BY DEF Calls
    <1> QED
        BY <1>1, Assigned DEF Done

LEMMA Typed ==
    ASSUME TypeOK, sub' \in [Tenants -> Subscription], plans' \subseteq Plans,
           active' \subseteq plans', granted' \in [Tenants -> Plans \cup {None}],
           entry' \in [Tenants -> Entry], method' \in [Methods -> Row \cup {NoRow}],
           call' \in [Slots -> Calls], queue' \in [Jobs -> SUBSET Tenants],
           mixed' \subseteq Tenants, excused' \subseteq Plans,
           calls' \in 0..MaxCalls, faults' \in 0..MaxFaults
    PROVE  TypeOK'
    BY DEF TypeOK, Calls

-----------------------------------------------------------------------------
\* The conjuncts of the invariant and what a step has to leave alone for them.
LEMMA SeparateKept ==
    ASSUME Separate, mixed \subseteq mixed',
           \A s \in Slots, t \in Tenants : Busy(s, t)' => Busy(s, t)
    PROVE  Separate'
    BY DEF Separate

LEMMA PermissionsKept ==
    ASSUME TypeOK, Permissions, granted' = granted, mixed \subseteq mixed',
           \A t \in Tenants : sub'[t].plan = sub[t].plan,
           \A s \in Slots : /\ At(s, "change.reset") => \/ call'[s] = call[s]
                                                        \/ call[s].tenant \in mixed'
                            /\ call'[s].pc = "change.reset" => call'[s] = call[s]
    PROVE  Permissions'
    <1>1. PermissionsFollowPlan'
        <2> SUFFICES ASSUME NEW t \in Tenants, t \notin mixed',
                            \A s \in Slots : call'[s].pc = "change.reset" => call'[s].tenant # t
                     PROVE  granted'[t] \in {None, sub'[t].plan}
            BY DEF PermissionsFollowPlan, At
        <2>1. \A s \in Slots : At(s, "change.reset") => call[s].tenant # t
            BY DEF At
        <2> QED
            BY <2>1 DEF Permissions, PermissionsFollowPlan
    <1>2. Applied'
        <2> SUFFICES ASSUME NEW s \in Slots, call'[s].pc = "change.reset",
                            call'[s].tenant \notin mixed'
                     PROVE  sub'[call'[s].tenant].plan = call'[s].plan
            BY DEF Applied, At
        <2>1. call'[s] = call[s] /\ call[s].tenant \notin mixed /\ call[s].tenant \in Tenants
            BY ChangeShape DEF ChangeSteps, Writing
        <2> QED
            BY <2>1 DEF Permissions, Applied, At
    <1> QED
        BY <1>1, <1>2 DEF Permissions

LEMMA PaymentsKept ==
    ASSUME TypeOK, Payments, mixed \subseteq mixed',
           \A t \in Tenants : Defaults(t)' \subseteq Defaults(t),
           \A s \in Slots : /\ At(s, "save.others") => \/ call'[s] = call[s]
                                                       \/ call[s].tenant \in mixed'
                            /\ call'[s].pc = "change.default" => call'[s] = call[s]
    PROVE  Payments'
    <1>1. OneDefault'
        <2> SUFFICES ASSUME NEW t \in Tenants, t \notin mixed',
                            \A s \in Slots : call'[s].pc = "save.others" => call'[s].tenant # t,
                            NEW m \in Defaults(t)', NEW n \in Defaults(t)'
                     PROVE  m = n
            BY DEF OneDefault, At
        <2>1. \A s \in Slots : At(s, "save.others") => call[s].tenant # t
            BY DEF At
        <2>2. m \in Defaults(t) /\ n \in Defaults(t) /\ t \notin mixed
            OBVIOUS
        <2> QED
            BY <2>1, <2>2 DEF Payments, OneDefault
    <1>2. Cleared'
        <2> SUFFICES ASSUME NEW s \in Slots, call'[s].pc = "change.default",
                            call'[s].tenant \notin mixed'
                     PROVE  Defaults(call[s].tenant)' = {}
            BY DEF Cleared, At
        <2>1. call'[s] = call[s] /\ call[s].tenant \notin mixed /\ call[s].tenant \in Tenants
            BY ChangeShape DEF ChangeSteps, Writing
        <2>2. PICK t \in Tenants : t = call[s].tenant
            BY <2>1
        <2>3. Defaults(t) = {}
            BY <2>1, <2>2 DEF Payments, Cleared, At
        <2>4. Defaults(t)' = {}
            BY <2>3
        <2> QED
            BY <2>1, <2>2, <2>4 DEF Defaults
    <1> QED
        BY <1>1, <1>2 DEF Payments

LEMMA PlanUseKept ==
    ASSUME TypeOK, PlanUse, excused \subseteq excused',
           active \cup excused \subseteq active' \cup excused',
           \A t \in Tenants : sub'[t].plan = sub[t].plan,
           \A s \in Slots : /\ call'[s].pc \in ChangeSteps =>
                                   call[s].pc \in ChangeSteps /\ call'[s].plan = call[s].plan
                            /\ call'[s].pc = "delete.write" => call'[s] = call[s]
    PROVE  PlanUse'
    <1>1. InUseIsOffered'
        BY DEF PlanUse, InUseIsOffered
    <1>2. Backed'
        BY DEF PlanUse, Backed
    <1>3. Deleting'
        <2> SUFFICES ASSUME NEW s \in Slots, call'[s].pc = "delete.write"
                     PROVE  Unwanted(call[s].plan)'
            BY DEF Deleting, At
        <2>1. call'[s] = call[s]
            OBVIOUS
        <2>2. Unwanted(call[s].plan)
            BY <2>1 DEF PlanUse, Deleting, At
        <2> QED
            BY <2>1, <2>2 DEF Unwanted, Towards
    <1> QED
        BY <1>1, <1>2, <1>3 DEF PlanUse

\* A step of one slot that touches nothing the other conjuncts are about.
LEMMA Aside ==
    ASSUME BillingInv, TypeOK', PaymentOnItsPlan', NEW s \in Slots,
           \A r \in Slots \ {s} : call'[r] = call[r],
           mixed \subseteq mixed', excused \subseteq excused',
           active \cup excused \subseteq active' \cup excused',
           granted' = granted, \A t \in Tenants : Defaults(t)' \subseteq Defaults(t),
           \A t \in Tenants : sub'[t].plan = sub[t].plan,
           call'[s].pc \notin {"change.reset", "change.default", "delete.write"},
           \A t \in Tenants : Busy(s, t)' => Busy(s, t),
           call'[s].pc \in ChangeSteps => call[s].pc \in ChangeSteps /\ call'[s].plan = call[s].plan,
           At(s, "change.reset") \/ At(s, "save.others") => call[s].tenant \in mixed'
    PROVE  BillingInv'
    <1>1. Separate'
        BY SeparateKept DEF BillingInv, Busy
    <1>2. \A r \in Slots : /\ At(r, "change.reset") => \/ call'[r] = call[r]
                                                       \/ call[r].tenant \in mixed'
                           /\ At(r, "save.others") => \/ call'[r] = call[r]
                                                      \/ call[r].tenant \in mixed'
                           /\ call'[r].pc \in {"change.reset", "change.default", "delete.write"}
                                  => call'[r] = call[r]
                           /\ call'[r].pc \in ChangeSteps =>
                                  call[r].pc \in ChangeSteps /\ call'[r].plan = call[r].plan
        OBVIOUS
    <1>3. Permissions'
        BY <1>2, PermissionsKept DEF BillingInv
    <1>4. Payments'
        BY <1>2, PaymentsKept DEF BillingInv
    <1>5. PlanUse'
        BY <1>2, PlanUseKept DEF BillingInv
    <1> QED
        BY <1>1, <1>3, <1>4, <1>5 DEF BillingInv

\* A step that no request makes, and that touches nothing either.
LEMMA Outside ==
    ASSUME BillingInv, TypeOK', UNCHANGED <<call, granted, entry, method, mixed, excused>>,
           active \subseteq active',
           \A t \in Tenants : sub'[t].plan = sub[t].plan
    PROVE  BillingInv'
    <1>1. Separate'
        BY SeparateKept DEF BillingInv, Busy
    <1>2. Permissions'
        BY PermissionsKept DEF BillingInv
    <1>3. \A t \in Tenants : Defaults(t)' = Defaults(t)
        BY DEF Defaults
    <1>4. Payments'
        BY <1>3, PaymentsKept DEF BillingInv
    <1>5. PlanUse'
        BY PlanUseKept DEF BillingInv
    <1>6. PaymentOnItsPlan'
        BY DEF BillingInv, PaymentOnItsPlan
    <1> QED
        BY <1>1, <1>2, <1>4, <1>5, <1>6 DEF BillingInv

LEMMA SamePayment ==
    ASSUME PaymentOnItsPlan, entry' = entry
    PROVE  PaymentOnItsPlan'
    BY DEF PaymentOnItsPlan

LEMMA SameMethods ==
    ASSUME method' = method
    PROVE  \A t \in Tenants : Defaults(t)' \subseteq Defaults(t)
    BY DEF Defaults

\* A request begins with a free slot.
LEMMA Begun ==
    ASSUME TypeOK, NEW s \in Slots, NEW c \in Calls, Begin(s, c)
    PROVE  /\ call' \in [Slots -> Calls] /\ call[s] = Idle /\ call'[s] = c
           /\ \A r \in Slots \ {s} : call'[r] = call[r]
           /\ calls' \in 0..MaxCalls /\ faults' \in 0..MaxFaults
           /\ queue' \in [Jobs -> SUBSET Tenants]
    <1>1. call[s] = Idle /\ call' = [call EXCEPT ![s] = c] /\ queue' = queue /\ faults' = faults
        BY DEF Begin
    <1>2. calls' \in 0..MaxCalls
        BY BoundsAssumption DEF Begin, TypeOK
    <1> QED
        BY <1>1, <1>2, Assigned DEF TypeOK

LEMMA FreeSlot ==
    /\ Idle \in Calls /\ Idle.pc = "idle"
    /\ "idle" \notin ChangeSteps \cup {"save.insert", "save.others", "delete.write"}
    BY DEF Idle, Calls, ChangeSteps, Writing

-----------------------------------------------------------------------------
\* Requests of one statement.
LEMMA SubShape ==
    ASSUME TypeOK, NEW t \in Tenants
    PROVE  sub[t] \in Subscription
    BY DEF TypeOK

LEMMA Revised ==
    ASSUME NEW r \in Subscription, NEW status \in Statuses, NEW requested \in BOOLEAN,
           NEW renew \in BOOLEAN
    PROVE  [r EXCEPT !.status = status, !.requested = requested, !.renew = renew] \in Subscription
    BY DEF Subscription

LEMMA Cancelling ==
    ASSUME BillingInv, NEW s \in Slots, NEW t \in Tenants, Cancel(s, t)
    PROVE  BillingInv'
    <1>1. /\ Begin(s, Idle)
          /\ UNCHANGED <<plans, active, granted, entry, method, mixed, excused>>
        BY DEF Cancel
    <1>2. PICK status \in Statuses, requested \in BOOLEAN, renew \in BOOLEAN :
              sub' = [sub EXCEPT ![t] = [sub[t] EXCEPT !.status = status, !.requested = requested,
                                                       !.renew = renew]]
        BY DEF Cancel, BillingInv, TypeOK, Subscription, Statuses
    <1>3. [sub[t] EXCEPT !.status = status, !.requested = requested, !.renew = renew]
              \in Subscription
        BY SubShape, Revised DEF BillingInv
    <1>4. sub' \in [Tenants -> Subscription] /\ \A u \in Tenants : sub'[u].plan = sub[u].plan
        BY <1>2, <1>3 DEF BillingInv, TypeOK, Subscription
    <1>5. /\ call' \in [Slots -> Calls] /\ call[s] = Idle /\ call'[s] = Idle
          /\ \A r \in Slots \ {s} : call'[r] = call[r]
          /\ calls' \in 0..MaxCalls /\ faults' \in 0..MaxFaults
          /\ queue' \in [Jobs -> SUBSET Tenants]
        BY <1>1, FreeSlot, Begun DEF BillingInv
    <1>6. TypeOK'
        BY <1>1, <1>4, <1>5, Typed DEF BillingInv, TypeOK
    <1> QED
        BY <1>1, <1>4, <1>5, <1>6, FreeSlot, Aside, SamePayment, SameMethods
        DEF BillingInv, Busy, At

LEMMA Reactivating ==
    ASSUME BillingInv, NEW s \in Slots,
           \/ \E t \in Tenants : ReactivateRead(s, t)
           \/ ReactivateWrite(s)
    PROVE  BillingInv'
    <1>1. ASSUME NEW t \in Tenants, ReactivateRead(s, t) PROVE BillingInv'
        <2> DEFINE c == [pc |-> "reactivate.write", tenant |-> t]
        <2>1. c \in Calls /\ c.pc = "reactivate.write"
            BY DEF Calls, Reactivate
        <2>2. Begin(s, c) /\ UNCHANGED <<Data, mixed, excused>>
            BY <1>1 DEF ReactivateRead
        <2> HIDE DEF c
        <2>3. /\ call' \in [Slots -> Calls] /\ call[s] = Idle /\ call'[s] = c
              /\ \A r \in Slots \ {s} : call'[r] = call[r]
              /\ calls' \in 0..MaxCalls /\ faults' \in 0..MaxFaults
              /\ queue' \in [Jobs -> SUBSET Tenants]
            BY <2>1, <2>2, Begun DEF BillingInv
        <2>4. TypeOK'
            BY <2>2, <2>3, Typed DEF BillingInv, TypeOK, Data
        <2> QED
            BY <2>1, <2>2, <2>3, <2>4, FreeSlot, Aside, SamePayment, SameMethods
            DEF BillingInv, Busy, At, Data, ChangeSteps, Writing
    <1>2. CASE ReactivateWrite(s)
        <2> DEFINE t == call[s].tenant
        <2>1. t \in Tenants /\ call[s].pc = "reactivate.write"
            BY <1>2, ReactivateShape DEF ReactivateWrite, At, BillingInv
        <2>2. /\ UNCHANGED <<plans, active, granted, entry, method, queue, mixed, excused, Counters>>
              /\ sub' = [sub EXCEPT ![t] = [sub[t] EXCEPT !.status = "active", !.requested = FALSE,
                                                          !.renew = TRUE]]
            BY <1>2 DEF ReactivateWrite
        <2>3. [sub[t] EXCEPT !.status = "active", !.requested = FALSE, !.renew = TRUE] \in Subscription
            BY <2>1, SubShape, Revised DEF BillingInv, Statuses
        <2>4. sub' \in [Tenants -> Subscription] /\ \A u \in Tenants : sub'[u].plan = sub[u].plan
            BY <2>1, <2>2, <2>3 DEF BillingInv, TypeOK, Subscription
        <2>5. /\ call' \in [Slots -> Calls] /\ call'[s] = Idle
              /\ \A r \in Slots \ {s} : call'[r] = call[r]
            BY <1>2, Over DEF ReactivateWrite, BillingInv
        <2>6. TypeOK'
            BY <2>2, <2>4, <2>5, Typed DEF BillingInv, TypeOK, Counters
        <2> QED
            BY <2>1, <2>2, <2>4, <2>5, <2>6, FreeSlot, Aside, SamePayment, SameMethods
            DEF BillingInv, Busy, At
    <1> QED
        BY <1>1, <1>2

-----------------------------------------------------------------------------
\* changeSubscription.  A call that begins finds the others of its tenant, and
\* the deletion of the plan it goes to.
LEMMA ChangeStarting ==
    ASSUME BillingInv, NEW s \in Slots, NEW t \in Tenants, NEW p \in Plans,
           NEW m \in Methods \cup {None}, ChangeStart(s, t, p, m)
    PROVE  BillingInv'
    <1> DEFINE c == [pc |-> "change.current", tenant |-> t, plan |-> p, from |-> None,
                     method |-> m]
    <1>1. /\ c \in Calls /\ c.pc = "change.current" /\ c.tenant = t /\ c.plan = p
        BY DEF Calls, Change, ChangeSteps
    <1>2. /\ Begin(s, c) /\ UNCHANGED Data /\ p \in active
          /\ mixed' = mixed \cup {u \in {t} : \E r \in Slots : Busy(r, u)}
          /\ excused' = excused \cup
                 {q \in {p} : \E r \in Slots : At(r, "delete.write") /\ call[r].plan = q}
        BY DEF ChangeStart, Offered
    <1> HIDE DEF c
    <1>3. /\ call' \in [Slots -> Calls] /\ call[s] = Idle /\ call'[s] = c
          /\ \A r \in Slots \ {s} : call'[r] = call[r]
          /\ calls' \in 0..MaxCalls /\ faults' \in 0..MaxFaults
          /\ queue' \in [Jobs -> SUBSET Tenants]
        BY <1>1, <1>2, Begun DEF BillingInv
    <1>4. TypeOK'
        BY <1>2, <1>3, Typed DEF BillingInv, TypeOK, Data
    <1>5. mixed \subseteq mixed' /\ excused \subseteq excused'
        BY <1>2
    <1>6. Separate'
        <2> SUFFICES ASSUME NEW u \in Tenants, u \notin mixed', NEW r \in Slots, NEW q \in Slots,
                            Busy(r, u)', Busy(q, u)'
                     PROVE  r = q
            BY DEF Separate
        <2>1. u # t => Busy(r, u) /\ Busy(q, u)
            BY <1>1, <1>3 DEF Busy
        <2>2. u = t => \A k \in Slots : ~Busy(k, u)
            BY <1>2
        <2>3. u = t => r = s /\ q = s
            BY <1>3, <2>2 DEF Busy
        <2> QED
            BY <1>5, <2>1, <2>3 DEF BillingInv, Separate
    <1>7. Permissions'
        BY <1>1, <1>2, <1>3, <1>5, FreeSlot, PermissionsKept
        DEF BillingInv, Data, At
    <1>8. Payments'
        BY <1>1, <1>2, <1>3, <1>5, FreeSlot, SameMethods, PaymentsKept DEF BillingInv, Data, At
    <1>9. PlanUse'
        <2>1. InUseIsOffered'
            BY <1>2, <1>5 DEF BillingInv, PlanUse, InUseIsOffered, Data
        <2>2. Backed'
            BY <1>1, <1>2, <1>3, <1>5 DEF BillingInv, PlanUse, Backed, Data
        <2>3. ASSUME NEW r \in Slots, call'[r].pc = "delete.write" PROVE Unwanted(call[r].plan)'
            <3>1. call'[r] = call[r] /\ r # s
                BY <1>1, <1>3, <2>3
            <3>2. Unwanted(call[r].plan)
                BY <2>3, <3>1 DEF BillingInv, PlanUse, Deleting, At
            <3>3. CASE call[r].plan = p
                <4>1. p \in excused'
                    BY <1>2, <2>3, <3>1, <3>3 DEF At
                <4> QED
                    BY <3>1, <3>3, <4>1 DEF Unwanted
            <3>4. CASE call[r].plan # p
                <4>1. ~Towards(call[r].plan) => ~Towards(call[r].plan)'
                    BY <1>1, <1>3, <3>1, <3>4 DEF Towards
                <4> QED
                    BY <1>2, <1>5, <3>1, <3>2, <4>1 DEF Unwanted, Data
            <3> QED
                BY <3>3, <3>4
        <2> QED
            BY <2>1, <2>2, <2>3 DEF PlanUse, Deleting, At
    <1> QED
        BY <1>2, <1>4, <1>6, <1>7, <1>8, <1>9, SamePayment DEF BillingInv, Data

\* The reads, and a call that ends after them.
LEMMA ChangeReading ==
    ASSUME BillingInv, NEW s \in Slots, ChangeCurrent(s) \/ ChangePrices(s)
    PROVE  BillingInv'
    <1>1. /\ UNCHANGED <<Data, queue, mixed, excused, Counters>>
          /\ call[s].pc \in {"change.current", "change.prices"}
        BY DEF ChangeCurrent, ChangePrices, At
    <1>2. call[s] \in Change /\ call[s].tenant \in Tenants
        BY <1>1, ChangeShape DEF BillingInv, ChangeSteps
    <1>3. /\ call' \in [Slots -> Calls]
          /\ \/ call'[s] = Idle
             \/ /\ call'[s].pc \in {"change.prices", "change.apply"}
                /\ call'[s].tenant = call[s].tenant /\ call'[s].plan = call[s].plan
          /\ \A r \in Slots \ {s} : call'[r] = call[r]
        <2>1. CASE ChangeCurrent(s)
            <3> DEFINE from == sub[call[s].tenant].plan
                       pc == IF from = None THEN "change.apply" ELSE "change.prices"
                       c == [call[s] EXCEPT !.from = from, !.pc = pc]
            <3>1. from \in Plans \cup {None} /\ pc \in {"change.prices", "change.apply"}
                BY <1>2, SubShape DEF BillingInv, Subscription
            <3>2. call' = [call EXCEPT ![s].from = from, ![s].pc = pc]
                BY <2>1 DEF ChangeCurrent
            <3> HIDE DEF from, pc
            <3>3. call' = [call EXCEPT ![s] = c]
                BY <3>2 DEF BillingInv, TypeOK
            <3>4. /\ c \in Change /\ c.pc = pc /\ c.tenant = call[s].tenant
                  /\ c.plan = call[s].plan
                BY <1>2, <3>1 DEF Change, ChangeSteps
            <3>5. c \in Calls
                BY <3>4 DEF Calls
            <3> HIDE DEF c
            <3> QED
                BY <3>1, <3>3, <3>4, <3>5, Assigned DEF BillingInv
        <2>2. CASE ChangePrices(s)
            BY <1>2, <2>2, Advanced, Over DEF ChangePrices, BillingInv, ChangeSteps
        <2> QED
            BY <2>1, <2>2
    <1>4. TypeOK'
        BY <1>1, <1>3, Typed DEF BillingInv, TypeOK, Data, Counters
    <1> QED
        BY <1>1, <1>3, <1>4, FreeSlot, Aside, SamePayment, SameMethods
        DEF BillingInv, Busy, At, Data, ChangeSteps

\* sp_ChangeSubscriptionPlan: the plan is the one the permissions will follow.
LEMMA ChangeApplying ==
    ASSUME BillingInv, NEW s \in Slots, ChangeApply(s)
    PROVE  BillingInv'
    <1>0. TypeOK /\ call[s].pc = "change.apply"
        BY DEF BillingInv, ChangeApply, At
    <1> SUFFICES ASSUME NEW t \in Tenants, NEW p \in Plans,
                        t = call[s].tenant, p = call[s].plan
                 PROVE  BillingInv'
        BY <1>0, ChangeShape DEF ChangeSteps
    <1>1. PICK requested \in BOOLEAN :
              sub' = [sub EXCEPT ![t] = [sub[t] EXCEPT !.plan = p, !.status = "active",
                                 !.trial = FALSE, !.ended = FALSE, !.requested = requested]]
        BY SubShape DEF ChangeApply, BillingInv, Subscription
    <1>2. /\ entry' = [entry EXCEPT ![t] = [to |-> p, paid |-> None]]
          /\ UNCHANGED <<plans, active, granted, method, queue, mixed, excused, Counters>>
        BY DEF ChangeApply
    <1>3. /\ call' \in [Slots -> Calls]
          /\ call'[s].pc = "change.reset" /\ call'[s].tenant = t /\ call'[s].plan = p
          /\ \A r \in Slots \ {s} : call'[r] = call[r]
        BY <1>0, ChangeShape, Advanced DEF ChangeApply, ChangeSteps, Writing
    <1> DEFINE new == [sub[t] EXCEPT !.plan = p, !.status = "active", !.trial = FALSE,
                                     !.ended = FALSE, !.requested = requested]
    <1>4. new \in Subscription
        <2>1. sub[t] \in Subscription
            BY SubShape DEF BillingInv
        <2> QED
            BY <2>1 DEF Subscription, Statuses
    <1>5. new.plan = p
        BY SubShape DEF BillingInv, Subscription
    <1>6. sub' = [sub EXCEPT ![t] = new]
        BY <1>1
    <1> HIDE DEF new
    <1>7. /\ sub' \in [Tenants -> Subscription] /\ sub'[t].plan = p
          /\ \A u \in Tenants \ {t} : sub'[u] = sub[u]
        BY <1>0, <1>4, <1>5, <1>6 DEF TypeOK
    <1>8. entry' \in [Tenants -> Entry]
        BY <1>0, <1>2 DEF TypeOK, Entry
    <1>9. TypeOK'
        BY <1>0, <1>2, <1>3, <1>7, <1>8, Typed DEF TypeOK, Counters
    <1>10. Busy(s, t)
        BY <1>0 DEF Busy, ChangeSteps
    <1>11. Separate'
        <2>1. \A r \in Slots, u \in Tenants : Busy(r, u)' => Busy(r, u)
            BY <1>0, <1>3 DEF Busy, ChangeSteps
        <2> QED
            BY <1>2, <2>1, SeparateKept DEF BillingInv
    <1>12. Permissions'
        <2>1. PermissionsFollowPlan'
            <3> SUFFICES ASSUME NEW u \in Tenants, u \notin mixed', u # t,
                                \A r \in Slots : call'[r].pc = "change.reset" =>
                                    call'[r].tenant # u
                         PROVE  granted'[u] \in {None, sub'[u].plan}
                BY <1>3 DEF PermissionsFollowPlan, At
            <3>1. \A r \in Slots : At(r, "change.reset") => call[r].tenant # u
                BY <1>0, <1>3 DEF At
            <3> QED
                BY <1>2, <1>7, <3>1 DEF BillingInv, Permissions, PermissionsFollowPlan
        <2>2. Applied'
            <3> SUFFICES ASSUME NEW r \in Slots, r # s, call'[r].pc = "change.reset",
                                call'[r].tenant \notin mixed'
                         PROVE  sub'[call'[r].tenant].plan = call'[r].plan
                BY <1>3, <1>7 DEF Applied, At
            <3>1. call'[r] = call[r] /\ call[r].tenant \in Tenants
                BY <1>0, <1>3, ChangeShape DEF ChangeSteps, Writing
            <3>2. Busy(r, call[r].tenant)
                BY <3>1 DEF Busy, ChangeSteps, Writing
            <3>3. call[r].tenant # t
                BY <1>2, <1>10, <3>1, <3>2 DEF BillingInv, Separate
            <3> QED
                BY <1>2, <1>7, <3>1, <3>3 DEF BillingInv, Permissions, Applied, At
        <2> QED
            BY <2>1, <2>2 DEF Permissions
    <1>13. Payments'
        BY <1>0, <1>2, <1>3, SameMethods, PaymentsKept DEF BillingInv, At
    <1>14. PlanUse'
        <2>1. p \in active \cup excused
            BY <1>0 DEF BillingInv, PlanUse, Backed, ChangeSteps
        <2>2. InUseIsOffered'
            <3> SUFFICES ASSUME NEW u \in Tenants
                         PROVE  sub'[u].plan \in active' \cup excused' \cup {None}
                BY DEF InUseIsOffered
            <3> QED
                BY <1>2, <1>7, <2>1 DEF BillingInv, PlanUse, InUseIsOffered
        <2>3. Backed'
            BY <1>0, <1>2, <1>3, <2>1 DEF BillingInv, PlanUse, Backed
        <2>4. ASSUME NEW r \in Slots, call'[r].pc = "delete.write" PROVE Unwanted(call[r].plan)'
            <3>1. call'[r] = call[r] /\ r # s
                BY <1>3, <2>4
            <3>2. Unwanted(call[r].plan)
                BY <2>4, <3>1 DEF BillingInv, PlanUse, Deleting, At
            <3>3. call[r].plan = p => call[r].plan \in excused
                BY <1>0, <3>2 DEF Unwanted, Towards, ChangeSteps
            <3>4. call[r].plan # p /\ ~Towards(call[r].plan) => ~Towards(call[r].plan)'
                BY <1>3, <3>1 DEF Towards
            <3>5. call[r].plan # p /\ (\A u \in Tenants : sub[u].plan # call[r].plan)
                      => \A u \in Tenants : sub'[u].plan # call[r].plan
                BY <1>7
            <3> QED
                BY <1>2, <3>1, <3>2, <3>3, <3>4, <3>5 DEF Unwanted
        <2> QED
            BY <2>2, <2>3, <2>4 DEF PlanUse, Deleting, At
    <1>15. PaymentOnItsPlan'
        BY <1>0, <1>2 DEF BillingInv, PaymentOnItsPlan, TypeOK
    <1> QED
        BY <1>9, <1>11, <1>12, <1>13, <1>14, <1>15 DEF BillingInv

\* The permissions are reset, or it fails.
LEMMA ChangeResetting ==
    ASSUME BillingInv, NEW s \in Slots, ChangeReset(s)
    PROVE  BillingInv'
    <1>0. TypeOK /\ call[s].pc = "change.reset"
        BY DEF BillingInv, ChangeReset, At
    <1> SUFFICES ASSUME NEW t \in Tenants, NEW p \in Plans,
                        t = call[s].tenant, p = call[s].plan
                 PROVE  BillingInv'
        BY <1>0, ChangeShape DEF ChangeSteps, Writing
    <1>1. /\ granted' = [granted EXCEPT ![t] = p]
          /\ UNCHANGED <<sub, plans, active, entry, method, queue, mixed, excused, Counters>>
        BY DEF ChangeReset
    <1>2. /\ call' \in [Slots -> Calls]
          /\ call'[s].pc = "change.history" /\ call'[s].tenant = t /\ call'[s].plan = p
          /\ \A r \in Slots \ {s} : call'[r] = call[r]
        BY <1>0, ChangeShape, Advanced DEF ChangeReset, ChangeSteps, Writing
    <1>3. TypeOK'
        <2>1. granted' \in [Tenants -> Plans \cup {None}]
            BY <1>0, <1>1 DEF TypeOK
        <2> QED
            BY <1>0, <1>1, <1>2, <2>1, Typed DEF TypeOK, Counters
    <1>4. Separate'
        <2>1. \A r \in Slots, u \in Tenants : Busy(r, u)' => Busy(r, u)
            BY <1>0, <1>2 DEF Busy, ChangeSteps, Writing
        <2> QED
            BY <1>1, <2>1, SeparateKept DEF BillingInv
    <1>5. Permissions'
        <2>1. t \in mixed \/ sub[t].plan = p
            BY <1>0 DEF BillingInv, Permissions, Applied, At
        <2>2. PermissionsFollowPlan'
            <3> SUFFICES ASSUME NEW u \in Tenants, u \notin mixed, u # t,
                                \A r \in Slots : call'[r].pc = "change.reset" =>
                                    call'[r].tenant # u
                         PROVE  granted'[u] \in {None, sub'[u].plan}
                BY <1>0, <1>1, <2>1 DEF PermissionsFollowPlan, At, TypeOK
            <3>1. \A r \in Slots : At(r, "change.reset") => call[r].tenant # u
                BY <1>2 DEF At
            <3>2. granted'[u] = granted[u]
                BY <1>0, <1>1 DEF TypeOK
            <3> QED
                BY <1>1, <3>1, <3>2 DEF BillingInv, Permissions, PermissionsFollowPlan
        <2>3. Applied'
            BY <1>1, <1>2 DEF BillingInv, Permissions, Applied, At
        <2> QED
            BY <2>2, <2>3 DEF Permissions
    <1>6. Payments'
        BY <1>0, <1>1, <1>2, SameMethods, PaymentsKept DEF BillingInv, At
    <1>7. PlanUse'
        BY <1>0, <1>1, <1>2, PlanUseKept DEF BillingInv, ChangeSteps, Writing
    <1> QED
        BY <1>1, <1>3, <1>4, <1>5, <1>6, <1>7, SamePayment DEF BillingInv

LEMMA ChangeResetFailing ==
    ASSUME BillingInv, NEW s \in Slots, ChangeResetFails(s)
    PROVE  BillingInv'
    <1>0. /\ TypeOK /\ call[s].pc = "change.reset" /\ call[s] \in Change
          /\ call[s].tenant \in Tenants
        BY ChangeShape DEF BillingInv, ChangeResetFails, At, ChangeSteps, Writing
    <1>1. /\ mixed' = mixed \cup {call[s].tenant}
          /\ UNCHANGED <<Data, queue, excused, calls>>
        BY DEF ChangeResetFails
    <1>2. /\ call' \in [Slots -> Calls]
          /\ call'[s].pc = "change.history" /\ call'[s].tenant = call[s].tenant
          /\ call'[s].plan = call[s].plan
          /\ \A r \in Slots \ {s} : call'[r] = call[r]
        BY <1>0, Advanced DEF ChangeResetFails, ChangeSteps, Writing
    <1>3. faults' \in 0..MaxFaults
        BY BoundsAssumption DEF BillingInv, TypeOK, ChangeResetFails
    <1>4. TypeOK'
        BY <1>0, <1>1, <1>2, <1>3, Typed DEF TypeOK, Data
    <1> QED
        BY <1>0, <1>1, <1>2, <1>4, Aside, SamePayment, SameMethods
        DEF BillingInv, Busy, At, Data, ChangeSteps, Writing

\* The payment is booked on the history row of its plan.
LEMMA ChangeBooking ==
    ASSUME BillingInv, NEW s \in Slots, ChangeHistory(s)
    PROVE  BillingInv'
    <1>0. /\ TypeOK /\ call[s].pc = "change.history" /\ call[s] \in Change
          /\ call[s].tenant \in Tenants /\ call[s].plan \in Plans
        BY ChangeShape DEF BillingInv, ChangeHistory, At, ChangeSteps, Writing
    <1> DEFINE paid == IF Paid(s) /\ entry[call[s].tenant].to = call[s].plan
                       THEN call[s].plan ELSE entry[call[s].tenant].paid
    <1>1. /\ entry' = [entry EXCEPT ![call[s].tenant].paid = paid]
          /\ UNCHANGED <<sub, plans, active, granted, method, queue, mixed, excused, Counters>>
        BY DEF ChangeHistory
    <1>2. paid \in Plans \cup {None} /\ paid \in {None, entry[call[s].tenant].to}
        <2>1. entry[call[s].tenant] \in Entry
            BY <1>0 DEF TypeOK
        <2>2. entry[call[s].tenant].paid \in {None, entry[call[s].tenant].to}
            BY <1>0 DEF BillingInv, PaymentOnItsPlan
        <2> QED
            BY <1>0, <2>1, <2>2 DEF Entry
    <1> HIDE DEF paid
    <1>3. entry' \in [Tenants -> Entry] /\ PaymentOnItsPlan'
        <2>1. \A u \in Tenants : entry[u] \in Entry
            BY <1>0 DEF TypeOK
        <2>2. [entry[call[s].tenant] EXCEPT !.paid = paid] \in Entry
            BY <1>0, <1>2, <2>1 DEF Entry
        <2>3. entry' = [entry EXCEPT ![call[s].tenant] = [entry[call[s].tenant] EXCEPT !.paid = paid]]
            BY <1>0, <1>1 DEF TypeOK
        <2>4. entry' \in [Tenants -> Entry]
            BY <1>0, <2>2, <2>3 DEF TypeOK
        <2>5. \A u \in Tenants \ {call[s].tenant} : entry'[u] = entry[u]
            BY <1>0, <2>3 DEF TypeOK
        <2>6. entry'[call[s].tenant].paid = paid
              /\ entry'[call[s].tenant].to = entry[call[s].tenant].to
            BY <1>0, <2>1, <2>3 DEF TypeOK, Entry
        <2> QED
            BY <1>0, <1>2, <2>4, <2>5, <2>6 DEF BillingInv, PaymentOnItsPlan
    <1>4. /\ call' \in [Slots -> Calls]
          /\ \/ call'[s] = Idle
             \/ /\ call'[s].pc = "change.clear" /\ call'[s].tenant = call[s].tenant
                /\ call'[s].plan = call[s].plan
          /\ \A r \in Slots \ {s} : call'[r] = call[r]
        <2>1. CASE Paid(s)
            BY <1>0, <2>1, Advanced DEF ChangeHistory, ChangeSteps, Writing
        <2>2. CASE ~Paid(s)
            BY <1>0, <2>2, Over DEF ChangeHistory
        <2> QED
            BY <2>1, <2>2
    <1>5. TypeOK'
        BY <1>0, <1>1, <1>3, <1>4, Typed DEF TypeOK, Counters
    <1> QED
        BY <1>0, <1>1, <1>3, <1>4, <1>5, FreeSlot, Aside, SameMethods
        DEF BillingInv, Busy, At, ChangeSteps, Writing

-----------------------------------------------------------------------------
\* What SetDefault does to the default methods of the tenants.
LEMMA SettingOff ==
    ASSUME TypeOK, NEW ms \in SUBSET Methods, NEW t \in Tenants, SetDefault(ms, t, FALSE)
    PROVE  /\ method' \in [Methods -> Row \cup {NoRow}]
           /\ \A u \in Tenants \ {t} : Defaults(u)' = Defaults(u)
           /\ Defaults(t)' \subseteq Defaults(t) \ ms
    <1>1. ASSUME NEW m \in Methods, m \in ms, method[m].tenant = t
          PROVE  method'[m] = [tenant |-> t, default |-> FALSE] /\ method[m] \in Row
        <2>1. method[m] \in Row
            BY <1>1, IdsAssumption DEF TypeOK, NoRow
        <2>2. method'[m] = [method[m] EXCEPT !.default = FALSE]
            BY <1>1 DEF SetDefault
        <2> QED
            BY <1>1, <2>1, <2>2 DEF Row
    <1>2. \A m \in Methods : ~(m \in ms /\ method[m].tenant = t) => method'[m] = method[m]
        BY DEF SetDefault
    <1>3. \A m \in Methods : method'[m] \in Row \cup {NoRow}
        <2>1. [tenant |-> t, default |-> FALSE] \in Row
            BY DEF Row
        <2> QED
            BY <1>1, <1>2, <2>1 DEF TypeOK
    <1>4. method' \in [Methods -> Row \cup {NoRow}]
        BY <1>3 DEF SetDefault
    <1>5. \A u \in Tenants \ {t}, m \in Methods : m \in Defaults(u)' <=> m \in Defaults(u)
        <2>1. \A u \in Tenants : [tenant |-> u, default |-> TRUE].tenant = u
                                 /\ [tenant |-> t, default |-> FALSE].tenant = t
            OBVIOUS
        <2> QED
            BY <1>1, <1>2, <2>1 DEF Defaults
    <1>6. \A u \in Tenants \ {t} : Defaults(u)' = Defaults(u)
        BY <1>5 DEF Defaults
    <1>7. Defaults(t)' \subseteq Defaults(t) \ ms
        BY <1>1, <1>2 DEF Defaults
    <1> QED
        BY <1>4, <1>6, <1>7

LEMMA SettingOn ==
    ASSUME TypeOK, NEW ms \in SUBSET Methods, NEW t \in Tenants, SetDefault(ms, t, TRUE)
    PROVE  /\ method' \in [Methods -> Row \cup {NoRow}]
           /\ \A u \in Tenants \ {t} : Defaults(u)' = Defaults(u)
           /\ Defaults(t)' \subseteq Defaults(t) \cup ms
    <1>1. ASSUME NEW m \in Methods, m \in ms, method[m].tenant = t
          PROVE  method'[m] = [tenant |-> t, default |-> TRUE] /\ method[m] \in Row
        <2>1. method[m] \in Row
            BY <1>1, IdsAssumption DEF TypeOK, NoRow
        <2>2. method'[m] = [method[m] EXCEPT !.default = TRUE]
            BY <1>1 DEF SetDefault
        <2> QED
            BY <1>1, <2>1, <2>2 DEF Row
    <1>2. \A m \in Methods : ~(m \in ms /\ method[m].tenant = t) => method'[m] = method[m]
        BY DEF SetDefault
    <1>3. \A m \in Methods : method'[m] \in Row \cup {NoRow}
        <2>1. [tenant |-> t, default |-> TRUE] \in Row
            BY DEF Row
        <2> QED
            BY <1>1, <1>2, <2>1 DEF TypeOK
    <1>4. method' \in [Methods -> Row \cup {NoRow}]
        BY <1>3 DEF SetDefault
    <1>5. \A u \in Tenants \ {t}, m \in Methods : m \in Defaults(u)' <=> m \in Defaults(u)
        <2>1. \A u \in Tenants : [tenant |-> u, default |-> TRUE].tenant = u
                                 /\ [tenant |-> t, default |-> TRUE].tenant = t
            OBVIOUS
        <2> QED
            BY <1>1, <1>2, <2>1 DEF Defaults
    <1>6. \A u \in Tenants \ {t} : Defaults(u)' = Defaults(u)
        BY <1>5 DEF Defaults
    <1>7. Defaults(t)' \subseteq Defaults(t) \cup ms
        BY <1>1, <1>2 DEF Defaults
    <1> QED
        BY <1>4, <1>6, <1>7

LEMMA ChangeClearing ==
    ASSUME BillingInv, NEW s \in Slots, ChangeClear(s)
    PROVE  BillingInv'
    <1>0. /\ TypeOK /\ call[s].pc = "change.clear"
        BY DEF BillingInv, ChangeClear, At
    <1> SUFFICES ASSUME NEW t \in Tenants, t = call[s].tenant PROVE BillingInv'
        BY <1>0, ChangeShape DEF ChangeSteps, Writing
    <1>1. /\ SetDefault(Methods, t, FALSE)
          /\ UNCHANGED <<sub, plans, active, granted, entry, queue, mixed, excused, Counters>>
        BY DEF ChangeClear
    <1>2. /\ call' \in [Slots -> Calls]
          /\ call'[s].pc = "change.default" /\ call'[s].tenant = t
          /\ call'[s].plan = call[s].plan
          /\ \A r \in Slots \ {s} : call'[r] = call[r]
        BY <1>0, ChangeShape, Advanced DEF ChangeClear, ChangeSteps, Writing
    <1>3. /\ method' \in [Methods -> Row \cup {NoRow}]
          /\ \A u \in Tenants \ {t} : Defaults(u)' = Defaults(u)
          /\ Defaults(t)' \subseteq Defaults(t) \ Methods
        <2> DEFINE ms == Methods
        <2>1. ms \in SUBSET Methods
            OBVIOUS
        <2>2. SetDefault(ms, t, FALSE)
            BY <1>1
        <2>3. ms = Methods
            OBVIOUS
        <2> HIDE DEF ms
        <2>4. Defaults(t)' \subseteq Defaults(t) \ ms
            BY <1>0, <2>1, <2>2, SettingOff
        <2>5. /\ method' \in [Methods -> Row \cup {NoRow}]
              /\ \A u \in Tenants \ {t} : Defaults(u)' = Defaults(u)
            BY <1>0, <2>1, <2>2, SettingOff
        <2> QED
            BY <2>3, <2>4, <2>5
    <1>4. Defaults(t)' = {}
        BY <1>3 DEF Defaults
    <1>5. TypeOK'
        BY <1>0, <1>1, <1>2, <1>3, Typed DEF TypeOK, Counters
    <1>6. Separate'
        <2>1. \A r \in Slots, u \in Tenants : Busy(r, u)' => Busy(r, u)
            BY <1>0, <1>2 DEF Busy, ChangeSteps, Writing
        <2> QED
            BY <1>1, <2>1, SeparateKept DEF BillingInv
    <1>7. Permissions'
        BY <1>0, <1>1, <1>2, PermissionsKept DEF BillingInv, At
    <1>8. OneDefault'
        <2> SUFFICES ASSUME NEW u \in Tenants, u \notin mixed, u # t,
                            \A r \in Slots : call'[r].pc = "save.others" => call'[r].tenant # u,
                            NEW m \in Defaults(u)', NEW n \in Defaults(u)'
                     PROVE  m = n
            BY <1>1, <1>4 DEF OneDefault, At
        <2>1. \A r \in Slots : At(r, "save.others") => call[r].tenant # u
            BY <1>0, <1>2 DEF At
        <2>2. m \in Defaults(u) /\ n \in Defaults(u)
            BY <1>3
        <2> QED
            BY <2>1, <2>2 DEF BillingInv, Payments, OneDefault
    <1>9. Cleared'
        <2> SUFFICES ASSUME NEW r \in Slots, call'[r].pc = "change.default",
                            NEW u \in Tenants, u = call'[r].tenant, u \notin mixed
                     PROVE  Defaults(u)' = {}
            <3>1. \A r \in Slots : call'[r].pc = "change.default" => call'[r].tenant \in Tenants
                BY <1>0, <1>2, ChangeShape DEF ChangeSteps, Writing
            <3> QED
                BY <1>1, <3>1 DEF Cleared, At, Defaults
        <2>1. CASE u = t
            BY <1>4, <2>1
        <2>2. CASE u # t
            <3>1. At(r, "change.default") /\ call[r].tenant = u
                BY <1>2, <2>2 DEF At
            <3>2. Defaults(u) = {}
                BY <3>1 DEF BillingInv, Payments, Cleared
            <3> QED
                BY <1>3, <2>2, <3>2
        <2> QED
            BY <2>1, <2>2
    <1>10. PlanUse'
        BY <1>0, <1>1, <1>2, PlanUseKept DEF BillingInv, ChangeSteps, Writing
    <1> QED
        BY <1>1, <1>5, <1>6, <1>7, <1>8, <1>9, <1>10, SamePayment DEF BillingInv, Payments

LEMMA ChangeDefaulting ==
    ASSUME BillingInv, NEW s \in Slots, ChangeDefault(s)
    PROVE  BillingInv'
    <1>0. /\ TypeOK /\ call[s].pc = "change.default"
        BY DEF BillingInv, ChangeDefault, At
    <1> SUFFICES ASSUME NEW t \in Tenants, t = call[s].tenant PROVE BillingInv'
        BY <1>0, ChangeShape DEF ChangeSteps, Writing
    <1> DEFINE ms == {call[s].method} \cap Methods
    <1>1. /\ SetDefault(ms, t, TRUE)
          /\ UNCHANGED <<sub, plans, active, granted, entry, queue, mixed, excused, Counters>>
        BY DEF ChangeDefault, SetDefault
    <1>2. /\ call' \in [Slots -> Calls] /\ call'[s] = Idle
          /\ \A r \in Slots \ {s} : call'[r] = call[r]
        BY <1>0, Over DEF ChangeDefault
    <1>3. /\ method' \in [Methods -> Row \cup {NoRow}]
          /\ \A u \in Tenants \ {t} : Defaults(u)' = Defaults(u)
          /\ Defaults(t)' \subseteq Defaults(t) \cup ms
        <2>1. ms \in SUBSET Methods
            OBVIOUS
        <2>2. SetDefault(ms, t, TRUE)
            BY <1>1
        <2> HIDE DEF ms
        <2> QED
            BY <1>0, <2>1, <2>2, SettingOn
    <1>4. t \in mixed \/ Defaults(t)' \subseteq {call[s].method}
        BY <1>0, <1>3 DEF BillingInv, Payments, Cleared, At
    <1>5. TypeOK'
        BY <1>0, <1>1, <1>2, <1>3, Typed DEF TypeOK, Counters
    <1>6. Separate'
        <2>1. \A r \in Slots, u \in Tenants : Busy(r, u)' => Busy(r, u)
            BY <1>2, FreeSlot DEF Busy
        <2> QED
            BY <1>1, <2>1, SeparateKept DEF BillingInv
    <1>7. Permissions'
        BY <1>0, <1>1, <1>2, FreeSlot, PermissionsKept DEF BillingInv, At
    <1>8. OneDefault'
        <2> SUFFICES ASSUME NEW u \in Tenants, u \notin mixed,
                            \A r \in Slots : call'[r].pc = "save.others" => call'[r].tenant # u,
                            NEW m \in Defaults(u)', NEW n \in Defaults(u)'
                     PROVE  m = n
            BY <1>1 DEF OneDefault, At
        <2>1. CASE u = t
            BY <1>4, <2>1
        <2>2. CASE u # t
            <3>1. \A r \in Slots : At(r, "save.others") => call[r].tenant # u
                BY <1>0, <1>2 DEF At
            <3>2. m \in Defaults(u) /\ n \in Defaults(u)
                BY <1>3, <2>2
            <3> QED
                BY <3>1, <3>2 DEF BillingInv, Payments, OneDefault
        <2> QED
            BY <2>1, <2>2
    <1>9. Cleared'
        <2> SUFFICES ASSUME NEW r \in Slots, call'[r].pc = "change.default",
                            NEW u \in Tenants, u = call'[r].tenant, u \notin mixed
                     PROVE  Defaults(u)' = {}
            <3>1. \A r \in Slots : call'[r].pc = "change.default" => call'[r].tenant \in Tenants
                BY <1>0, <1>2, FreeSlot, ChangeShape DEF ChangeSteps, Writing
            <3> QED
                BY <1>1, <3>1 DEF Cleared, At, Defaults
        <2>1. r # s /\ call'[r] = call[r]
            BY <1>2, FreeSlot
        <2>2. Busy(r, u) /\ Busy(s, t)
            BY <1>0, <2>1 DEF Busy, ChangeSteps, Writing
        <2>3. u # t
            BY <2>1, <2>2 DEF BillingInv, Separate
        <2>4. Defaults(u) = {}
            BY <2>1 DEF BillingInv, Payments, Cleared, At
        <2> QED
            BY <1>3, <2>3, <2>4
    <1>10. PlanUse'
        BY <1>0, <1>1, <1>2, FreeSlot, PlanUseKept DEF BillingInv
    <1> QED
        BY <1>1, <1>5, <1>6, <1>7, <1>8, <1>9, <1>10, SamePayment DEF BillingInv, Payments

-----------------------------------------------------------------------------
\* savePaymentMethod.
LEMMA SaveStarting ==
    ASSUME BillingInv, NEW s \in Slots, NEW t \in Tenants, SaveStart(s, t)
    PROVE  BillingInv'
    <1> DEFINE c == [pc |-> "save.insert", tenant |-> t, method |-> None]
    <1>1. c \in Calls /\ c.pc = "save.insert" /\ c.tenant = t
        BY DEF Calls, Save
    <1>2. /\ Begin(s, c) /\ UNCHANGED <<Data, excused>>
          /\ mixed' = mixed \cup {u \in {t} : \E r \in Slots : Busy(r, u)}
        BY DEF SaveStart
    <1> HIDE DEF c
    <1>3. /\ call' \in [Slots -> Calls] /\ call[s] = Idle /\ call'[s] = c
          /\ \A r \in Slots \ {s} : call'[r] = call[r]
          /\ calls' \in 0..MaxCalls /\ faults' \in 0..MaxFaults
          /\ queue' \in [Jobs -> SUBSET Tenants]
        BY <1>1, <1>2, Begun DEF BillingInv
    <1>4. TypeOK'
        BY <1>2, <1>3, Typed DEF BillingInv, TypeOK, Data
    <1>5. mixed \subseteq mixed'
        BY <1>2
    <1>6. Separate'
        <2> SUFFICES ASSUME NEW u \in Tenants, u \notin mixed', NEW r \in Slots, NEW q \in Slots,
                            Busy(r, u)', Busy(q, u)'
                     PROVE  r = q
            BY DEF Separate
        <2>1. u # t => Busy(r, u) /\ Busy(q, u)
            BY <1>1, <1>3 DEF Busy
        <2>2. u = t => \A k \in Slots : ~Busy(k, u)
            BY <1>2
        <2>3. u = t => r = s /\ q = s
            BY <1>3, <2>2 DEF Busy
        <2> QED
            BY <1>5, <2>1, <2>3 DEF BillingInv, Separate
    <1>7. Permissions'
        BY <1>1, <1>2, <1>3, <1>5, FreeSlot, PermissionsKept DEF BillingInv, Data, At
    <1>8. Payments'
        BY <1>1, <1>2, <1>3, <1>5, FreeSlot, SameMethods, PaymentsKept DEF BillingInv, Data, At
    <1>9. PlanUse'
        BY <1>1, <1>2, <1>3, PlanUseKept DEF BillingInv, Data, ChangeSteps, Writing
    <1> QED
        BY <1>2, <1>4, <1>6, <1>7, <1>8, <1>9, SamePayment DEF BillingInv, Data

LEMMA SaveInserting ==
    ASSUME BillingInv, NEW s \in Slots, SaveInsert(s)
    PROVE  BillingInv'
    <1>0. /\ TypeOK /\ call[s].pc = "save.insert" /\ call[s] \in Save
        BY SaveShape DEF BillingInv, SaveInsert, At
    <1> SUFFICES ASSUME NEW t \in Tenants, t = call[s].tenant PROVE BillingInv'
        BY <1>0, SaveShape
    <1>1. UNCHANGED <<sub, plans, active, granted, entry, queue, mixed, excused, Counters>>
        BY DEF SaveInsert
    <1>2. PICK m \in Methods :
              /\ method' = [method EXCEPT ![m] = [tenant |-> t, default |-> TRUE]]
              /\ call' = [call EXCEPT ![s].pc = "save.others", ![s].method = m]
        BY DEF SaveInsert
    <1>3. /\ call' \in [Slots -> Calls]
          /\ call'[s].pc = "save.others" /\ call'[s].tenant = t
          /\ \A r \in Slots \ {s} : call'[r] = call[r]
        <2> DEFINE c == [call[s] EXCEPT !.pc = "save.others", !.method = m]
        <2>1. c \in Save /\ c.pc = "save.others" /\ c.tenant = t
            BY <1>0 DEF Save
        <2>2. call' = [call EXCEPT ![s] = c]
            BY <1>0, <1>2 DEF TypeOK
        <2>3. c \in Calls
            BY <2>1 DEF Calls
        <2> HIDE DEF c
        <2> QED
            BY <1>0, <2>1, <2>2, <2>3, Assigned
    <1>4. method' \in [Methods -> Row \cup {NoRow}]
        <2>1. [tenant |-> t, default |-> TRUE] \in Row
            BY DEF Row
        <2> QED
            BY <1>0, <1>2, <2>1 DEF TypeOK
    <1>5. \A u \in Tenants \ {t} : Defaults(u)' \subseteq Defaults(u)
        <2>1. \A u \in Tenants \ {t} : [tenant |-> t, default |-> TRUE]
                                           # [tenant |-> u, default |-> TRUE]
            <3>1. \A u \in Tenants : [tenant |-> u, default |-> TRUE].tenant = u
                OBVIOUS
            <3> QED
                BY <3>1
        <2> QED
            BY <1>0, <1>2, <2>1 DEF Defaults, TypeOK
    <1>6. TypeOK'
        BY <1>0, <1>1, <1>3, <1>4, Typed DEF TypeOK, Counters
    <1>7. Separate'
        <2>1. \A r \in Slots, u \in Tenants : Busy(r, u)' => Busy(r, u)
            BY <1>0, <1>3 DEF Busy
        <2> QED
            BY <1>1, <2>1, SeparateKept DEF BillingInv
    <1>8. Permissions'
        BY <1>0, <1>1, <1>3, PermissionsKept DEF BillingInv, At
    <1>9. OneDefault'
        <2> SUFFICES ASSUME NEW u \in Tenants, u \notin mixed, u # t,
                            \A r \in Slots : call'[r].pc = "save.others" => call'[r].tenant # u,
                            NEW k \in Defaults(u)', NEW n \in Defaults(u)'
                     PROVE  k = n
            BY <1>1, <1>3 DEF OneDefault, At
        <2>1. \A r \in Slots : At(r, "save.others") => call[r].tenant # u
            BY <1>0, <1>3 DEF At
        <2>2. k \in Defaults(u) /\ n \in Defaults(u)
            BY <1>5
        <2> QED
            BY <2>1, <2>2 DEF BillingInv, Payments, OneDefault
    <1>10. Cleared'
        <2> SUFFICES ASSUME NEW r \in Slots, call'[r].pc = "change.default",
                            NEW u \in Tenants, u = call'[r].tenant, u \notin mixed
                     PROVE  Defaults(u)' = {}
            <3>1. \A r \in Slots : call'[r].pc = "change.default" => call'[r].tenant \in Tenants
                BY <1>0, <1>3, ChangeShape DEF ChangeSteps, Writing
            <3> QED
                BY <1>1, <3>1 DEF Cleared, At, Defaults
        <2>1. r # s /\ call'[r] = call[r]
            BY <1>3
        <2>2. Busy(r, u) /\ Busy(s, t)
            BY <1>0, <2>1 DEF Busy, ChangeSteps, Writing
        <2>3. u # t
            BY <2>1, <2>2 DEF BillingInv, Separate
        <2>4. Defaults(u) = {}
            BY <2>1 DEF BillingInv, Payments, Cleared, At
        <2> QED
            BY <1>5, <2>3, <2>4
    <1>11. PlanUse'
        BY <1>0, <1>1, <1>3, PlanUseKept DEF BillingInv, ChangeSteps, Writing
    <1> QED
        BY <1>1, <1>6, <1>7, <1>8, <1>9, <1>10, <1>11, SamePayment DEF BillingInv, Payments

LEMMA SaveFinishing ==
    ASSUME BillingInv, NEW s \in Slots, SaveOthers(s)
    PROVE  BillingInv'
    <1>0. /\ TypeOK /\ call[s].pc = "save.others"
        BY DEF BillingInv, SaveOthers, At
    <1> SUFFICES ASSUME NEW t \in Tenants, t = call[s].tenant PROVE BillingInv'
        BY <1>0, SaveShape
    <1> DEFINE ms == Methods \ {call[s].method}
    <1>1. /\ SetDefault(ms, t, FALSE)
          /\ UNCHANGED <<sub, plans, active, granted, entry, queue, mixed, excused, Counters>>
        BY DEF SaveOthers
    <1>2. /\ call' \in [Slots -> Calls] /\ call'[s] = Idle
          /\ \A r \in Slots \ {s} : call'[r] = call[r]
        BY <1>0, Over DEF SaveOthers
    <1>3. /\ method' \in [Methods -> Row \cup {NoRow}]
          /\ \A u \in Tenants \ {t} : Defaults(u)' = Defaults(u)
          /\ Defaults(t)' \subseteq Defaults(t) \ ms
        <2>1. ms \in SUBSET Methods
            OBVIOUS
        <2>2. SetDefault(ms, t, FALSE)
            BY <1>1
        <2> HIDE DEF ms
        <2> QED
            BY <1>0, <2>1, <2>2, SettingOff
    <1>4. \A m, n \in Defaults(t)' : m = n
        BY <1>3 DEF Defaults
    <1>5. \A u \in Tenants : Defaults(u)' \subseteq Defaults(u)
        BY <1>3
    <1>6. TypeOK'
        BY <1>0, <1>1, <1>2, <1>3, Typed DEF TypeOK, Counters
    <1>7. Separate'
        <2>1. \A r \in Slots, u \in Tenants : Busy(r, u)' => Busy(r, u)
            BY <1>2, FreeSlot DEF Busy
        <2> QED
            BY <1>1, <2>1, SeparateKept DEF BillingInv
    <1>8. Permissions'
        BY <1>0, <1>1, <1>2, FreeSlot, PermissionsKept DEF BillingInv, At
    <1>9. OneDefault'
        <2> SUFFICES ASSUME NEW u \in Tenants, u \notin mixed,
                            \A r \in Slots : call'[r].pc = "save.others" => call'[r].tenant # u,
                            NEW m \in Defaults(u)', NEW n \in Defaults(u)'
                     PROVE  m = n
            BY <1>1 DEF OneDefault, At
        <2>1. CASE u = t
            BY <1>4, <2>1
        <2>2. CASE u # t
            <3>1. \A r \in Slots : At(r, "save.others") => call[r].tenant # u
                BY <1>2, <2>2 DEF At
            <3>2. m \in Defaults(u) /\ n \in Defaults(u)
                BY <1>5
            <3> QED
                BY <3>1, <3>2 DEF BillingInv, Payments, OneDefault
        <2> QED
            BY <2>1, <2>2
    <1>10. Cleared'
        <2> SUFFICES ASSUME NEW r \in Slots, call'[r].pc = "change.default",
                            NEW u \in Tenants, u = call'[r].tenant, u \notin mixed
                     PROVE  Defaults(u)' = {}
            <3>1. \A r \in Slots : call'[r].pc = "change.default" => call'[r].tenant \in Tenants
                BY <1>0, <1>2, FreeSlot, ChangeShape DEF ChangeSteps, Writing
            <3> QED
                BY <1>1, <3>1 DEF Cleared, At, Defaults
        <2>1. call'[r] = call[r]
            BY <1>2, FreeSlot
        <2>2. Defaults(u) = {}
            BY <2>1 DEF BillingInv, Payments, Cleared, At
        <2> QED
            BY <1>5, <2>2
    <1>11. PlanUse'
        BY <1>0, <1>1, <1>2, FreeSlot, PlanUseKept DEF BillingInv
    <1> QED
        BY <1>1, <1>6, <1>7, <1>8, <1>9, <1>10, <1>11, SamePayment DEF BillingInv, Payments

LEMMA MethodDeleting ==
    ASSUME BillingInv, NEW s \in Slots, NEW m \in Methods, DeleteMethod(s, m)
    PROVE  BillingInv'
    <1>1. /\ Begin(s, Idle) /\ method' = [method EXCEPT ![m] = NoRow]
          /\ UNCHANGED <<sub, plans, active, granted, entry, mixed, excused>>
        BY DEF DeleteMethod
    <1>2. /\ call' \in [Slots -> Calls] /\ call[s] = Idle /\ call'[s] = Idle
          /\ \A r \in Slots \ {s} : call'[r] = call[r]
          /\ calls' \in 0..MaxCalls /\ faults' \in 0..MaxFaults
          /\ queue' \in [Jobs -> SUBSET Tenants]
        BY <1>1, FreeSlot, Begun DEF BillingInv
    <1>3. \A t \in Tenants : NoRow # [tenant |-> t, default |-> TRUE]
        <2>1. \A t \in Tenants : [tenant |-> t, default |-> TRUE].tenant = t
            OBVIOUS
        <2>2. NoRow.tenant = None
            BY DEF NoRow
        <2> QED
            BY <2>1, <2>2, IdsAssumption
    <1>4. \A t \in Tenants : Defaults(t)' \subseteq Defaults(t)
        BY <1>1, <1>3 DEF Defaults, BillingInv, TypeOK
    <1>5. method' \in [Methods -> Row \cup {NoRow}]
        BY <1>1 DEF BillingInv, TypeOK
    <1>6. TypeOK'
        BY <1>1, <1>2, <1>5, Typed DEF BillingInv, TypeOK
    <1> QED
        BY <1>1, <1>2, <1>4, <1>6, FreeSlot, Aside, SamePayment DEF BillingInv, Busy, At

-----------------------------------------------------------------------------
\* The administrators' calls.
LEMMA PlanCreating ==
    ASSUME BillingInv, NEW p \in Plans, CreatePlan(p)
    PROVE  BillingInv'
    <1>1. /\ plans' = plans \cup {p} /\ active' = active \cup {p}
          /\ UNCHANGED <<sub, granted, entry, method, call, queue, mixed, excused, Counters>>
        BY DEF CreatePlan
    <1>2. plans' \subseteq Plans /\ active' \subseteq plans'
        BY <1>1 DEF BillingInv, TypeOK
    <1>3. TypeOK'
        BY <1>1, <1>2, Typed DEF BillingInv, TypeOK, Calls, Counters
    <1> QED
        BY <1>1, <1>3, Outside

LEMMA PlanUpdating ==
    ASSUME BillingInv, NEW s \in Slots, NEW p \in Plans, UpdatePlan(s, p)
    PROVE  BillingInv'
    <1>1. /\ p \in plans /\ Begin(s, Idle)
          /\ UNCHANGED <<sub, plans, granted, entry, method, mixed>>
        BY DEF UpdatePlan
    <1>2. /\ active' \subseteq plans' /\ excused' \subseteq Plans
          /\ excused \subseteq excused' /\ active \cup excused \subseteq active' \cup excused'
        BY <1>1 DEF UpdatePlan, BillingInv, TypeOK
    <1>3. /\ call' \in [Slots -> Calls] /\ call[s] = Idle /\ call'[s] = Idle
          /\ \A r \in Slots \ {s} : call'[r] = call[r]
          /\ calls' \in 0..MaxCalls /\ faults' \in 0..MaxFaults
          /\ queue' \in [Jobs -> SUBSET Tenants]
        BY <1>1, FreeSlot, Begun DEF BillingInv
    <1>4. TypeOK'
        BY <1>1, <1>2, <1>3, Typed DEF BillingInv, TypeOK
    <1> QED
        BY <1>1, <1>2, <1>3, <1>4, FreeSlot, SameMethods, Aside, SamePayment
           DEF BillingInv, Busy, At

LEMMA PlanChecking ==
    ASSUME BillingInv, NEW s \in Slots, NEW p \in Plans, DeletePlan(s, p)
    PROVE  BillingInv'
    <1> DEFINE c == [pc |-> "delete.write", plan |-> p]
    <1>1. c \in Calls /\ c.pc = "delete.write" /\ c.plan = p
        BY DEF Calls, Delete
    <1>2. /\ \A t \in Tenants : sub[t].plan # p
          /\ Begin(s, c) /\ UNCHANGED <<Data, mixed>>
          /\ excused' = excused \cup {q \in {p} : Towards(q)}
        BY DEF DeletePlan
    <1> HIDE DEF c
    <1>3. /\ call' \in [Slots -> Calls] /\ call[s] = Idle /\ call'[s] = c
          /\ \A r \in Slots \ {s} : call'[r] = call[r]
          /\ calls' \in 0..MaxCalls /\ faults' \in 0..MaxFaults
          /\ queue' \in [Jobs -> SUBSET Tenants]
        BY <1>1, <1>2, Begun DEF BillingInv
    <1>4. excused \subseteq excused' /\ excused' \subseteq Plans
        BY <1>2 DEF BillingInv, TypeOK
    <1>5. TypeOK'
        BY <1>2, <1>3, <1>4, Typed DEF BillingInv, TypeOK, Data
    <1>6. "delete.write" \notin ChangeSteps \cup {"save.insert", "save.others", "idle"}
        BY DEF ChangeSteps, Writing
    <1>7. Separate'
        <2>1. \A r \in Slots, u \in Tenants : Busy(r, u)' => Busy(r, u)
            BY <1>1, <1>3, <1>6 DEF Busy
        <2> QED
            BY <1>2, <2>1, SeparateKept DEF BillingInv
    <1>8. Permissions'
        BY <1>1, <1>2, <1>3, <1>6, FreeSlot, PermissionsKept DEF BillingInv, Data, At
    <1>9. Payments'
        BY <1>1, <1>2, <1>3, <1>6, FreeSlot, SameMethods, PaymentsKept DEF BillingInv, Data, At
    <1>10. InUseIsOffered' /\ Backed'
        <2>1. sub' = sub /\ active' = active
            BY <1>2 DEF Data
        <2>2. \A r \in Slots : call'[r].pc \in ChangeSteps => call'[r] = call[r]
            BY <1>1, <1>3, <1>6
        <2> QED
            BY <1>4, <2>1, <2>2 DEF BillingInv, PlanUse, InUseIsOffered, Backed
    <1>11. Deleting'
        <2>1. \A r \in Slots : call'[r].pc \in ChangeSteps => call'[r] = call[r]
            BY <1>1, <1>3, <1>6
        <2>2. \A q \in Plans : Unwanted(q) => Unwanted(q)'
            BY <1>2, <1>4, <2>1 DEF Unwanted, Towards, Data
        <2>3. Unwanted(p)'
            <3>1. CASE Towards(p)
                BY <1>2, <3>1 DEF Unwanted
            <3>2. CASE ~Towards(p)
                BY <1>2, <2>1, <3>2 DEF Unwanted, Towards, Data
            <3> QED
                BY <3>1, <3>2
        <2> SUFFICES ASSUME NEW r \in Slots, call'[r].pc = "delete.write",
                            NEW q \in Plans, q = call'[r].plan
                     PROVE  Unwanted(q)'
            <3>1. \A r \in Slots : call'[r].pc = "delete.write" => call'[r].plan \in Plans
                BY <1>1, <1>3, DeleteShape DEF BillingInv
            <3> QED
                BY <3>1 DEF Deleting, At, Unwanted, Towards
        <2>4. r # s => At(r, "delete.write") /\ q = call[r].plan
            BY <1>3 DEF At
        <2>5. r = s => q = p
            BY <1>1, <1>3
        <2> QED
            BY <2>2, <2>3, <2>4, <2>5 DEF BillingInv, PlanUse, Deleting
    <1> QED
        BY <1>2, <1>5, <1>7, <1>8, <1>9, <1>10, <1>11, SamePayment
           DEF BillingInv, PlanUse, Data

LEMMA PlanDeleting ==
    ASSUME BillingInv, NEW s \in Slots, DeleteWrite(s)
    PROVE  BillingInv'
    <1>0. TypeOK /\ call[s].pc = "delete.write" /\ call[s].plan \in Plans
        BY DeleteShape DEF BillingInv, DeleteWrite, At
    <1> SUFFICES ASSUME NEW p \in Plans, p = call[s].plan PROVE BillingInv'
        BY <1>0
    <1>1. /\ active' = active \ {p}
          /\ UNCHANGED <<sub, plans, granted, entry, method, queue, mixed, excused, Counters>>
        BY DEF DeleteWrite
    <1>2. /\ call' \in [Slots -> Calls] /\ call'[s] = Idle
          /\ \A r \in Slots \ {s} : call'[r] = call[r]
        BY <1>0, Over DEF DeleteWrite
    <1>3. TypeOK'
        BY <1>0, <1>1, <1>2, Typed DEF TypeOK, Counters
    <1>4. \A r \in Slots : call'[r] # call[r] => r = s /\ call'[r].pc = "idle"
        BY <1>2, FreeSlot
    <1>5. Separate'
        <2>1. \A r \in Slots, u \in Tenants : Busy(r, u)' => Busy(r, u)
            BY <1>2, FreeSlot DEF Busy
        <2> QED
            BY <1>1, <2>1, SeparateKept DEF BillingInv
    <1>6. Permissions'
        BY <1>0, <1>1, <1>4, PermissionsKept DEF BillingInv, At
    <1>7. Payments'
        BY <1>0, <1>1, <1>4, SameMethods, PaymentsKept DEF BillingInv, At
    <1>8. p \in excused \/ ((\A t \in Tenants : sub[t].plan # p) /\ ~Towards(p))
        BY <1>0 DEF BillingInv, PlanUse, Deleting, Unwanted, At
    <1>9. \A r \in Slots : call'[r].pc \in ChangeSteps \cup {"delete.write"} => call'[r] = call[r]
        BY <1>4, FreeSlot
    <1>10. InUseIsOffered'
        BY <1>1, <1>8 DEF BillingInv, PlanUse, InUseIsOffered
    <1>11. Backed'
        BY <1>1, <1>8, <1>9 DEF BillingInv, PlanUse, Backed, Towards
    <1>12. Deleting'
        <2>1. \A q : Unwanted(q) => (q \in excused' \/ ((\A t \in Tenants : sub'[t].plan # q)
                          /\ ~\E r \in Slots : call'[r].pc \in ChangeSteps /\ call'[r].plan = q))
            BY <1>1, <1>9 DEF Unwanted, Towards
        <2> QED
            BY <1>9, <2>1 DEF BillingInv, PlanUse, Deleting, At, Unwanted, Towards
    <1> QED
        BY <1>1, <1>3, <1>5, <1>6, <1>7, <1>10, <1>11, <1>12, SamePayment DEF BillingInv, PlanUse

-----------------------------------------------------------------------------
\* The scheduler, its mails, and what goes wrong.
LEMMA PeriodEnding ==
    ASSUME BillingInv, NEW t \in Tenants, PeriodEnds(t)
    PROVE  BillingInv'
    <1>1. /\ sub' = [sub EXCEPT ![t].ended = TRUE]
          /\ UNCHANGED <<plans, active, granted, entry, method, call, queue, mixed, excused,
                         Counters>>
        BY DEF PeriodEnds
    <1>2. \A u \in Tenants : sub[u] \in Subscription
        BY SubShape DEF BillingInv
    <1>3. sub' \in [Tenants -> Subscription] /\ \A u \in Tenants : sub'[u].plan = sub[u].plan
        BY <1>1, <1>2 DEF BillingInv, TypeOK, Subscription
    <1>4. TypeOK'
        BY <1>1, <1>3, Typed DEF BillingInv, TypeOK, Calls, Counters
    <1> QED
        BY <1>1, <1>3, <1>4, Outside

LEMMA JobRunning ==
    ASSUME BillingInv, NEW j \in Jobs, NEW due \in SUBSET Tenants, RunJob(j, due)
    PROVE  BillingInv'
    <1>1. /\ sub' = [t \in Tenants |-> IF t \in due THEN [sub[t] EXCEPT !.status = Verdict(j)]
                                       ELSE sub[t]]
          /\ queue' = [queue EXCEPT ![j] = due]
          /\ UNCHANGED <<plans, active, granted, entry, method, call, mixed, excused, Counters>>
        BY DEF RunJob
    <1>2. \A t \in Tenants : sub[t] \in Subscription
        BY SubShape DEF BillingInv
    <1>3. Verdict(j) \in Statuses
        BY DEF Verdict, Statuses
    <1>4. \A t \in Tenants : /\ [sub[t] EXCEPT !.status = Verdict(j)] \in Subscription
                             /\ [sub[t] EXCEPT !.status = Verdict(j)].plan = sub[t].plan
        BY <1>2, <1>3 DEF Subscription
    <1>5. sub' \in [Tenants -> Subscription] /\ \A t \in Tenants : sub'[t].plan = sub[t].plan
        BY <1>1, <1>2, <1>4
    <1>6. queue' \in [Jobs -> SUBSET Tenants]
        BY <1>1 DEF BillingInv, TypeOK
    <1>7. TypeOK'
        BY <1>1, <1>5, <1>6, Typed DEF BillingInv, TypeOK, Calls, Counters
    <1> QED
        BY <1>1, <1>5, <1>7, Outside

LEMMA Mailing ==
    ASSUME BillingInv, NEW j \in Jobs, NEW t \in Tenants, MailOwner(j, t)
    PROVE  BillingInv'
    <1>1. /\ queue' = [queue EXCEPT ![j] = queue[j] \ {t}]
          /\ UNCHANGED <<Data, call, mixed, excused, Counters>>
        BY DEF MailOwner, BillingInv, TypeOK
    <1>2. queue' \in [Jobs -> SUBSET Tenants]
        BY <1>1 DEF BillingInv, TypeOK
    <1>3. TypeOK'
        BY <1>1, <1>2, Typed DEF BillingInv, TypeOK, Calls, Counters, Data
    <1> QED
        BY <1>1, <1>3, Outside DEF Data

LEMMA Aborting ==
    ASSUME BillingInv, NEW s \in Slots, Abort(s)
    PROVE  BillingInv'
    <1>1. /\ faults < MaxFaults /\ faults' = faults + 1 /\ mixed' = mixed \cup Broken(s)
          /\ UNCHANGED <<Data, queue, excused, calls>>
        BY DEF Abort
    <1>2. /\ call' \in [Slots -> Calls] /\ call'[s] = Idle
          /\ \A r \in Slots \ {s} : call'[r] = call[r]
        BY Over DEF BillingInv, Abort
    <1>3. faults' \in 0..MaxFaults
        BY <1>1, BoundsAssumption DEF BillingInv, TypeOK
    <1>4. mixed \subseteq mixed' /\ mixed' \subseteq Tenants
        BY <1>1 DEF BillingInv, TypeOK, Broken
    <1>5. TypeOK'
        BY <1>1, <1>2, <1>3, <1>4, Typed DEF BillingInv, TypeOK, Data
    <1>6. At(s, "change.reset") \/ At(s, "save.others") => call[s].tenant \in mixed'
        <2>1. At(s, "change.reset") \/ At(s, "save.others") => Busy(s, call[s].tenant)
            BY DEF At, Busy, ChangeSteps, Writing
        <2>2. Busy(s, call[s].tenant) => call[s].tenant \in Tenants
            BY BusyShape DEF BillingInv
        <2> QED
            BY <1>1, <2>1, <2>2 DEF Broken
    <1> QED
        BY <1>1, <1>2, <1>4, <1>5, <1>6, FreeSlot, SameMethods, Aside, SamePayment
           DEF BillingInv, Busy, Data

LEMMA Crashing ==
    ASSUME BillingInv, Crash
    PROVE  BillingInv'
    <1>1. /\ faults < MaxFaults /\ faults' = faults + 1
          /\ mixed' = mixed \cup UNION {Broken(s) : s \in Slots}
          /\ call' = [s \in Slots |-> Idle] /\ queue' = [j \in Jobs |-> {}]
          /\ UNCHANGED <<Data, excused, calls>>
        BY DEF Crash
    <1>2. call' \in [Slots -> Calls] /\ \A s \in Slots : call'[s] = Idle
        BY <1>1, FreeSlot
    <1>3. faults' \in 0..MaxFaults
        BY <1>1, BoundsAssumption DEF BillingInv, TypeOK
    <1>4. mixed \subseteq mixed' /\ mixed' \subseteq Tenants
        BY <1>1 DEF BillingInv, TypeOK, Broken
    <1>5. TypeOK'
        BY <1>1, <1>2, <1>3, <1>4, Typed DEF BillingInv, TypeOK, Data
    <1>6. \A s \in Slots : At(s, "change.reset") \/ At(s, "save.others")
                               => call[s].tenant \in mixed'
        <2> SUFFICES ASSUME NEW s \in Slots, At(s, "change.reset") \/ At(s, "save.others")
                     PROVE  call[s].tenant \in mixed'
            OBVIOUS
        <2>1. Busy(s, call[s].tenant)
            BY DEF At, Busy, ChangeSteps, Writing
        <2>2. call[s].tenant \in Tenants
            BY <2>1, BusyShape DEF BillingInv
        <2>3. call[s].tenant \in Broken(s)
            BY <2>1, <2>2 DEF Broken
        <2> QED
            BY <1>1, <2>3
    <1>7. Separate'
        BY <1>2, <1>4, FreeSlot, SeparateKept DEF BillingInv, Busy
    <1>8. Permissions'
        BY <1>1, <1>2, <1>4, <1>6, FreeSlot, PermissionsKept DEF BillingInv, Data
    <1>9. Payments'
        BY <1>1, <1>2, <1>4, <1>6, FreeSlot, SameMethods, PaymentsKept DEF BillingInv, Data
    <1>10. PlanUse'
        BY <1>1, <1>2, FreeSlot, PlanUseKept DEF BillingInv, Data
    <1> QED
        BY <1>1, <1>5, <1>7, <1>8, <1>9, <1>10, SamePayment DEF BillingInv, Data

-----------------------------------------------------------------------------
LEMMA Initially == Init => BillingInv
    <1> SUFFICES ASSUME Init PROVE BillingInv
        OBVIOUS
    <1>1. PICK trial \in BOOLEAN :
              sub = [t \in Tenants |->
                        [plan |-> FreePlan, status |-> IF trial THEN "trial" ELSE "active",
                         trial |-> trial, ended |-> FALSE, requested |-> FALSE, renew |-> FALSE]]
        BY DEF Init
    <1>2. /\ plans = {FreePlan} /\ active = plans /\ mixed = {} /\ excused = {}
          /\ granted = [t \in Tenants |-> None]
          /\ entry = [t \in Tenants |-> [to |-> FreePlan, paid |-> None]]
          /\ method = [m \in Methods |-> NoRow] /\ call = [s \in Slots |-> Idle]
          /\ queue = [j \in Jobs |-> {}] /\ calls = 0 /\ faults = 0
        BY DEF Init
    <1>3. sub \in [Tenants -> Subscription] /\ \A t \in Tenants : sub[t].plan = FreePlan
        BY <1>1, IdsAssumption DEF Subscription, Statuses
    <1>4. /\ entry \in [Tenants -> Entry] /\ PaymentOnItsPlan
        BY <1>2, IdsAssumption DEF Entry, PaymentOnItsPlan
    <1>5. \A s \in Slots : call[s] = Idle /\ call[s].pc = "idle"
        BY <1>2, FreeSlot
    <1>6. TypeOK
        BY <1>2, <1>3, <1>4, FreeSlot, IdsAssumption, BoundsAssumption DEF TypeOK, Calls
    <1>7. Separate
        BY <1>5, FreeSlot DEF Separate, Busy
    <1>8. Permissions
        BY <1>2, <1>5 DEF Permissions, PermissionsFollowPlan, Applied, At
    <1>9. Payments
        <2>1. \A t \in Tenants : Defaults(t) = {}
            <3>1. \A t \in Tenants : [tenant |-> t, default |-> TRUE].tenant = t
                OBVIOUS
            <3>2. NoRow.tenant = None
                BY DEF NoRow
            <3> QED
                BY <1>2, <3>1, <3>2, IdsAssumption DEF Defaults
        <2> QED
            BY <1>5, <2>1 DEF Payments, OneDefault, Cleared, At
    <1>10. PlanUse
        BY <1>2, <1>3, <1>5, FreeSlot DEF PlanUse, InUseIsOffered, Backed, Deleting, At
    <1> QED
        BY <1>4, <1>6, <1>7, <1>8, <1>9, <1>10 DEF BillingInv

LEMMA Idling ==
    ASSUME BillingInv, UNCHANGED vars
    PROVE  BillingInv'
    <1>1. TypeOK'
        BY DEF BillingInv, TypeOK, vars
    <1> QED
        BY <1>1, Outside DEF vars

LEMMA Stepping ==
    ASSUME BillingInv, NEW s \in Slots, Step(s)
    PROVE  BillingInv'
    BY ChangeReading, ChangeApplying, ChangeResetting, ChangeBooking, ChangeClearing,
       ChangeDefaulting, Reactivating, PlanDeleting, SaveInserting, SaveFinishing
       DEF Step

LEMMA JobsRunning ==
    ASSUME BillingInv,
           CheckExpiredTrials \/ CheckExpiredSubscriptions \/ ProcessPendingCancellations
    PROVE  BillingInv'
    <1>1. /\ TrialsDue \in SUBSET Tenants /\ PeriodsDue \in SUBSET Tenants
          /\ CancellationsDue \in SUBSET Tenants
        BY DEF TrialsDue, PeriodsDue, CancellationsDue, Ended
    <1>2. "trials" \in Jobs /\ "periods" \in Jobs /\ "cancellations" \in Jobs
        BY DEF Jobs
    <1> QED
        BY <1>1, <1>2, JobRunning
           DEF CheckExpiredTrials, CheckExpiredSubscriptions, ProcessPendingCancellations

LEMMA EveryStep == BillingInv /\ [Next]_vars => BillingInv'
    <1> SUFFICES ASSUME BillingInv, [Next]_vars PROVE BillingInv'
        OBVIOUS
    <1>1. ASSUME NEW s \in Slots, NEW t \in Tenants, NEW p \in Plans, NEW m \in Methods \cup {None},
                 ChangeStart(s, t, p, m)
          PROVE  BillingInv'
        BY <1>1, ChangeStarting
    <1>2. ASSUME NEW s \in Slots, NEW t \in Tenants,
                 Cancel(s, t) \/ ReactivateRead(s, t) \/ SaveStart(s, t)
          PROVE  BillingInv'
        BY <1>2, Cancelling, Reactivating, SaveStarting
    <1>3. ASSUME NEW p \in Plans, CreatePlan(p)
          PROVE  BillingInv'
        BY <1>3, PlanCreating
    <1>4. ASSUME NEW s \in Slots, NEW p \in Plans, UpdatePlan(s, p) \/ DeletePlan(s, p)
          PROVE  BillingInv'
        BY <1>4, PlanUpdating, PlanChecking
    <1>5. ASSUME NEW s \in Slots, NEW m \in Methods, DeleteMethod(s, m)
          PROVE  BillingInv'
        BY <1>5, MethodDeleting
    <1>6. ASSUME NEW s \in Slots, Step(s) \/ ChangeResetFails(s) \/ Abort(s)
          PROVE  BillingInv'
        BY <1>6, Stepping, ChangeResetFailing, Aborting
    <1>7. ASSUME NEW t \in Tenants, PeriodEnds(t)
          PROVE  BillingInv'
        BY <1>7, PeriodEnding
    <1>8. ASSUME NEW j \in Jobs, NEW t \in Tenants, MailOwner(j, t)
          PROVE  BillingInv'
        BY <1>8, Mailing
    <1> QED
        BY <1>1, <1>2, <1>3, <1>4, <1>5, <1>6, <1>7, <1>8, JobsRunning, Crashing, Idling DEF Next

LEMMA Invariance == Spec => []BillingInv
    BY Initially, EveryStep, PTL DEF Spec

\* The rows and the requests keep the shapes the statements give them, for any
\* number of tenants, plans, payment methods and requests.
THEOREM TypeCorrect == Spec => []TypeOK
    <1>1. BillingInv => TypeOK
        BY DEF BillingInv
    <1> QED
        BY <1>1, Invariance, PTL

\* Whatever changes, cancellations, reactivations, saved payment methods, plan
\* deletions, jobs, failures and restarts come together: a tenant's permissions
\* follow its plan, its payments are booked on the plan they paid, it has one
\* default payment method and its plan is offered, but for the calls of the
\* tenant that overlapped or broke off and the plans an administrator took away.
THEOREM BillingStaysConsistent == Spec => []BillingConsistent
    <1>1. BillingInv => BillingConsistent
        BY DEF BillingInv, BillingConsistent, Permissions, Payments, PlanUse
    <1> QED
        BY <1>1, Invariance, PTL

\* An owner is told of an end once: a run of a job queues a mail only for a
\* subscription that this very run took from another status.
THEOREM MailsTellOfEnds == Spec => MailsForEnds
    <1> DEFINE Told == \A j \in Jobs : \A t \in queue'[j] \ queue[j] :
                           sub[t].status # Verdict(j) /\ sub'[t].status = Verdict(j)
    <1>1. BillingInv /\ [Next]_vars => [Told]_vars
        <2> SUFFICES ASSUME BillingInv, [Next]_vars, NEW j \in Jobs, NEW t \in queue'[j] \ queue[j]
                     PROVE  sub[t].status # Verdict(j) /\ sub'[t].status = Verdict(j)
            OBVIOUS
        <2>1. /\ TrialsDue \in SUBSET Tenants /\ PeriodsDue \in SUBSET Tenants
              /\ CancellationsDue \in SUBSET Tenants
            BY DEF TrialsDue, PeriodsDue, CancellationsDue, Ended
        <2>2. ASSUME NEW k \in Jobs, NEW due \in SUBSET Tenants, RunJob(k, due),
                     \A u \in due : sub[u].status # Verdict(k)
              PROVE  sub[t].status # Verdict(j) /\ sub'[t].status = Verdict(j)
            <3>1. queue' = [queue EXCEPT ![k] = due] /\ queue \in [Jobs -> SUBSET Tenants]
                BY <2>2 DEF RunJob, BillingInv, TypeOK
            <3>2. j = k /\ t \in due
                BY <3>1
            <3>3. sub[t] \in Subscription
                BY <3>2, SubShape DEF BillingInv
            <3>4. sub'[t] = [sub[t] EXCEPT !.status = Verdict(k)]
                BY <2>2, <3>2 DEF RunJob
            <3> QED
                BY <2>2, <3>2, <3>3, <3>4 DEF Subscription
        <2>3. CASE CheckExpiredTrials
            BY <2>1, <2>2, <2>3 DEF CheckExpiredTrials, TrialsDue, Jobs, Verdict
        <2>4. CASE CheckExpiredSubscriptions
            BY <2>1, <2>2, <2>4 DEF CheckExpiredSubscriptions, PeriodsDue, Jobs, Verdict
        <2>5. CASE ProcessPendingCancellations
            BY <2>1, <2>2, <2>5 DEF ProcessPendingCancellations, CancellationsDue, Jobs, Verdict
        <2>6. CASE queue' = queue
            BY <2>6
        <2>7. CASE queue' = [k \in Jobs |-> {}]
            BY <2>7
        <2>8. CASE \E k \in Jobs, u \in Tenants : queue' = [queue EXCEPT ![k] = @ \ {u}]
            BY <2>8 DEF BillingInv, TypeOK
        <2> QED
            BY <2>3, <2>4, <2>5, <2>6, <2>7, <2>8
               DEF Next, Step, ChangeStart, Cancel, ReactivateRead, SaveStart, CreatePlan,
                   UpdatePlan, DeletePlan, DeleteMethod, ChangeCurrent, ChangePrices, ChangeApply,
                   ChangeReset, ChangeHistory, ChangeClear, ChangeDefault, ReactivateWrite,
                   DeleteWrite, SaveInsert, SaveOthers, ChangeResetFails, Abort, PeriodEnds,
                   MailOwner, Crash, Begin, vars
    <1> QED
        BY <1>1, Invariance, PTL DEF Spec, MailsForEnds

==============================================================================
