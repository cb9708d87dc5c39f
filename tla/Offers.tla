------------------------------- MODULE Offers -------------------------------
(***************************************************************************)
(* Offers on subscriptions: an administrator creates an offer, which is    *)
(* active before the rows that limit it to plans and billing cycles are    *)
(* there, changes it, and deletes those rows before the offer; tenants     *)
(* apply it.  Every statement is committed by itself.                      *)
(***************************************************************************)
EXTENDS Naturals, FiniteSets

CONSTANTS
    Offers,     \* offer ids
    Plans,
    Slots,      \* requests in flight at once
    MaxCalls,   \* bound: requests that are made
    MaxFaults   \* bound: statements that fail, restarts

VARIABLES
    offer,      \* offer[o]: the subscription_offers row
    plansOf,    \* plansOf[o]: its subscription_offer_plans rows
    cyclesOf,   \* cyclesOf[o]: its rows for a billing cycle
    usage,      \* offers that subscription_offer_usage has a row of
    asked,      \* history: asked[o]: plans it was to be limited to, times the cycle was named
    applied,    \* history: applications, as <<offer, plan, whether it was half made or half deleted>>
    missed,     \* history: offers used between the count and the DELETE
    loose,      \* history: offers of which one date was changed by itself
    spoilt,     \* history: offers at whose creation or deletion something failed
    call, calls, faults

tables == <<offer, plansOf, cyclesOf, usage>>
history == <<asked, applied, missed, loose, spoilt>>
vars == <<tables, history, call, calls, faults>>

-----------------------------------------------------------------------------
NoOffer == [active |-> FALSE, ordered |-> TRUE, gone |-> TRUE]
Offer == [active : BOOLEAN, ordered : BOOLEAN, gone : {FALSE}]
There(o) == ~offer[o].gone

Idle == [pc |-> "idle"]
Request == [pc : {"offer.plans", "offer.cycles", "offer.retire", "offer.delete", "offer.strip", "offer.drop"},
            offer : Offers, plans : SUBSET Plans, cycles : 0..2]

TypeOK ==
    /\ offer \in [Offers -> Offer \cup {NoOffer}]
    /\ plansOf \in [Offers -> SUBSET Plans] /\ cyclesOf \in [Offers -> 0..2]
    /\ usage \subseteq Offers
    /\ asked \in [Offers -> [made : BOOLEAN, plans : SUBSET Plans, cycles : 0..2]]
    /\ applied \subseteq Offers \X Plans \X BOOLEAN
    /\ missed \subseteq Offers /\ loose \subseteq Offers /\ spoilt \subseteq Offers
    /\ call \in [Slots -> Request \cup {Idle}]
    /\ calls \in 0..MaxCalls /\ faults \in 0..MaxFaults

Init ==
    /\ offer = [o \in Offers |-> NoOffer]
    /\ plansOf = [o \in Offers |-> {}] /\ cyclesOf = [o \in Offers |-> 0]
    /\ usage = {}
    /\ asked = [o \in Offers |-> [made |-> FALSE, plans |-> {}, cycles |-> 0]]
    /\ applied = {} /\ missed = {} /\ loose = {} /\ spoilt = {}
    /\ call = [s \in Slots |-> Idle]
    /\ calls = 0 /\ faults = 0

At(s, pc) == call[s].pc = pc
Mine(s) == call[s].offer
Done(s) == call' = [call EXCEPT ![s] = Idle]
Counters == <<calls, faults>>

Begin(s, c) ==
    /\ call[s] = Idle
    /\ calls < MaxCalls
    /\ call' = [call EXCEPT ![s] = c]
    /\ calls' = calls + 1
    /\ UNCHANGED faults

Creating(o) ==
    \E s \in Slots : call[s].pc \in {"offer.plans", "offer.cycles"} /\ call[s].offer = o
Halfway(s) == call[s].pc \in {"offer.plans", "offer.cycles", "offer.strip", "offer.drop"}
Stripping(o) == \E s \in Slots : call[s].pc \in {"offer.strip", "offer.drop"} /\ call[s].offer = o
Deleting(o) == Stripping(o) \/ \E s \in Slots : At(s, "offer.delete") /\ call[s].offer = o

\* A creation with these rows still to be inserted, the plans' first.
Adding(o, plans, cycles) ==
    IF plans = {} /\ cycles = 0 THEN Idle
    ELSE [pc |-> IF plans # {} THEN "offer.plans" ELSE "offer.cycles", offer |-> o,
          plans |-> plans, cycles |-> cycles]

-----------------------------------------------------------------------------
\* createOffer: 'End date must be after start date'; the row is active at once,
\* ...
CreateOffer(s, o, plans, cycles) ==
    /\ ~asked[o].made
    /\ offer' = [offer EXCEPT ![o] = [active |-> TRUE, ordered |-> TRUE, gone |-> FALSE]]
    /\ asked' = [asked EXCEPT ![o] = [made |-> TRUE, plans |-> plans, cycles |-> cycles]]
    /\ Begin(s, Adding(o, plans, cycles))
    /\ UNCHANGED <<plansOf, cyclesOf, usage, applied, missed, loose, spoilt>>

\* Mutant: the row of the last plan is left out.
AddLastPlan(s, p) ==
    LET c == call[s]
    IN  /\ At(s, "offer.plans") /\ p \in c.plans
        /\ plansOf' = [plansOf EXCEPT ![c.offer] = IF c.plans = {p} THEN @ ELSE @ \cup {p}]
        /\ call' = [call EXCEPT ![s] = Adding(c.offer, c.plans \ {p}, c.cycles)]
        /\ UNCHANGED <<offer, cyclesOf, usage, history, Counters>>

\* ... then one row for each plan, whether the offer is there or not, ...
AddPlan(s, p) ==
    LET c == call[s]
    IN  /\ At(s, "offer.plans") /\ p \in c.plans
        /\ plansOf' = [plansOf EXCEPT ![c.offer] = @ \cup {p}]
        /\ call' = [call EXCEPT ![s] = Adding(c.offer, c.plans \ {p}, c.cycles)]
        /\ UNCHANGED <<offer, cyclesOf, usage, history, Counters>>

\* ... and for each naming of a cycle, in applicableBillingCycles and in its
\* alias applicableCycles.
AddCycle(s) ==
    LET c == call[s]
    IN  /\ At(s, "offer.cycles")
        /\ cyclesOf' = [cyclesOf EXCEPT ![c.offer] = @ + 1]
        /\ call' = [call EXCEPT ![s] = Adding(c.offer, {}, c.cycles - 1)]
        /\ UNCHANGED <<offer, plansOf, usage, history, Counters>>

\* updateOffer: is_active and other fields, both dates, or one date, which is
\* compared with nothing.
UpdateOffer(s, o, active) ==
    /\ There(o)
    /\ offer' = [offer EXCEPT ![o].active = active]
    /\ Begin(s, Idle)
    /\ UNCHANGED <<plansOf, cyclesOf, usage, history>>

UpdateBothDates(s, o) ==
    /\ There(o)
    /\ offer' = [offer EXCEPT ![o].ordered = TRUE]
    /\ loose' = loose \ {o}
    /\ Begin(s, Idle)
    /\ UNCHANGED <<plansOf, cyclesOf, usage, asked, applied, missed, spoilt>>

UpdateOneDate(s, o, ordered) ==
    /\ There(o)
    /\ offer' = [offer EXCEPT ![o].ordered = ordered]
    /\ loose' = loose \cup {o}
    /\ Begin(s, Idle)
    /\ UNCHANGED <<plansOf, cyclesOf, usage, asked, applied, missed, spoilt>>

\* deleteOffer counts the usage: an offer that was used is made inactive, ...
DeleteOffer(s, o) ==
    /\ There(o)
    /\ Begin(s, [pc |-> IF o \in usage THEN "offer.retire" ELSE "offer.delete", offer |-> o,
                 plans |-> {}, cycles |-> 0])
    /\ UNCHANGED <<tables, history>>

Retire(s) ==
    LET o == Mine(s)
    IN  /\ At(s, "offer.retire")
        /\ offer' = IF There(o) THEN [offer EXCEPT ![o].active = FALSE] ELSE offer
        /\ Done(s)
        /\ UNCHANGED <<plansOf, cyclesOf, usage, history, Counters>>

\* ... and another deleted, used by now or not: the rows of its cycles, those of
\* its plans, ...
DeleteCycles(s) ==
    LET o == Mine(s)
    IN  /\ At(s, "offer.delete")
        /\ cyclesOf' = [cyclesOf EXCEPT ![o] = 0]
        /\ spoilt' = IF Creating(o) THEN spoilt \cup {o} ELSE spoilt
        /\ call' = [call EXCEPT ![s].pc = "offer.strip"]
        /\ UNCHANGED <<offer, plansOf, usage, asked, applied, missed, loose, Counters>>

DeletePlans(s) ==
    LET o == Mine(s)
    IN  /\ At(s, "offer.strip")
        /\ plansOf' = [plansOf EXCEPT ![o] = {}]
        /\ call' = [call EXCEPT ![s].pc = "offer.drop"]
        /\ UNCHANGED <<offer, cyclesOf, usage, history, Counters>>

\* ... and the offer itself.
Delete(s) ==
    /\ At(s, "offer.drop")
    /\ offer' = [offer EXCEPT ![Mine(s)] = NoOffer]
    /\ Done(s)
    /\ UNCHANGED <<plansOf, cyclesOf, usage, history, Counters>>

-----------------------------------------------------------------------------
\* applyOfferCode, by sp_ApplySubscriptionOffer: an offer without plan rows is
\* for every plan.
ApplyOfferCode(s, o, p) ==
    /\ offer[o].active /\ (plansOf[o] = {} \/ p \in plansOf[o])
    /\ applied' = applied \cup {<<o, p, Creating(o) \/ Stripping(o)>>}
    /\ Begin(s, Idle)
    /\ UNCHANGED <<tables, asked, missed, loose, spoilt>>

\* recordOfferUsage, by sp_RecordOfferUsage, once it has been paid.
RecordOfferUsage(s, o, p) ==
    /\ \E early \in BOOLEAN : <<o, p, early>> \in applied
    /\ There(o)
    /\ usage' = usage \cup {o}
    /\ missed' = IF Deleting(o) THEN missed \cup {o} ELSE missed
    /\ Begin(s, Idle)
    /\ UNCHANGED <<offer, plansOf, cyclesOf, asked, applied, loose, spoilt>>

RequestFails(s) ==
    /\ call[s] # Idle
    /\ faults < MaxFaults /\ faults' = faults + 1
    /\ spoilt' = IF Halfway(s) THEN spoilt \cup {Mine(s)} ELSE spoilt
    /\ Done(s)
    /\ UNCHANGED <<tables, asked, applied, missed, loose, calls>>

Crash ==
    /\ faults < MaxFaults /\ faults' = faults + 1
    /\ spoilt' = spoilt \cup {Mine(s) : s \in {t \in Slots : Halfway(t)}}
    /\ call' = [s \in Slots |-> Idle]
    /\ UNCHANGED <<tables, asked, applied, missed, loose, calls>>

Next ==
    \/ \E s \in Slots :
           \/ \E o \in Offers :
                  \/ \E plans \in SUBSET Plans, cycles \in 0..2 : CreateOffer(s, o, plans, cycles)
                  \/ \E yes \in BOOLEAN : UpdateOffer(s, o, yes) \/ UpdateOneDate(s, o, yes)
                  \/ UpdateBothDates(s, o) \/ DeleteOffer(s, o)
                  \/ \E p \in Plans : ApplyOfferCode(s, o, p) \/ RecordOfferUsage(s, o, p)
           \/ \E p \in Plans : AddPlan(s, p)
           \/ AddCycle(s) \/ Retire(s) \/ DeleteCycles(s) \/ DeletePlans(s) \/ Delete(s) \/ RequestFails(s)
    \/ Crash

Spec == Init /\ [][Next]_vars

-----------------------------------------------------------------------------
\* An offer has the rows that were asked for once its creation is over and until
\* its deletion takes the first, unless something failed in either or they met.
OfferIsWhole ==
    \A o \in Offers : There(o) /\ ~Creating(o) /\ ~Stripping(o) /\ o \notin spoilt =>
        plansOf[o] = asked[o].plans /\ cyclesOf[o] = asked[o].cycles

\* An offer is applied to a plan it is not for only while it is half made or half
\* deleted, or if its creation or its deletion failed.
AppliedAsAsked ==
    \A a \in applied :
        asked[a[1]].plans = {} \/ a[2] \in asked[a[1]].plans \/ a[3] \/ a[1] \in spoilt

\* An offer that was used is kept, unless it was used while it was being deleted.
UsedIsKept == \A o \in usage : There(o) \/ o \in missed

\* The end of an offer is after its start, unless one date was changed by itself.
DatesOrdered == \A o \in Offers : offer[o].ordered \/ o \in loose

=============================================================================
