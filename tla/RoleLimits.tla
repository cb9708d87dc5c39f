----------------------------- MODULE RoleLimits -----------------------------
(***************************************************************************)
(* The limit of a role on invitations: the row an administrator makes and  *)
(* changes, and what sendInvitation does with it.  The period is looked    *)
(* at, the usage cleared, the invitation inserted and the usage counted,   *)
(* each in a statement of its own.                                         *)
(***************************************************************************)
EXTENDS Naturals, FiniteSets

CONSTANTS
    Slots,      \* invitations being sent at once
    MaxLimit,   \* bound: the largest limit_value
    MaxPeriods, \* bound: periods (days, months, years) that go by
    MaxCalls,   \* bound: requests that are made
    MaxFaults   \* bound: statements that fail

VARIABLES
    limit,      \* the role_limits row of the role for 'invitations'
    period,     \* the period it is
    since,      \* history: invitations inserted since the usage was last cleared
    lost,       \* history: of these, the ones whose count failed
    mixed,      \* history: was it last cleared, or made, while an invitation was about to be counted
    call, calls, faults

limits == <<limit, period, since, lost, mixed>>
vars == <<limits, call, calls, faults>>

-----------------------------------------------------------------------------
NoLimit == [value |-> 0, usage |-> 0, reset |-> 0, renews |-> FALSE, made |-> FALSE]
Limit == [value : 1..MaxLimit, usage : 0..MaxCalls, reset : 0..MaxPeriods,
          renews : BOOLEAN, made : {TRUE}]   \* renews: reset_period is not 'never'

Idle == [pc |-> "idle"]
Step(pc) == [pc |-> pc]
Steps == {"limit.reset", "limit.insert", "limit.count"}

TypeOK ==
    /\ limit \in Limit \cup {NoLimit} /\ period \in 0..MaxPeriods
    /\ since \in 0..MaxCalls /\ lost \in 0..MaxCalls /\ mixed \in BOOLEAN
    /\ call \in [Slots -> {Step(pc) : pc \in Steps} \cup {Idle}]
    /\ calls \in 0..MaxCalls /\ faults \in 0..MaxFaults

Init ==
    /\ limit = NoLimit /\ period = 0
    /\ since = 0 /\ lost = 0 /\ mixed = FALSE
    /\ call = [s \in Slots |-> Idle]
    /\ calls = 0 /\ faults = 0

At(s, pc) == call[s].pc = pc
Goto(s, pc) == call' = [call EXCEPT ![s] = Step(pc)]
Done(s) == call' = [call EXCEPT ![s] = Idle]
Counters == <<calls, faults>>
Made == calls < MaxCalls /\ calls' = calls + 1 /\ UNCHANGED faults

Counting == \E s \in Slots : At(s, "limit.count")

-----------------------------------------------------------------------------
\* createRoleLimit: the usage starts at 0, and a second row is refused.
CreateRoleLimit(value, renews) ==
    /\ ~limit.made
    /\ limit' = [value |-> value, usage |-> 0, reset |-> period, renews |-> renews, made |-> TRUE]
    /\ since' = 0 /\ lost' = 0
    /\ mixed' = Counting
    /\ Made
    /\ UNCHANGED <<period, call>>

\* updateRoleLimit: the usage and the date of the last reset stay.
UpdateRoleLimit(value, renews) ==
    /\ limit.made
    /\ limit' = [limit EXCEPT !.value = value, !.renews = renews]
    /\ Made
    /\ UNCHANGED <<period, since, lost, mixed, call>>

ShouldReset == limit.made /\ limit.renews /\ limit.reset < period

\* checkRoleLimit, whose 'limit reached' sendInvitation ignores.
CheckRoleLimit(s) ==
    /\ call[s] = Idle
    /\ Goto(s, IF ShouldReset THEN "limit.reset" ELSE "limit.insert")
    /\ Made
    /\ UNCHANGED limits

\* resetRoleLimitUsage clears what others have counted since they looked, too.
ResetRoleLimitUsage(s) ==
    /\ At(s, "limit.reset")
    /\ limit' = [limit EXCEPT !.usage = 0, !.reset = period]
    /\ since' = 0 /\ lost' = 0
    /\ mixed' = Counting
    /\ Goto(s, "limit.insert")
    /\ UNCHANGED <<period, Counters>>

InsertInvitation(s) ==
    /\ At(s, "limit.insert")
    /\ since' = since + 1
    /\ Goto(s, "limit.count")
    /\ UNCHANGED <<limit, period, lost, mixed, Counters>>

\* incrementRoleLimitUsage, which finds no row where there is no limit.
IncrementRoleLimitUsage(s) ==
    /\ At(s, "limit.count")
    /\ limit' = IF limit.made THEN [limit EXCEPT !.usage = @ + 1] ELSE limit
    /\ Done(s)
    /\ UNCHANGED <<period, since, lost, mixed, Counters>>

\* What fails before the invitation is inserted ends the request, but for the
\* limit's own statements, whose errors are ignored like the count's.
StatementFails(s) ==
    /\ faults < MaxFaults /\ faults' = faults + 1
    /\ \/ At(s, "limit.reset") /\ Goto(s, "limit.insert") /\ UNCHANGED lost
       \/ At(s, "limit.insert") /\ Done(s) /\ UNCHANGED lost
       \/ At(s, "limit.count") /\ Done(s) /\ lost' = lost + 1
    /\ UNCHANGED <<limit, period, since, mixed, calls>>

PeriodPasses ==
    /\ period < MaxPeriods /\ period' = period + 1
    /\ UNCHANGED <<limit, since, lost, mixed, call, Counters>>

Next ==
    \/ \E value \in 1..MaxLimit, renews \in BOOLEAN :
           CreateRoleLimit(value, renews) \/ UpdateRoleLimit(value, renews)
    \/ \E s \in Slots :
           \/ CheckRoleLimit(s) \/ ResetRoleLimitUsage(s) \/ InsertInvitation(s)
           \/ IncrementRoleLimitUsage(s) \/ StatementFails(s)
    \/ PeriodPasses

Spec == Init /\ [][Next]_vars

-----------------------------------------------------------------------------
\* The usage of the limit is the number of invitations since it was cleared,
\* those left out that are about to be counted or whose count failed, unless it
\* was cleared while another request was about to count.
UsageCounts ==
    limit.made /\ ~mixed =>
        limit.usage + lost + Cardinality({s \in Slots : At(s, "limit.count")}) = since

=============================================================================
