---------------------------- MODULE MetricsHistory ----------------------------
(***************************************************************************)
(* The history MetricsHistoryService keeps of a connected account and of   *)
(* one piece of its content: a row per day for the followers, and one for  *)
(* the views.  Every sync of the account writes both, by MERGEs that       *)
(* replace the row of the day.  The followers of a day begin where the     *)
(* latest row ends; the views are what the platform answered some          *)
(* statements ago (all of them, those of the last 28 days, or none, which  *)
(* counts as 0), filed under the day that has come meanwhile.  Nothing     *)
(* keeps two syncs of one account apart.                                   *)
(***************************************************************************)
EXTENDS Naturals

CONSTANTS
    Slots,        \* syncs in flight at once
    MaxDay,       \* bound: days that pass
    MaxFollowers, \* bound: followers of the account
    MaxViews,     \* bound: views of the content
    MaxCalls,     \* bound: syncs that are made
    MaxFaults     \* bound: syncs that break off

VARIABLES
    day,       \* the date
    followers, \* creator_social_accounts.follower_count
    counted,   \* counted[d]: views the platform has counted by the end of day d
    growth,    \* growth[d]: the creator_growth_tracking row of day d
    metrics,   \* metrics[d]: the creator_content_metrics row of day d
    shadowed,  \* history: days whose growth row was merged over one not read
    call, calls, faults

vars == <<day, followers, counted, growth, metrics, shadowed, call, calls, faults>>

-----------------------------------------------------------------------------
Days == 1..MaxDay
Counts == 0..MaxFollowers
NoRow == [from |-> "nobody"]
Growth == [from : {"sync"}, start : Counts, end : Counts]
Views == [from : {"sync", "daily"}, views : 0..MaxViews]
Idle == [pc |-> "idle"]
Track == [pc : {"sync.growth", "sync.merge"},
          count : Counts,    \* follower_count, as it was read
          start : Counts,    \* followers_end of the latest row
          on : Days,         \* the day the row is filed under
          missed : BOOLEAN]  \* history: another sync wrote after this one read
Collect == [pc : {"sync.fetch", "sync.content", "sync.snapshot", "sync.details", "sync.detailed",
                  "sync.daily"},
            views : 0..MaxViews, on : Days]

TypeOK ==
    /\ day \in Days /\ followers \in Counts
    /\ counted \in [Days -> 0..MaxViews]
    /\ growth \in [Days -> Growth \cup {NoRow}]
    /\ metrics \in [Days -> Views \cup {NoRow}]
    /\ shadowed \subseteq Days
    /\ call \in [Slots -> Track \cup Collect \cup {Idle}]
    /\ calls \in 0..MaxCalls /\ faults \in 0..MaxFaults

Init ==
    /\ day = 1 /\ followers = 0
    /\ counted = [d \in Days |-> 0]
    /\ growth = [d \in Days |-> NoRow] /\ metrics = [d \in Days |-> NoRow]
    /\ shadowed = {}
    /\ call = [s \in Slots |-> Idle]
    /\ calls = 0 /\ faults = 0

At(s, pc) == call[s].pc = pc
Goto(s, pc) == call' = [call EXCEPT ![s].pc = pc]
Counters == <<calls, faults>>
World == <<day, followers, counted>>
GrowthState == <<growth, shadowed>>
Filed(rows) == {d \in Days : rows[d] # NoRow}
Latest(D) == CHOOSE d \in D : \A e \in D : e <= d

Reset(pc) == [pc |-> pc, views |-> 0, on |-> 1]

\* A platform answers with all the views so far, those of the last 28 days, or none.
Answers == 0..counted[day]

-----------------------------------------------------------------------------
\* syncContent reads the account, whose follower_count is of the last connection.
SyncContent(s) ==
    /\ call[s] = Idle /\ calls < MaxCalls
    /\ call' = [call EXCEPT ![s] = [pc |-> "sync.growth", count |-> followers, start |-> 0,
                                    on |-> 1, missed |-> FALSE]]
    /\ calls' = calls + 1
    /\ UNCHANGED <<World, GrowthState, metrics, faults>>

\* Mutant: every row starts with the count itself.
TrackFromCount(s) ==
    /\ At(s, "sync.growth")
    /\ call' = [call EXCEPT ![s] = [@ EXCEPT !.pc = "sync.merge", !.on = day, !.start = call[s].count]]
    /\ UNCHANGED <<World, GrowthState, metrics, Counters>>

\* trackFollowerGrowth: followers_end of the latest row, today's included; the
\* first row starts with the count itself.
TrackFollowerGrowth(s) ==
    /\ At(s, "sync.growth")
    /\ call' = [call EXCEPT
           ![s] = [@ EXCEPT !.pc = "sync.merge", !.on = day,
                            !.start = IF Filed(growth) = {} THEN call[s].count
                                      ELSE growth[Latest(Filed(growth))].end]]
    /\ UNCHANGED <<World, GrowthState, metrics, Counters>>

\* ... MERGE: a row that is there keeps its followers_start.
MergeGrowth(s) ==
    LET c == call[s]
    IN  /\ At(s, "sync.merge")
        /\ growth' = [growth EXCEPT ![c.on] =
                          IF @ = NoRow
                          THEN [from |-> "sync", start |-> c.start, end |-> c.count]
                          ELSE [@ EXCEPT !.end = c.count]]
        /\ shadowed' = IF c.missed THEN shadowed \cup {c.on} ELSE shadowed
        /\ call' = [t \in Slots |->
                        IF t = s THEN Reset("sync.fetch")
                        ELSE IF At(t, "sync.merge") THEN [call[t] EXCEPT !.missed = TRUE]
                        ELSE call[t]]
        /\ UNCHANGED <<World, metrics, Counters>>

\* fetchContent: the newest pieces with their numbers.
FetchContent(s) ==
    /\ At(s, "sync.fetch")
    /\ \E v \in Answers : call' = [call EXCEPT ![s] = [pc |-> "sync.content", views |-> v, on |-> 1]]
    /\ UNCHANGED <<World, GrowthState, metrics, Counters>>

\* saveContent; the date of the snapshot, if the piece came with numbers, is that
\* of the moment it is done.
ContentSaved(s) ==
    /\ At(s, "sync.content")
    /\ \E pc \in {"sync.snapshot", "sync.details"} :
           call' = [call EXCEPT ![s] = [@ EXCEPT !.pc = pc, !.on = day]]
    /\ UNCHANGED <<World, GrowthState, metrics, Counters>>

\* saveDailySnapshot replaces the row of its day, ...
SaveDailySnapshot(s) ==
    /\ At(s, "sync.snapshot")
    /\ metrics' = [metrics EXCEPT ![call[s].on] = [from |-> "sync", views |-> call[s].views]]
    /\ call' = [call EXCEPT ![s] = Reset("sync.details")]
    /\ UNCHANGED <<World, GrowthState, Counters>>

\* ... and so it does with the answer of fetchContentMetrics, unless that fails;
\* most platforms have none, and the row ends with no views.
FetchContentMetrics(s) ==
    /\ At(s, "sync.details")
    /\ \E v \in Answers :
           call' = [call EXCEPT ![s] = [pc |-> "sync.detailed", views |-> v, on |-> day]]
    /\ UNCHANGED <<World, GrowthState, metrics, Counters>>

NoDetails(s) ==
    /\ At(s, "sync.details")
    /\ call' = [call EXCEPT ![s] = Idle]
    /\ UNCHANGED <<World, GrowthState, metrics, Counters>>

\* A full sync of YouTube goes on with the last 90 days, ...
SaveDetails(s) ==
    /\ At(s, "sync.detailed")
    /\ metrics' = [metrics EXCEPT ![call[s].on] = [from |-> "sync", views |-> call[s].views]]
    /\ \E next \in {Idle, Reset("sync.daily")} : call' = [call EXCEPT ![s] = next]
    /\ UNCHANGED <<World, GrowthState, Counters>>

\* ... one row after the other, for the days it has any: what the platform counted
\* on that day alone takes the place of the totals in the same row.
SaveDailyAnalytics(s) ==
    LET c == call[s]
    IN  /\ At(s, "sync.daily")
        /\ \/ \E v \in Answers : metrics' = [metrics EXCEPT ![c.on] = [from |-> "daily", views |-> v]]
           \/ metrics' = metrics
        /\ \/ c.on < day /\ call' = [call EXCEPT ![s] = [c EXCEPT !.on = @ + 1]]
           \/ call' = [call EXCEPT ![s] = Idle]
        /\ UNCHANGED <<World, GrowthState, Counters>>

-----------------------------------------------------------------------------
Tomorrow ==
    /\ day < MaxDay
    /\ day' = day + 1
    /\ UNCHANGED <<followers, counted, GrowthState, metrics, call, Counters>>

\* The account is connected again: saveSocialAccount writes the count it has now.
Reconnect ==
    /\ \E n \in Counts \ {followers} : followers' = n
    /\ UNCHANGED <<day, counted, GrowthState, metrics, call, Counters>>

Watch ==
    /\ counted[day] < MaxViews
    /\ counted' = [d \in Days |-> IF d < day THEN counted[d] ELSE counted[day] + 1]
    /\ UNCHANGED <<day, followers, GrowthState, metrics, call, Counters>>

\* A statement fails, or the process stops.
SyncFails(s) ==
    /\ call[s] # Idle /\ faults < MaxFaults
    /\ call' = [call EXCEPT ![s] = Idle]
    /\ faults' = faults + 1
    /\ UNCHANGED <<World, GrowthState, metrics, calls>>

Step(s) ==
    \/ TrackFollowerGrowth(s) \/ MergeGrowth(s)
    \/ FetchContent(s) \/ ContentSaved(s) \/ SaveDailySnapshot(s)
    \/ FetchContentMetrics(s) \/ NoDetails(s) \/ SaveDetails(s) \/ SaveDailyAnalytics(s)

Next ==
    \/ \E s \in Slots : SyncContent(s) \/ Step(s) \/ SyncFails(s)
    \/ Tomorrow \/ Reconnect \/ Watch

Spec == Init /\ [][Next]_vars

-----------------------------------------------------------------------------
\* The rows of an account form a chain: each starts with the followers the row
\* before it ended with, unless another sync filed one between its reading and
\* its writing, or wrote to the row before it later on.
GrowthChains ==
    \A d \in Filed(growth) :
        LET before == {e \in Filed(growth) : e < d}
        IN  before # {} => \/ growth[d].start = growth[Latest(before)].end
                           \/ {d, Latest(before)} \cap shadowed # {}

\* The row a sync files counts nothing that came after its day: the date is taken
\* when the answer is there, however long that took.
NothingAhead ==
    \A d \in Filed(metrics) :
        d <= day /\ (metrics[d].from = "sync" => metrics[d].views <= counted[d])
=============================================================================
