--------------------------- MODULE SocialAccounts ---------------------------
(***************************************************************************)
(* A creator's account on a social platform: connecting it, reading its    *)
(* content with a token that is refreshed when it has expired,             *)
(* disconnecting it, and tagging a content item as part of a campaign.     *)
(* Every statement is committed by itself.  Platforms differ in what a     *)
(* refresh gives back: the same refresh token (YouTube), another one       *)
(* (Twitter, TikTok, Twitch) or none, not even on connecting (Instagram,   *)
(* Facebook).                                                              *)
(***************************************************************************)
EXTENDS Naturals, FiniteSets

CONSTANTS
    Families,   \* of platforms, among "keeps", "rotates", "drops"
    Slots,      \* requests in flight at once
    MaxGrants,  \* bound: refresh tokens the platform hands out
    MaxCalls,   \* bound: requests that are made
    MaxFaults   \* bound: statements that fail, restarts

VARIABLES
    family,     \* what the platform does
    valid,      \* refresh tokens the platform accepts
    granted,    \* how many it has handed out
    account,    \* creator_social_accounts.account_status
    tokens,     \* the account's oauth_tokens rows
    item,       \* a creator_content row of the account, and its campaign tag
    overlapped, \* history: a disconnect and another request met
    tagged,     \* history: the item was tagged and no sync has begun since
    mishaps,    \* history: something failed
    call, calls, faults

platform == <<valid, granted>>
vars == <<family, platform, account, tokens, item, overlapped, tagged, mishaps,
          call, calls, faults>>

-----------------------------------------------------------------------------
NoRefresh == 0
Refresh == NoRefresh..MaxGrants
Row == [id : 1..MaxGrants, refresh : Refresh, active : BOOLEAN, expired : BOOLEAN]

Idle == [pc |-> "idle"]
Connecting == {"connect.exchange", "connect.find", "connect.update", "connect.insert",
               "connect.tokens", "connect.replace", "connect.add", "connect.job"}
Syncing == {"sync.token", "sync.refresh", "sync.find", "sync.replace", "sync.fetch",
            "sync.update", "sync.insert", "sync.finish"}
Other == {"disconnect.account", "disconnect.tokens", "tag.write"}
Request == [pc : Connecting \cup Syncing \cup Other, refresh : Refresh, row : 0..MaxGrants]

TypeOK ==
    /\ family \in Families
    /\ valid \subseteq 1..MaxGrants /\ granted \in 0..MaxGrants
    /\ account \in {"none", "active", "disconnected"}
    /\ tokens \subseteq Row
    /\ item \in {"none", "untagged", "tagged"}
    /\ overlapped \in BOOLEAN /\ tagged \in BOOLEAN /\ mishaps \in BOOLEAN
    /\ call \in [Slots -> Request \cup {Idle}]
    /\ calls \in 0..MaxCalls /\ faults \in 0..MaxFaults

Init ==
    /\ family \in Families
    /\ valid = {} /\ granted = 0
    /\ account = "none" /\ tokens = {} /\ item = "none"
    /\ overlapped = FALSE /\ tagged = FALSE /\ mishaps = FALSE
    /\ call = [s \in Slots |-> Idle]
    /\ calls = 0 /\ faults = 0

At(s, pc) == call[s].pc = pc
Goto(s, pc) == call' = [call EXCEPT ![s].pc = pc]
Done(s) == call' = [call EXCEPT ![s] = Idle]
Counters == <<calls, faults>>
rows == <<account, tokens, item>>
history == <<overlapped, tagged, mishaps>>

Busy(pcs) == \E s \in Slots : call[s].pc \in pcs
Disconnecting == {"disconnect.account", "disconnect.tokens"}

Begin(s, pc) ==
    /\ call[s] = Idle
    /\ calls < MaxCalls
    /\ call' = [call EXCEPT ![s] = [pc |-> pc, refresh |-> NoRefresh, row |-> 0]]
    /\ calls' = calls + 1
    /\ UNCHANGED <<family, platform, rows, mishaps, faults>>

\* The platform hands out a refresh token.
Grant(s, pc, keeping) ==
    /\ granted < MaxGrants
    /\ granted' = granted + 1
    /\ valid' = keeping \cup {granted + 1}
    /\ call' = [call EXCEPT ![s].pc = pc, ![s].refresh = granted + 1]

-----------------------------------------------------------------------------
\* connectAccount: the state is recent, the creator there, ...
Connect(s) ==
    /\ Begin(s, "connect.exchange")
    /\ overlapped' = Busy(Disconnecting)
    /\ UNCHANGED tagged

\* ... the code is exchanged for tokens and the profile read, ...
Exchange(s) ==
    /\ At(s, "connect.exchange")
    /\ IF family = "drops" THEN Goto(s, "connect.find") /\ UNCHANGED platform
       ELSE Grant(s, "connect.find", valid)
    /\ UNCHANGED <<family, rows, history, Counters>>

\* ... saveSocialAccount looks for the account, ...
FindAccount(s) ==
    /\ At(s, "connect.find")
    /\ Goto(s, IF account = "none" THEN "connect.insert" ELSE "connect.update")
    /\ UNCHANGED <<family, platform, rows, history, Counters>>

\* ... and updates it, disconnected or not, or inserts it; another of the name
\* violates a UNIQUE key; ...
SaveAccount(s) ==
    /\ At(s, "connect.update") \/ (At(s, "connect.insert") /\ account = "none")
    /\ account' = "active"
    /\ Goto(s, "connect.tokens")
    /\ UNCHANGED <<family, platform, tokens, item, history, Counters>>

AccountExists(s) ==
    /\ At(s, "connect.insert") /\ account # "none"
    /\ Done(s)
    /\ UNCHANGED <<family, platform, rows, history, Counters>>

\* ... saveTokens likewise, ...
FindTokens(s) ==
    /\ At(s, "connect.tokens")
    /\ \/ /\ tokens = {} /\ Goto(s, "connect.add")
       \/ \E r \in tokens :
              call' = [call EXCEPT ![s].pc = "connect.replace", ![s].row = r.id]
    /\ UNCHANGED <<family, platform, rows, history, Counters>>

AddTokens(s) ==
    /\ At(s, "connect.add")
    /\ LET free == 1..MaxGrants \ {r.id : r \in tokens}
       IN  \E i \in free :
               /\ \A j \in free : i <= j
               /\ tokens' = tokens \cup {[id |-> i, refresh |-> call[s].refresh,
                                          active |-> TRUE, expired |-> FALSE]}
    /\ Goto(s, "connect.job")
    /\ UNCHANGED <<family, platform, account, item, history, Counters>>

\* ... for a refresh too, and makes the row active again, ...
ReplaceTokens(s) ==
    /\ At(s, "connect.replace") \/ At(s, "sync.replace")
    /\ tokens' = {IF r.id = call[s].row
                  THEN [r EXCEPT !.refresh = call[s].refresh, !.active = TRUE, !.expired = FALSE]
                  ELSE r : r \in tokens}
    /\ Goto(s, IF At(s, "connect.replace") THEN "connect.job" ELSE "sync.fetch")
    /\ UNCHANGED <<family, platform, account, item, history, Counters>>

\* ... and a full_sync job is filed, which nobody reads.
ScheduleSyncJob(s) ==
    /\ At(s, "connect.job")
    /\ Done(s)
    /\ UNCHANGED <<family, platform, rows, history, Counters>>

-----------------------------------------------------------------------------
\* syncContent of an account that is active, ...
SyncContent(s) ==
    /\ account = "active"
    /\ Begin(s, "sync.token")
    /\ overlapped' = (overlapped \/ Busy(Disconnecting))
    /\ tagged' = FALSE

\* ... getValidToken: the active row's, ...
GetTokens(s, r) ==
    /\ At(s, "sync.token")
    /\ r.active
    /\ IF r.expired
       THEN /\ r.refresh # NoRefresh
            /\ call' = [call EXCEPT ![s].pc = "sync.refresh", ![s].refresh = r.refresh]
       ELSE Goto(s, "sync.fetch")
    /\ UNCHANGED <<family, platform, rows, history, Counters>>

\* ... 'No tokens found', 'Token expired and no refresh token available', ...
NoTokens(s) ==
    /\ At(s, "sync.token")
    /\ \/ \A r \in tokens : ~r.active
       \/ \E r \in tokens : r.active /\ r.expired /\ r.refresh = NoRefresh
    /\ Done(s)
    /\ UNCHANGED <<family, platform, rows, history, Counters>>

\* ... and if it has expired the platform is asked for others, ...
RefreshKeeps(s) ==
    /\ At(s, "sync.refresh") /\ family = "keeps" /\ call[s].refresh \in valid
    /\ Goto(s, "sync.find")
    /\ UNCHANGED <<family, platform, rows, history, Counters>>

RefreshRotates(s) ==
    /\ At(s, "sync.refresh") /\ family = "rotates" /\ call[s].refresh \in valid
    /\ Grant(s, "sync.find", valid \ {call[s].refresh})
    /\ UNCHANGED <<family, rows, history, Counters>>

RefreshRefused(s) ==
    /\ At(s, "sync.refresh") /\ call[s].refresh \notin valid
    /\ Done(s)
    /\ UNCHANGED <<family, platform, rows, history, Counters>>

\* ... which replace a row, whatever became of the account.
FindRow(s) ==
    /\ At(s, "sync.find")
    /\ \E r \in tokens : call' = [call EXCEPT ![s].pc = "sync.replace", ![s].row = r.id]
    /\ UNCHANGED <<family, platform, rows, history, Counters>>

\* The content is fetched; saveContent looks for an item ...
FetchContent(s) ==
    /\ At(s, "sync.fetch")
    /\ Goto(s, IF item = "none" THEN "sync.insert" ELSE "sync.update")
    /\ UNCHANGED <<family, platform, rows, history, Counters>>

\* ... and writes it as the platform has it, metadata and is_sponsored included.
SaveContent(s) ==
    /\ At(s, "sync.update") \/ At(s, "sync.insert")
    /\ item' = "untagged"
    /\ Goto(s, "sync.finish")
    /\ UNCHANGED <<family, platform, account, tokens, history, Counters>>

\* What cannot be saved is logged.
SaveContentFails(s) ==
    /\ At(s, "sync.update") \/ At(s, "sync.insert")
    /\ Goto(s, "sync.finish")
    /\ UNCHANGED <<family, platform, rows, history, Counters>>

\* last_synced_at, and the demographics.
SyncFinish(s) ==
    /\ At(s, "sync.finish")
    /\ Done(s)
    /\ UNCHANGED <<family, platform, rows, history, Counters>>

-----------------------------------------------------------------------------
\* disconnectAccount: the account, ...
Disconnect(s) ==
    /\ account # "none"
    /\ Begin(s, "disconnect.account")
    /\ overlapped' = Busy(Connecting \cup Syncing)
    /\ UNCHANGED tagged

DisconnectAccount(s) ==
    /\ At(s, "disconnect.account")
    /\ account' = "disconnected"
    /\ Goto(s, "disconnect.tokens")
    /\ UNCHANGED <<family, platform, tokens, item, history, Counters>>

\* ... then its tokens.
DisconnectTokens(s) ==
    /\ At(s, "disconnect.tokens")
    /\ tokens' = {[r EXCEPT !.active = FALSE] : r \in tokens}
    /\ Done(s)
    /\ UNCHANGED <<family, platform, account, item, history, Counters>>

\* tagContentAsCampaign reads the item's metadata ...
Tag(s) ==
    /\ item # "none"
    /\ Begin(s, "tag.write")
    /\ UNCHANGED <<overlapped, tagged>>

\* ... and writes it back with the campaign.
TagWrite(s) ==
    /\ At(s, "tag.write")
    /\ item' = "tagged"
    /\ tagged' = ~Busy(Syncing)
    /\ Done(s)
    /\ UNCHANGED <<family, platform, account, tokens, overlapped, mishaps, Counters>>

-----------------------------------------------------------------------------
TokenExpires(r) ==
    /\ ~r.expired
    /\ tokens' = (tokens \ {r}) \cup {[r EXCEPT !.expired = TRUE]}
    /\ UNCHANGED <<family, platform, account, item, history, call, Counters>>

\* A statement or an answer of the platform fails.
RequestFails(s) ==
    /\ call[s] # Idle
    /\ faults < MaxFaults /\ faults' = faults + 1
    /\ mishaps' = TRUE
    /\ Done(s)
    /\ UNCHANGED <<family, platform, rows, overlapped, tagged, calls>>

Crash ==
    /\ faults < MaxFaults /\ faults' = faults + 1
    /\ mishaps' = TRUE
    /\ call' = [s \in Slots |-> Idle]
    /\ UNCHANGED <<family, platform, rows, overlapped, tagged, calls>>

Next ==
    \/ \E s \in Slots :
           \/ Connect(s) \/ Exchange(s) \/ FindAccount(s) \/ SaveAccount(s) \/ AccountExists(s)
           \/ FindTokens(s) \/ AddTokens(s) \/ ReplaceTokens(s) \/ ScheduleSyncJob(s)
           \/ SyncContent(s) \/ (\E r \in tokens : GetTokens(s, r)) \/ NoTokens(s)
           \/ RefreshKeeps(s) \/ RefreshRotates(s) \/ RefreshRefused(s) \/ FindRow(s)
           \/ FetchContent(s) \/ SaveContent(s) \/ SaveContentFails(s) \/ SyncFinish(s)
           \/ Disconnect(s) \/ DisconnectAccount(s) \/ DisconnectTokens(s)
           \/ Tag(s) \/ TagWrite(s)
           \/ RequestFails(s)
    \/ \E r \in tokens : TokenExpires(r)
    \/ Crash

Spec == Init /\ [][Next]_vars

-----------------------------------------------------------------------------
\* An account is active exactly when it has tokens that are, once its requests
\* are over, unless one failed or a disconnect met another.
AccountMatchesTokens ==
    ~Busy(Connecting \cup Disconnecting) /\ ~overlapped /\ ~mishaps =>
        (account = "active" <=> \E r \in tokens : r.active)

\* Where the platform hands out refresh tokens, however many requests refresh at
\* once, the one that is stored is accepted or about to be replaced; two
\* connects at once may have stored two, of which one is left behind.
RefreshTokenKept ==
    family # "drops" /\ ~mishaps /\ Cardinality(tokens) = 1 =>
        \A r \in tokens :
            r.refresh \in valid \/ \E s \in Slots : call[s].pc \in {"sync.find", "sync.replace"}

\* A campaign tag stays until the next sync.
TagLastsUntilSync == tagged => item = "tagged"

=============================================================================
