--------------------------- MODULE ChannelDelivery ---------------------------
(***************************************************************************)
(* Real-time delivery of one channel's events by ChatGateway.  The gateway *)
(* keeps two maps in memory: userSockets, the sockets of each connected    *)
(* user, and channelMembers, a cache of the channel's members that         *)
(* connecting users are added to, that broadcastToChannel fills from the   *)
(* database when it finds it empty, and that only invite_members clears.   *)
(* getUserChannels answers from Redis or from the database; its Redis key  *)
(* is written and deleted by callbacks of their own, so that its answer    *)
(* may be any that was true once.  It lists the 50 most recent channels.   *)
(***************************************************************************)
EXTENDS ChatUsers, FiniteSets

CONSTANTS
    Sockets,   \* connections clients open, each once
    Owner,     \* Owner[k]: the user whose token socket k presents
    Busy,      \* users who are members of more channels than are listed
    Mentioned, \* users whom clients mention in their messages
    Casts      \* broadcastToChannel calls in flight at once

ASSUME MentionedAssumption == Mentioned \subseteq Users
ASSUME OwnerAssumption == Owner \in [Sockets -> Users]

VARIABLES
    members,         \* users with an active chat_participants row
    held,            \* held[u]: the answers getUserChannels has had for u
    conn,            \* conn[k]: life of the socket
    join,            \* join[k]: progress of k's handleConnection
    userSockets,     \* the gateway's map; a user without a key has {}
    channelMembers,  \* the gateway's cache; {} stands for no entry as well
    cast,            \* the broadcasts in flight
    disturbed,       \* history: has the membership changed, or the entry been cleared
    received         \* history: <<user, kind>> of what was emitted

vars == <<members, held, conn, join, userSockets, channelMembers, cast, disturbed, received>>

Answers == {"yes", "no"}
Idle == [pc |-> "idle"]
At(pc, clear, set, mentions) == [pc |-> pc, clear |-> clear, set |-> set, mentions |-> mentions]

TypeOK ==
    /\ members \subseteq Users
    /\ held \in [Users -> SUBSET Answers]
    /\ conn \in [Sockets -> {"new", "live", "closed"}]
    /\ join \in [Sockets -> Answers \cup {"none", "listing", "failed", "done"}]
    /\ userSockets \in [Users -> SUBSET Sockets]
    /\ channelMembers \subseteq Users
    /\ cast \in [Casts -> [pc : {"notify", "start", "fetch", "store"}, clear : BOOLEAN,
                           set : SUBSET Users, mentions : SUBSET Users] \cup {Idle}]
    /\ disturbed \in BOOLEAN
    /\ received \subseteq Users \X {"event", "mention"}

InChannel(u, set) == IF u \in set THEN "yes" ELSE "no"

Init ==
    /\ members \in SUBSET Users
    /\ held = [u \in Users |-> {InChannel(u, members)}]
    /\ conn = [k \in Sockets |-> "new"]
    /\ join = [k \in Sockets |-> "none"]
    /\ userSockets = [u \in Users |-> {}]
    /\ channelMembers = {}
    /\ cast = [b \in Casts |-> Idle]
    /\ disturbed = FALSE
    /\ received = {}

Membership(set) ==
    /\ members' = set
    /\ held' = [u \in Users |-> held[u] \cup {InChannel(u, set)}]
    /\ disturbed' = (disturbed \/ set # members)

-----------------------------------------------------------------------------
\* addMembers and removeMember / leaveChannel over HTTP: the gateway's cache is
\* not told.
AddMember(u) ==
    /\ u \notin members
    /\ Membership(members \cup {u})
    /\ UNCHANGED <<conn, join, userSockets, channelMembers, cast, received>>

RemoveMember(u) ==
    /\ u \in members
    /\ Membership(members \ {u})
    /\ UNCHANGED <<conn, join, userSockets, channelMembers, cast, received>>

-----------------------------------------------------------------------------
\* handleConnection registers the socket, then awaits getUserChannels.
Connect(k) ==
    /\ conn[k] = "new"
    /\ conn' = [conn EXCEPT ![k] = "live"]
    /\ userSockets' = [userSockets EXCEPT ![Owner[k]] = @ \cup {k}]
    /\ join' = [join EXCEPT ![k] = "listing"]
    /\ UNCHANGED <<members, held, channelMembers, cast, disturbed, received>>

\* A channel may be missing from a listing that is full.
Listings(u) == held[u] \cup {a \in {"no"} : u \in Busy}

GetUserChannels(k) ==
    /\ join[k] = "listing"
    /\ \E a \in Listings(Owner[k]) : join' = [join EXCEPT ![k] = a]
    /\ UNCHANGED <<members, held, conn, userSockets, channelMembers, cast, disturbed, received>>

\* joinUserChannels swallows a failed query: the socket stays, in no channel.
ListFails(k) ==
    /\ join[k] = "listing"
    /\ join' = [join EXCEPT ![k] = "failed"]
    /\ UNCHANGED <<members, held, conn, userSockets, channelMembers, cast, disturbed, received>>

\* Mutants: the socket is registered again; the answer is not looked at; only
\* the first to connect is put into the cache entry.
JoinUserChannelsRegistering(k) ==
    /\ join[k] \in Answers
    /\ channelMembers' = channelMembers \cup {u \in {Owner[k]} : join[k] = "yes"}
    /\ userSockets' = [userSockets EXCEPT ![Owner[k]] = @ \cup {k}]
    /\ join' = [join EXCEPT ![k] = "done"]
    /\ UNCHANGED <<members, held, conn, cast, disturbed, received>>
JoinUserChannelsUnasked(k) ==
    /\ join[k] \in Answers
    /\ channelMembers' = channelMembers \cup {Owner[k]}
    /\ join' = [join EXCEPT ![k] = "done"]
    /\ UNCHANGED <<members, held, conn, userSockets, cast, disturbed, received>>
JoinUserChannelsOnce(k) ==
    /\ join[k] \in Answers
    /\ channelMembers' = IF channelMembers # {} THEN channelMembers
                         ELSE {u \in {Owner[k]} : join[k] = "yes"}
    /\ join' = [join EXCEPT ![k] = "done"]
    /\ UNCHANGED <<members, held, conn, userSockets, cast, disturbed, received>>

\* joinUserChannels, whether or not the socket is still there.
JoinUserChannels(k) ==
    /\ join[k] \in Answers
    /\ channelMembers' = channelMembers \cup {u \in {Owner[k]} : join[k] = "yes"}
    /\ join' = [join EXCEPT ![k] = "done"]
    /\ UNCHANGED <<members, held, conn, userSockets, cast, disturbed, received>>

HandleDisconnect(k) ==
    /\ conn[k] = "live"
    /\ conn' = [conn EXCEPT ![k] = "closed"]
    /\ userSockets' = [userSockets EXCEPT ![Owner[k]] = @ \ {k}]
    /\ UNCHANGED <<members, held, join, channelMembers, cast, disturbed, received>>

-----------------------------------------------------------------------------
Told(set, kind) == {u \in set : userSockets[u] # {}} \X {kind}
Emit(set) == received' = received \cup Told(set, "event")
Move(b, step) == cast' = [cast EXCEPT ![b] = step]

\* A handler has an event for the channel.  The messages and thread replies of
\* clients carry the ids of whom they mention.
Broadcast(b, mentions) ==
    /\ cast[b] = Idle
    /\ Move(b, At("start", FALSE, {}, mentions))
    /\ UNCHANGED <<members, held, conn, join, userSockets, channelMembers, disturbed, received>>

\* handleInviteMembers: addMembers, ...
InviteMember(b, u) ==
    /\ cast[b] = Idle
    /\ Membership(members \cup {u})
    /\ Move(b, At("notify", TRUE, {u}, {}))
    /\ UNCHANGED <<conn, join, userSockets, channelMembers, received>>

\* ... broadcastToUser to whom it invited, then the channel's own event, after
\* which it deletes the cache entry.
NotifyInvited(b) ==
    /\ cast[b].pc = "notify"
    /\ Emit(cast[b].set)
    /\ Move(b, At("start", TRUE, {}, {}))
    /\ UNCHANGED <<members, held, conn, join, userSockets, channelMembers, disturbed>>

\* The emits, and then those of send_message and thread_reply to whom they mention,
\* whoever that is, or invite_members' delete: nothing runs in between.
Deliver(b, set) ==
    /\ received' = received \cup Told(set, "event") \cup Told(cast[b].mentions, "mention")
    /\ channelMembers' = IF cast[b].clear THEN {} ELSE set
    /\ disturbed' = (disturbed \/ cast[b].clear)
    /\ Move(b, Idle)

\* broadcastToChannel trusts a cache entry that is not empty.
CastCached(b) ==
    /\ cast[b].pc = "start"
    /\ channelMembers # {}
    /\ Deliver(b, channelMembers)
    /\ UNCHANGED <<members, held, conn, join, userSockets>>

CastMiss(b) ==
    /\ cast[b].pc = "start"
    /\ channelMembers = {}
    /\ Move(b, [cast[b] EXCEPT !.pc = "fetch"])
    /\ UNCHANGED <<members, held, conn, join, userSockets, channelMembers, disturbed, received>>

\* sp_GetChannelMembers_Fast runs, ...
CastFetch(b) ==
    /\ cast[b].pc = "fetch"
    /\ Move(b, [cast[b] EXCEPT !.pc = "store", !.set = members])
    /\ UNCHANGED <<members, held, conn, join, userSockets, channelMembers, disturbed, received>>

\* ... and its answer replaces whatever the entry has become meanwhile.
CastStore(b) ==
    /\ cast[b].pc = "store"
    /\ Deliver(b, cast[b].set)
    /\ UNCHANGED <<members, held, conn, join, userSockets>>

\* A query of the handler throws: no event, and no delete.
CastFails(b) ==
    /\ cast[b].pc \in {"notify", "fetch"}
    /\ Move(b, Idle)
    /\ UNCHANGED <<members, held, conn, join, userSockets, channelMembers, disturbed, received>>

Next ==
    \/ \E u \in Users : AddMember(u) \/ RemoveMember(u)
    \/ \E k \in Sockets : \/ Connect(k) \/ GetUserChannels(k) \/ ListFails(k)
                          \/ JoinUserChannels(k) \/ HandleDisconnect(k)
    \/ \E b \in Casts, u \in Users : InviteMember(b, u)
    \/ \E b \in Casts, mentions \in SUBSET Mentioned : Broadcast(b, mentions)
    \/ \E b \in Casts : \/ NotifyInvited(b) \/ CastCached(b) \/ CastMiss(b)
                        \/ CastFetch(b) \/ CastStore(b) \/ CastFails(b)

Spec == Init /\ [][Next]_vars

-----------------------------------------------------------------------------
Connected(k) == conn[k] = "live" /\ join[k] = "done"

\* The registry holds exactly the sockets that are open: a socket that closes
\* while handleConnection awaits its channels is not left behind, and none is
\* missing while it is open.
RegistryExact ==
    \A u \in Users : userSockets[u] = {k \in Sockets : Owner[k] = u /\ conn[k] = "live"}

\* Whoever was never a member hears nothing of the channel but that a message
\* mentions it: no event is emitted to a stranger through whichever stale copy of
\* the membership the recipients were found.
NoStranger == \A u \in Users : <<u, "event">> \in received => "yes" \in held[u]

\* While the membership stands still and nothing clears the cache entry, a
\* broadcast from it misses no member who is connected and whose channels fit into
\* a listing: users who connect while a broadcast is fetching the members are in
\* what it stores, the others add themselves.
Reaches == channelMembers # {} =>
    \A k \in Sockets : Connected(k) /\ Owner[k] \in members \ Busy => Owner[k] \in channelMembers
ReachesUntilDisturbed == ~disturbed => Reaches

=============================================================================
