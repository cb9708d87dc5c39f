----------------------------- MODULE ChatProofs -----------------------------
(***************************************************************************)
(* Theorems about the chat and the ways into it: the gateway               *)
(* (ChannelDelivery), for any users, connections and broadcasts in flight; *)
(* the permission to send (SendPermission), for any calls in flight and    *)
(* any time to live; the read receipts (ReadReceipts), for any finite set  *)
(* of users and any messages and calls; and messages, notifications,       *)
(* onboarding and sign-in by provider (ChatAndSignUp), for any messages,   *)
(* files, tenants, providers, requests, calls and faults.                  *)
(***************************************************************************)
EXTENDS ChannelDelivery, SendPermission, ReadReceipts, ChatAndSignUp, FiniteSetTheorems, TLAPS

CastStates == [pc : {"notify", "start", "fetch", "store"}, clear : BOOLEAN,
               set : SUBSET Users, mentions : SUBSET Users]

LEMMA CastShape ==
    ASSUME TypeOK, NEW b \in Casts, cast[b].pc \in {"notify", "start", "fetch", "store"}
    PROVE  cast[b] \in CastStates
    <1>1. Idle.pc = "idle"
        BY DEF Idle
    <1> QED
        BY <1>1 DEF TypeOK, CastStates

LEMMA Placing ==
    ASSUME TypeOK, NEW b \in Casts, NEW c \in CastStates \cup {Idle}, Move(b, c)
    PROVE  cast' \in [Casts -> CastStates \cup {Idle}]
    BY DEF TypeOK, CastStates, Move

\* Type correctness: Spec => []TypeOK.
LEMMA TypeInit == Init => TypeOK
    <1> SUFFICES ASSUME Init PROVE TypeOK
        OBVIOUS
    <1>1. members \subseteq Users /\ held \in [Users -> SUBSET Answers]
        BY DEF Init, InChannel, Answers
    <1>2. /\ conn \in [Sockets -> {"new", "live", "closed"}]
          /\ join \in [Sockets -> Answers \cup {"none", "listing", "failed", "done"}]
        BY DEF Init
    <1>3. userSockets \in [Users -> SUBSET Sockets] /\ cast \in [Casts -> CastStates \cup {Idle}]
        BY DEF Init
    <1> QED
        BY <1>1, <1>2, <1>3 DEF Init, TypeOK, CastStates

LEMMA TypeNext == TypeOK /\ [Next]_vars => TypeOK'
    <1> SUFFICES ASSUME TypeOK, [Next]_vars PROVE TypeOK'
        OBVIOUS
    <1>1. CASE UNCHANGED vars
        BY <1>1 DEF vars, TypeOK
    <1>2. ASSUME NEW set \in SUBSET Users, Membership(set)
          PROVE  /\ members' \subseteq Users
                 /\ held' \in [Users -> SUBSET Answers]
                 /\ disturbed' \in BOOLEAN
        BY <1>2 DEF Membership, InChannel, Answers, TypeOK
    <1>3. ASSUME NEW u \in Users, AddMember(u) \/ RemoveMember(u) PROVE TypeOK'
        <2>1. \E set \in SUBSET Users : Membership(set)
            BY <1>3 DEF AddMember, RemoveMember, TypeOK
        <2> QED
            BY <1>2, <1>3, <2>1 DEF AddMember, RemoveMember, TypeOK
    <1>4. ASSUME NEW k \in Sockets, \/ Connect(k) \/ GetUserChannels(k) \/ ListFails(k)
                                    \/ JoinUserChannels(k) \/ HandleDisconnect(k)
          PROVE  TypeOK'
        <2>1. Owner[k] \in Users
            BY OwnerAssumption
        <2>2. CASE Connect(k)
            BY <2>1, <2>2 DEF Connect, TypeOK
        <2>3. CASE GetUserChannels(k) \/ ListFails(k)
            BY <2>1, <2>3 DEF GetUserChannels, Listings, ListFails, TypeOK, Answers
        <2>4. CASE JoinUserChannels(k)
            BY <2>1, <2>4 DEF JoinUserChannels, TypeOK
        <2>5. CASE HandleDisconnect(k)
            BY <2>1, <2>5 DEF HandleDisconnect, TypeOK
        <2> QED
            BY <1>4, <2>2, <2>3, <2>4, <2>5
    <1>5. ASSUME NEW b \in Casts, NEW u \in Users, InviteMember(b, u) PROVE TypeOK'
        <2>1. members \cup {u} \in SUBSET Users
            BY DEF TypeOK
        <2>2. cast' \in [Casts -> CastStates \cup {Idle}]
            BY <1>5, Placing DEF InviteMember, At, CastStates
        <2> QED
            BY <1>2, <1>5, <2>1, <2>2 DEF InviteMember, TypeOK, CastStates
    <1>6. ASSUME NEW b \in Casts, NEW set \in SUBSET Users, Deliver(b, set), cast[b] \in CastStates
          PROVE  /\ channelMembers' \subseteq Users
                 /\ received' \subseteq Users \X {"event", "mention"}
                 /\ cast' \in [Casts -> CastStates \cup {Idle}]
        <2>1. cast' \in [Casts -> CastStates \cup {Idle}]
            BY <1>6, Placing DEF Deliver
        <2>2. cast[b].mentions \subseteq Users
            BY <1>6 DEF CastStates
        <2>3. received' \subseteq Users \X {"event", "mention"}
            BY <1>6, <2>2 DEF Deliver, Told, TypeOK
        <2> QED
            BY <1>6, <2>1, <2>3 DEF Deliver, TypeOK
    <1>7. ASSUME NEW b \in Casts, NEW set \in SUBSET Users, Deliver(b, set),
                 cast[b] \in CastStates
          PROVE  disturbed' \in BOOLEAN
        BY <1>7 DEF Deliver, CastStates, TypeOK
    <1>8. ASSUME NEW b \in Casts, CastCached(b) \/ CastStore(b) PROVE TypeOK'
        <2>1. cast[b] \in CastStates
            BY <1>8, CastShape DEF CastCached, CastStore
        <2>2. cast[b].set \in SUBSET Users /\ channelMembers \in SUBSET Users
            BY <2>1 DEF CastStates, TypeOK
        <2> QED
            BY <1>6, <1>7, <1>8, <2>1, <2>2 DEF CastCached, CastStore, TypeOK, CastStates
    <1>10. ASSUME NEW b \in Casts, NEW mentions \in SUBSET Mentioned, Broadcast(b, mentions)
           PROVE  TypeOK'
        <2>1. cast' \in [Casts -> CastStates \cup {Idle}]
            BY <1>10, Placing, MentionedAssumption DEF Broadcast, At, CastStates
        <2> QED
            BY <1>10, <2>1 DEF Broadcast, TypeOK, CastStates
    <1>9. ASSUME NEW b \in Casts, NotifyInvited(b) \/ CastMiss(b) \/ CastFetch(b) \/ CastFails(b)
          PROVE  TypeOK'
        <2>2. CASE NotifyInvited(b)
            <3>1. cast' \in [Casts -> CastStates \cup {Idle}]
                BY <2>2, Placing DEF NotifyInvited, At, CastStates
            <3>2. cast[b].set \subseteq Users
                BY <2>2, CastShape DEF NotifyInvited, CastStates
            <3>3. received' \subseteq Users \X {"event", "mention"}
                BY <2>2, <3>2 DEF NotifyInvited, Emit, Told, TypeOK
            <3> QED
                BY <2>2, <3>1, <3>3 DEF NotifyInvited, TypeOK, CastStates
        <2>3. CASE CastMiss(b)
            <3>1. [cast[b] EXCEPT !.pc = "fetch"] \in CastStates
                BY <2>3, CastShape DEF CastMiss, CastStates
            <3>2. cast' \in [Casts -> CastStates \cup {Idle}]
                BY <2>3, <3>1, Placing DEF CastMiss
            <3> QED
                BY <2>3, <3>2 DEF CastMiss, TypeOK, CastStates
        <2>4. CASE CastFetch(b)
            <3>1. [cast[b] EXCEPT !.pc = "store", !.set = members] \in CastStates
                BY <2>4, CastShape DEF CastFetch, CastStates, TypeOK
            <3>2. cast' \in [Casts -> CastStates \cup {Idle}]
                BY <2>4, <3>1, Placing DEF CastFetch
            <3> QED
                BY <2>4, <3>2 DEF CastFetch, TypeOK, CastStates
        <2>5. CASE CastFails(b)
            <3>1. cast' \in [Casts -> CastStates \cup {Idle}]
                BY <2>5, Placing DEF CastFails
            <3> QED
                BY <2>5, <3>1 DEF CastFails, TypeOK, CastStates
        <2> QED
            BY <1>9, <2>2, <2>3, <2>4, <2>5
    <1> QED
        BY <1>1, <1>3, <1>4, <1>5, <1>8, <1>9, <1>10 DEF Next

\* Members, connections, caches and broadcasts of the gateway have their types.
THEOREM TypeCorrect == Spec => []TypeOK
    BY TypeInit, TypeNext, PTL DEF Spec

-----------------------------------------------------------------------------
\* RegistryExact: the registry holds exactly the open sockets of each user.
THEOREM RegistryIsExact == Spec => []RegistryExact
    <1>1. Init => RegistryExact
        BY DEF Init, RegistryExact
    <1>2. TypeOK /\ RegistryExact /\ [Next]_vars => RegistryExact'
        <2> SUFFICES ASSUME TypeOK, RegistryExact, [Next]_vars PROVE RegistryExact'
            OBVIOUS
        <2>1. CASE UNCHANGED <<userSockets, conn>>
            BY <2>1 DEF RegistryExact
        <2>2. ASSUME NEW k \in Sockets, Connect(k) PROVE RegistryExact'
            <3>1. Owner[k] \in Users
                BY OwnerAssumption
            <3> QED
                BY <2>2, <3>1 DEF Connect, RegistryExact, TypeOK
        <2>3. ASSUME NEW k \in Sockets, HandleDisconnect(k) PROVE RegistryExact'
            <3>1. Owner[k] \in Users
                BY OwnerAssumption
            <3> QED
                BY <2>3, <3>1 DEF HandleDisconnect, RegistryExact, TypeOK
        <2> QED
            BY <2>1, <2>2, <2>3
            DEF Next, vars, AddMember, RemoveMember, GetUserChannels, ListFails, JoinUserChannels,
                InviteMember, Broadcast, NotifyInvited, CastCached, CastMiss, CastFetch, CastStore,
                CastFails
    <1> QED
        BY <1>1, <1>2, TypeCorrect, PTL DEF Spec

-----------------------------------------------------------------------------
\* NoStranger: every copy of the membership that recipients are taken from holds
\* only users who were members once.
WasMember(u) == "yes" \in held[u]
Sourced ==
    /\ \A u \in members \cup channelMembers : WasMember(u)
    /\ \A k \in Sockets : join[k] = "yes" => WasMember(Owner[k])
    /\ \A b \in Casts : cast[b].pc \in {"notify", "store"} => \A u \in cast[b].set : WasMember(u)
    /\ NoStranger

LEMMA HeldGrows ==
    ASSUME TypeOK, Sourced, [Next]_vars
    PROVE  /\ \A u \in Users : WasMember(u) => WasMember(u)'
           /\ \A u \in members' : WasMember(u)'
    <1>1. ASSUME NEW set \in SUBSET Users, Membership(set)
          PROVE  /\ \A u \in Users : WasMember(u) => WasMember(u)'
                 /\ \A u \in members' : WasMember(u)'
        BY <1>1 DEF Membership, InChannel, WasMember, TypeOK
    <1>2. UNCHANGED <<members, held>> \/ \E set \in SUBSET Users : Membership(set)
        BY DEF Next, vars, AddMember, RemoveMember, InviteMember, Connect, GetUserChannels, ListFails,
               JoinUserChannels, HandleDisconnect, Broadcast, NotifyInvited, CastCached, CastMiss,
               CastFetch, CastStore, CastFails, TypeOK
    <1> QED
        BY <1>1, <1>2 DEF Sourced, WasMember, TypeOK

LEMMA SourcedStep == TypeOK /\ Sourced /\ [Next]_vars => Sourced'
    <1> SUFFICES ASSUME TypeOK, Sourced, [Next]_vars PROVE Sourced'
        OBVIOUS
    <1>1. \A u \in members' : WasMember(u)'
        BY HeldGrows
    <1> DEFINE Joined == \A k \in Sockets : join'[k] = "yes" => WasMember(Owner[k])'
    <1>2. Joined
        <2>1. CASE UNCHANGED join
            BY <2>1, HeldGrows, OwnerAssumption DEF Sourced
        <2>2. ASSUME NEW k \in Sockets, NEW a, join' = [join EXCEPT ![k] = a],
                     a = "yes" => WasMember(Owner[k])
              PROVE  Joined
            BY <2>2, HeldGrows, OwnerAssumption DEF Sourced, TypeOK
        <2>3. ASSUME NEW k \in Sockets, GetUserChannels(k) PROVE Joined
            BY <2>2, <2>3 DEF GetUserChannels, Listings, WasMember
        <2>4. ASSUME NEW k \in Sockets, Connect(k) \/ ListFails(k) \/ JoinUserChannels(k)
              PROVE  Joined
            BY <2>2, <2>4 DEF Connect, ListFails, JoinUserChannels
        <2> QED
            BY <2>1, <2>3, <2>4
            DEF Next, vars, AddMember, RemoveMember, InviteMember, HandleDisconnect, Broadcast,
                NotifyInvited, CastCached, CastMiss, CastFetch, CastStore, CastFails
    <1>3. /\ \A u \in channelMembers' : WasMember(u)'
          /\ \A b \in Casts : cast'[b].pc \in {"notify", "store"}
                                 => \A u \in cast'[b].set : WasMember(u)'
          /\ \A u \in Users : <<u, "event">> \in received' => WasMember(u)'
        <2> DEFINE Known(set) == \A u \in set : u \in Users /\ WasMember(u)'
                   Heard(emitted) == {u \in Users : <<u, "event">> \in emitted}
        <2>0. /\ Known(members) /\ Known(channelMembers) /\ Known(Heard(received))
              /\ \A b \in Casts : cast[b].pc \in {"notify", "store"} => Known(cast[b].set)
            BY HeldGrows, CastShape DEF Sourced, NoStranger, WasMember, TypeOK, CastStates
        <2>1. CASE UNCHANGED <<channelMembers, cast, received>>
            BY <2>0, <2>1
        <2>2. ASSUME NEW k \in Sockets, JoinUserChannels(k) PROVE <1>3!1 /\ <1>3!2 /\ <1>3!3
            <3>1. channelMembers' \subseteq channelMembers \cup {u \in {Owner[k]} : join[k] = "yes"}
                BY <2>2 DEF JoinUserChannels
            <3>2. join[k] = "yes" => WasMember(Owner[k])'
                BY HeldGrows, OwnerAssumption DEF Sourced
            <3> QED
                BY <2>0, <2>2, <3>1, <3>2 DEF JoinUserChannels
        <2>3. ASSUME NEW b \in Casts, NEW c, Move(b, c), UNCHANGED <<channelMembers, received>>,
                     c.pc \in {"notify", "store"} => Known(c.set)
              PROVE  <1>3!1 /\ <1>3!2 /\ <1>3!3
            BY <2>0, <2>3 DEF Move, TypeOK
        <2>4. Idle.pc = "idle"
            BY DEF Idle
        <2>5. ASSUME NEW b \in Casts, CastFails(b) \/ \E mentions \in SUBSET Mentioned : Broadcast(b, mentions)
              PROVE  <1>3!1 /\ <1>3!2 /\ <1>3!3
            BY <2>3, <2>4, <2>5 DEF Broadcast, CastFails, At
        <2>6. ASSUME NEW b \in Casts, NEW u \in Users, InviteMember(b, u)
              PROVE  <1>3!1 /\ <1>3!2 /\ <1>3!3
            <3>1. u \in members'
                BY <2>6 DEF InviteMember, Membership
            <3>2. Known({u})
                BY <3>1, HeldGrows
            <3> QED
                BY <2>3, <2>6, <3>2 DEF InviteMember, At
        <2>7. ASSUME NEW b \in Casts, CastMiss(b) PROVE <1>3!1 /\ <1>3!2 /\ <1>3!3
            <3>1. [cast[b] EXCEPT !.pc = "fetch"].pc = "fetch"
                BY <2>7, CastShape DEF CastMiss, CastStates
            <3> QED
                BY <2>3, <2>7, <3>1 DEF CastMiss
        <2>8. ASSUME NEW b \in Casts, CastFetch(b) PROVE <1>3!1 /\ <1>3!2 /\ <1>3!3
            <3>1. [cast[b] EXCEPT !.pc = "store", !.set = members].set = members
                BY <2>8, CastShape DEF CastFetch, CastStates
            <3> QED
                BY <2>0, <2>3, <2>8, <3>1 DEF CastFetch
        <2>9. ASSUME NEW b \in Casts, NotifyInvited(b) PROVE <1>3!1 /\ <1>3!2 /\ <1>3!3
            <3>1. Known(Heard(received'))
                BY <2>0, <2>9 DEF NotifyInvited, Emit, Told
            <3>2. \A d \in Casts : cast'[d].pc \in {"notify", "store"} => cast'[d] = cast[d]
                BY <2>9 DEF NotifyInvited, Move, At, TypeOK
            <3> QED
                BY <2>0, <2>9, <3>1, <3>2 DEF NotifyInvited
        <2>10. ASSUME NEW b \in Casts, NEW set, Deliver(b, set), Known(set)
               PROVE  <1>3!1 /\ <1>3!2 /\ <1>3!3
            <3>1. \A d \in Casts : cast'[d].pc \in {"notify", "store"} => cast'[d] = cast[d]
                BY <2>4, <2>10 DEF Deliver, Move, TypeOK
            <3>2. Known(Heard(received')) /\ Known(channelMembers')
                BY <2>0, <2>10 DEF Deliver, Told
            <3> QED
                BY <2>0, <3>1, <3>2
        <2>11. ASSUME NEW b \in Casts, CastCached(b) \/ CastStore(b)
               PROVE  <1>3!1 /\ <1>3!2 /\ <1>3!3
            BY <2>0, <2>10, <2>11 DEF CastCached, CastStore
        <2> QED
            BY <2>1, <2>2, <2>5, <2>6, <2>7, <2>8, <2>9, <2>11
            DEF Next, vars, AddMember, RemoveMember, Connect, GetUserChannels, ListFails,
                HandleDisconnect
    <1> QED
        BY <1>1, <1>2, <1>3 DEF Sourced, NoStranger, WasMember

\* NoStranger: whichever stale copy the recipients come from, whoever an event of
\* the channel reaches was a member once.
THEOREM NoStrangerEver == Spec => []NoStranger
    <1>1. Init => Sourced
        <2> SUFFICES ASSUME Init PROVE Sourced
            OBVIOUS
        <2>1. \A u \in Users : u \in members => "yes" \in held[u]
            BY DEF Init, InChannel
        <2>2. received = {} /\ channelMembers = {} /\ \A b \in Casts : cast[b] = Idle
            BY DEF Init
        <2>3. \A k \in Sockets : conn[k] = "new" /\ join[k] = "none"
            BY DEF Init
        <2> QED
            BY <2>1, <2>2, <2>3, OwnerAssumption DEF Init, Sourced, NoStranger, WasMember, Idle
    <1>2. TypeOK /\ Sourced /\ [Next]_vars => Sourced'
        BY SourcedStep
    <1>3. Sourced => NoStranger
        BY DEF Sourced
    <1> QED
        BY <1>1, <1>2, <1>3, TypeCorrect, PTL DEF Spec

-----------------------------------------------------------------------------
\* ReachesUntilDisturbed: as long as nothing changes the membership or clears
\* the entry, all copies of the membership agree but for listings that are full, and
\* who has joined is in the entry, be it that it is still empty.
Complete ==
    /\ \A u \in Users : held[u] = {InChannel(u, members)}
    /\ \A k \in Sockets : join[k] \in Answers /\ Owner[k] \notin Busy => join[k] = InChannel(Owner[k], members)
    /\ \A b \in Casts : cast[b].pc = "store" => cast[b].set = members
    /\ \A k \in Sockets : join[k] = "done" /\ Owner[k] \in members \ Busy => Owner[k] \in channelMembers

LEMMA Standing ==
    ASSUME TypeOK, ~disturbed, Complete, [Next]_vars, ~disturbed'
    PROVE  members' = members /\ held' = held
    <1>1. ASSUME NEW set \in SUBSET Users, Membership(set) PROVE members' = members /\ held' = held
        <2>1. set = members
            BY <1>1 DEF Membership
        <2>2. \A u \in Users : held'[u] = held[u]
            BY <1>1, <2>1 DEF Membership, Complete
        <2>3. held' = [u \in Users |-> held'[u]] /\ held = [u \in Users |-> held[u]]
            BY <1>1 DEF Membership, TypeOK
        <2> QED
            BY <1>1, <2>1, <2>2, <2>3 DEF Membership
    <1>2. UNCHANGED <<members, held>> \/ \E set \in SUBSET Users : Membership(set)
        BY DEF Next, vars, AddMember, RemoveMember, InviteMember, Connect, GetUserChannels, ListFails,
               JoinUserChannels, HandleDisconnect, Broadcast, NotifyInvited, CastCached, CastMiss,
               CastFetch, CastStore, CastFails, TypeOK
    <1> QED
        BY <1>1, <1>2

LEMMA CompleteStep ==
    ASSUME TypeOK, ~disturbed, Complete, [Next]_vars, ~disturbed'
    PROVE  Complete'
    <1> USE Standing
    <1> DEFINE Joins == /\ \A k \in Sockets : join'[k] \in Answers /\ Owner[k] \notin Busy
                                               => join'[k] = InChannel(Owner[k], members)
                       /\ \A k \in Sockets : join'[k] = "done" /\ Owner[k] \in members \ Busy
                                               => Owner[k] \in channelMembers'
              Stores == \A b \in Casts : cast'[b].pc = "store" => cast'[b].set = members
    <1>1. Stores
        <2>1. Idle.pc = "idle"
            BY DEF Idle
        <2>2. ASSUME NEW b \in Casts, NEW c, Move(b, c), c.pc = "store" => c.set = members
              PROVE  Stores
            BY <2>2 DEF Complete, Move, TypeOK
        <2>3. ASSUME NEW b \in Casts, \/ CastFails(b) \/ NotifyInvited(b)
                                      \/ \E mentions \in SUBSET Mentioned : Broadcast(b, mentions)
              PROVE  Stores
            BY <2>1, <2>2, <2>3 DEF Broadcast, CastFails, NotifyInvited, At
        <2>4. ASSUME NEW b \in Casts, NEW u \in Users, InviteMember(b, u) PROVE Stores
            BY <2>2, <2>4 DEF InviteMember, At
        <2>5. ASSUME NEW b \in Casts, CastMiss(b) PROVE Stores
            <3>1. [cast[b] EXCEPT !.pc = "fetch"].pc = "fetch"
                BY <2>5, CastShape DEF CastMiss, CastStates
            <3> QED
                BY <2>2, <2>5, <3>1 DEF CastMiss
        <2>6. ASSUME NEW b \in Casts, CastFetch(b) PROVE Stores
            <3>1. [cast[b] EXCEPT !.pc = "store", !.set = members].set = members
                BY <2>6, CastShape DEF CastFetch, CastStates
            <3> QED
                BY <2>2, <2>6, <3>1 DEF CastFetch
        <2>7. ASSUME NEW b \in Casts, CastCached(b) \/ CastStore(b) PROVE Stores
            BY <2>1, <2>2, <2>7 DEF CastCached, CastStore, Deliver
        <2>8. CASE UNCHANGED cast
            BY <2>8 DEF Complete
        <2> QED
            BY <2>3, <2>4, <2>5, <2>6, <2>7, <2>8
            DEF Next, vars, AddMember, RemoveMember, Connect, GetUserChannels, ListFails,
                JoinUserChannels, HandleDisconnect
    <1>2. Joins
        <2>1. ASSUME NEW k \in Sockets, JoinUserChannels(k) PROVE Joins
            <3>1. join' = [join EXCEPT ![k] = "done"]
                BY <2>1 DEF JoinUserChannels
            <3>2. channelMembers' = channelMembers \cup {u \in {Owner[k]} : join[k] = "yes"}
                BY <2>1 DEF JoinUserChannels
            <3>3. Owner[k] \in members \ Busy => join[k] = "yes"
                BY <2>1 DEF JoinUserChannels, Complete, InChannel
            <3> QED
                BY <3>1, <3>2, <3>3 DEF Complete, TypeOK, Answers
        <2>2. ASSUME NEW k \in Sockets, NEW a, join' = [join EXCEPT ![k] = a],
                     UNCHANGED channelMembers, a # "done",
                     a \in Answers /\ Owner[k] \notin Busy => a = InChannel(Owner[k], members)
              PROVE  Joins
            BY <2>2 DEF Complete, TypeOK
        <2>3. ASSUME NEW k \in Sockets, GetUserChannels(k) PROVE Joins
            <3>1. PICK a \in Listings(Owner[k]) : join' = [join EXCEPT ![k] = a]
                BY <2>3 DEF GetUserChannels
            <3>2. Owner[k] \notin Busy => a = InChannel(Owner[k], members)
                BY <3>1, OwnerAssumption DEF Complete, Listings
            <3>3. a # "done"
                BY <3>1, OwnerAssumption DEF Listings, Complete, InChannel
            <3> QED
                BY <2>2, <2>3, <3>1, <3>2, <3>3 DEF GetUserChannels
        <2>4. ASSUME NEW k \in Sockets, Connect(k) \/ ListFails(k) PROVE Joins
            BY <2>2, <2>4 DEF Connect, ListFails, Answers
        <2>5. ASSUME NEW b \in Casts, NEW set, Deliver(b, set), UNCHANGED join,
                     set = channelMembers \/ set = members
              PROVE  Joins
            <3>1. channelMembers' = set
                BY <2>5 DEF Deliver
            <3> QED
                BY <2>5, <3>1 DEF Complete
        <2>6. ASSUME NEW b \in Casts, CastCached(b) \/ CastStore(b) PROVE Joins
            <3>1. cast[b].pc = "store" => cast[b].set = members
                BY DEF Complete
            <3> QED
                BY <2>5, <2>6, <3>1 DEF CastCached, CastStore
        <2>7. CASE UNCHANGED <<join, channelMembers>>
            BY <2>7 DEF Complete
        <2> QED
            BY <2>1, <2>3, <2>4, <2>6, <2>7
            DEF Next, vars, AddMember, RemoveMember, InviteMember, HandleDisconnect, Broadcast,
                NotifyInvited, CastMiss, CastFetch, CastFails
    <1> QED
        BY <1>1, <1>2 DEF Complete, InChannel

\* ReachesUntilDisturbed: until the membership changes or the entry is cleared, a
\* filled entry holds every connected member whose channels fit into a listing.
THEOREM ReachesUndisturbed == Spec => []ReachesUntilDisturbed
    <1>1. Init => Complete
        BY OwnerAssumption DEF Init, Complete, InChannel, Idle, Answers
    <1>2. TypeOK /\ (~disturbed => Complete) /\ [Next]_vars => (~disturbed => Complete)'
        <2>1. ASSUME TypeOK, [Next]_vars, ~disturbed' PROVE ~disturbed
            BY <2>1 DEF Next, vars, AddMember, RemoveMember, InviteMember, Membership, Connect,
               GetUserChannels, ListFails, JoinUserChannels, HandleDisconnect, Broadcast,
               NotifyInvited, CastCached, CastMiss, CastFetch, CastStore, CastFails, Deliver
        <2> QED
            BY <2>1, CompleteStep
    <1>3. (~disturbed => Complete) => ReachesUntilDisturbed
        BY DEF Complete, ReachesUntilDisturbed, Reaches, Connected
    <1> QED
        BY <1>1, <1>2, <1>3, TypeCorrect, PTL DEF Spec

-----------------------------------------------------------------------------
LEMMA SendShape ==
    ASSUME PermissionTypeOK, NEW s \in Sends, send[s].pc \in {"query", "insert"}
    PROVE  send[s] \in Call
    <1>1. NoSend.pc = "idle"
        BY DEF NoSend
    <1> QED
        BY <1>1 DEF PermissionTypeOK

LEMMA Renewal == \A ok \in BOOLEAN : [ok |-> ok, left |-> TTL] \in Entry
    BY TTLAssumption DEF Entry

LEMMA Ageing ==
    ASSUME PermissionTypeOK, NEW u \in Users
    PROVE  (IF entry[u].left > 1 THEN [entry[u] EXCEPT !.left = @ - 1] ELSE NoEntry)
               \in Entry \cup {NoEntry}
    <1> USE TTLAssumption
    <1>1. CASE entry[u] \in Entry
        BY <1>1 DEF Entry
    <1>2. CASE entry[u] = NoEntry
        BY <1>2 DEF NoEntry
    <1> QED
        BY <1>1, <1>2 DEF PermissionTypeOK

\* The cache of permissions and the sends in flight have their types.
THEOREM PermissionTyped == PermissionSpec => []PermissionTypeOK
    <1> USE TTLAssumption
    <1>1. PermissionInit => PermissionTypeOK
        BY DEF PermissionInit, PermissionTypeOK
    <1>2. PermissionTypeOK /\ [PermissionNext]_permissionVars => PermissionTypeOK'
        <2> SUFFICES ASSUME PermissionTypeOK, [PermissionNext]_permissionVars PROVE PermissionTypeOK'
            OBVIOUS
        <2>1. CASE UNCHANGED permissionVars
            BY <2>1 DEF permissionVars, PermissionTypeOK
        <2>2. ASSUME NEW u \in Users, Join(u) \/ Leave(u) PROVE PermissionTypeOK'
            BY <2>2 DEF Join, Leave, PermissionTypeOK
        <2>3. ASSUME NEW s \in Sends, NEW u \in Users, CacheHit(s, u) \/ CacheMiss(s, u)
              PROVE  PermissionTypeOK'
            BY <2>3 DEF CacheHit, CacheMiss, PermissionTypeOK, Call
        <2>4. ASSUME NEW s \in Sends, Query(s) PROVE PermissionTypeOK'
            BY <2>4, SendShape DEF Query, PermissionTypeOK, Call
        <2>5. ASSUME NEW s \in Sends, QueryFails(s) \/ Insert(s) PROVE PermissionTypeOK'
            BY <2>5 DEF QueryFails, Insert, PermissionTypeOK
        <2>6. ASSUME NEW u \in Users, NEW ok \in BOOLEAN, Fill(u, ok) PROVE PermissionTypeOK'
            BY <2>6, Renewal DEF Fill, PermissionTypeOK
        <2>7. CASE Tick
            BY <2>7, Ageing DEF Tick, PermissionTypeOK
        <2> QED
            BY <2>1, <2>2, <2>3, <2>4, <2>5, <2>6, <2>7 DEF PermissionNext, System
    <1> QED
        BY <1>1, <1>2, PTL DEF PermissionSpec

-----------------------------------------------------------------------------
\* NoResurrection: the permission of a former member never comes back.
LEMMA ResurrectionStep ==
    ASSUME PermissionTypeOK, PermissionNext, NEW v \in Users, ~member[v], ~MayPost(v), ~member'[v]
    PROVE  ~MayPost(v)'
    <1> USE TTLAssumption
    <1>1. /\ ~Granted(entry[v])
          /\ TRUE \notin fills[v]
          /\ \A s \in Sends : send[s] # [pc |-> "insert", user |-> v]
        BY DEF MayPost
    <1>2. SUFFICES /\ ~Granted(entry'[v])
                   /\ TRUE \notin fills'[v]
                   /\ \A s \in Sends : send'[s] # [pc |-> "insert", user |-> v]
        BY DEF MayPost
    <1>3. NoSend # [pc |-> "insert", user |-> v] /\ ~Granted(NoEntry)
        BY DEF NoSend, Granted
    <1>4. ASSUME NEW u \in Users, Join(u) \/ Leave(u) PROVE <1>2!1
        BY <1>1, <1>4 DEF Join, Leave
    <1>5. ASSUME NEW s \in Sends, NEW u \in Users, CacheHit(s, u) PROVE <1>2!1
        <2>1. UNCHANGED <<entry, fills>>
            BY <1>5 DEF CacheHit
        <2>2. CASE entry[u].ok
            <3>1. u # v
                BY <1>1, <1>5, <2>2 DEF CacheHit, Granted
            <3>2. send' = [send EXCEPT ![s] = [pc |-> "insert", user |-> u]]
                BY <1>5, <2>2 DEF CacheHit
            <3>3. [pc |-> "insert", user |-> u] # [pc |-> "insert", user |-> v]
                BY <3>1
            <3> QED
                BY <1>1, <2>1, <3>2, <3>3 DEF PermissionTypeOK
        <2>3. CASE ~entry[u].ok
            <3>1. send' = [send EXCEPT ![s] = NoSend]
                BY <1>5, <2>3 DEF CacheHit
            <3> QED
                BY <1>1, <1>3, <2>1, <3>1 DEF PermissionTypeOK
        <2> QED
            BY <2>2, <2>3
    <1>6. ASSUME NEW s \in Sends, NEW u \in Users, CacheMiss(s, u) PROVE <1>2!1
        BY <1>1, <1>6 DEF CacheMiss, PermissionTypeOK
    <1>7. ASSUME NEW s \in Sends, Query(s) PROVE <1>2!1
        <2>1. send[s].user \in Users
            BY <1>7, SendShape DEF Query, Call
        <2>2. \/ send' = [send EXCEPT ![s] = NoSend]
              \/ /\ send[s].user # v
                 /\ send' = [send EXCEPT ![s] = [pc |-> "insert", user |-> send[s].user]]
            <3>1. CASE member[send[s].user]
                BY <1>7, <3>1 DEF Query
            <3>2. CASE ~member[send[s].user]
                BY <1>7, <3>2 DEF Query
            <3> QED
                BY <3>1, <3>2
        <2>3. \A t \in Sends : send'[t] # [pc |-> "insert", user |-> v]
            BY <1>1, <1>3, <2>1, <2>2 DEF PermissionTypeOK
        <2>4. TRUE \notin fills'[v]
            BY <1>1, <1>7, <2>1 DEF Query, PermissionTypeOK
        <2> QED
            BY <1>1, <1>7, <2>3, <2>4 DEF Query
    <1>8. ASSUME NEW s \in Sends, QueryFails(s) \/ Insert(s) PROVE <1>2!1
        BY <1>1, <1>3, <1>8 DEF QueryFails, Insert, PermissionTypeOK
    <1>9. ASSUME NEW u \in Users, NEW ok \in BOOLEAN, Fill(u, ok) PROVE <1>2!1
        <2>1. u = v => ~ok
            BY <1>1, <1>9 DEF Fill
        <2>2. ~Granted(entry'[v])
            BY <1>1, <1>9, <2>1 DEF Fill, Granted, PermissionTypeOK
        <2> QED
            BY <1>1, <1>9, <2>2 DEF Fill, PermissionTypeOK
    <1>10. CASE Tick
        <2>1. ~Granted(entry'[v])
            BY <1>1, <1>3, <1>10 DEF Tick, Granted, PermissionTypeOK, Entry, NoEntry
        <2> QED
            BY <1>1, <1>10, <2>1 DEF Tick
    <1> QED
        BY <1>4, <1>5, <1>6, <1>7, <1>8, <1>9, <1>10 DEF PermissionNext, System

\* NoResurrection: no late fill, timed-out read or queued call brings a permission
\* that is gone back to a former member.
THEOREM PermissionStaysGone == PermissionSpec => NoResurrection
    <1> USE TTLAssumption
    <1>1. PermissionTypeOK /\ [PermissionNext]_permissionVars =>
              [\A u \in Users : ~member[u] /\ ~MayPost(u) /\ ~member'[u] => ~MayPost(u)']_permissionVars
        BY ResurrectionStep
    <1> QED
        BY <1>1, PermissionTyped, PTL DEF PermissionSpec, NoResurrection

-----------------------------------------------------------------------------
\* What a call knows of the messages it is about, and a direct channel of two of
\* its receipts: only the other one can be among them.
Informed(c) ==
    call[c] # NoCall =>
        /\ call[c].user \in participants /\ call[c].ids \subseteq call[c].before
        /\ \A m \in call[c].before : stage[m] # "unsent" /\ sender[m] # call[c].user
Paired ==
    direct /\ ~Crowded =>
        /\ Cardinality(participants) = 2 /\ lists = {participants}
        /\ \A m \in Messages : readBy[m] \subseteq participants \ {sender[m]}
Addressed(m) == stage[m] = "auto" => direct /\ (~Crowded => reader[m] = participants \ {sender[m]})

ReceiptInv ==
    /\ ReceiptTypeOK
    /\ \A m \in Messages : sender[m] \in participants /\ Addressed(m)
    /\ \A c \in Calls : Informed(c)
    /\ Paired

LEMMA MarkShape ==
    ASSUME ReceiptTypeOK, NEW c \in Calls
    PROVE  /\ call[c] # NoCall => call[c] \in MarkCall
           /\ call[c].pc \in {"update", "announce"} => call[c] # NoCall /\ call[c] \in MarkCall
    BY DEF ReceiptTypeOK, NoCall

\* Once a channel is crowded it stays so, and a direct one that is not has kept
\* its members.
LEMMA Crowding ==
    ASSUME ReceiptInv, NEW u \in Users \ participants, direct, participants' = participants \cup {u}, direct' = direct
    PROVE  Crowded'
    <1> USE UsersAssumption
    <1>1. IsFiniteSet(participants) /\ Cardinality(participants) \in Nat
        BY FS_Subset, FS_CardinalityType DEF ReceiptInv, ReceiptTypeOK
    <1>2. Cardinality(participants') = Cardinality(participants) + 1
        BY <1>1, FS_AddElement
    <1>3. Cardinality(participants) > 2 \/ Cardinality(participants) = 2
        BY DEF ReceiptInv, Paired, Crowded
    <1> QED
        BY <1>1, <1>2, <1>3 DEF Crowded

\* A call that is as it was still knows what it knew.
LEMMA StillInformed ==
    ASSUME ReceiptInv, NEW c \in Calls, call'[c] = call[c] \/ call'[c] = NoCall,
           participants \subseteq participants', sender' = sender,
           \A m \in Messages : stage[m] # "unsent" => stage'[m] # "unsent"
    PROVE  Informed(c)'
    <1> SUFFICES ASSUME call'[c] # NoCall
                 PROVE  /\ call'[c].user \in participants' /\ call'[c].ids \subseteq call'[c].before
                        /\ \A m \in call'[c].before :
                               stage'[m] # "unsent" /\ sender'[m] # call'[c].user
        BY DEF Informed
    <1>1. call'[c] = call[c] /\ call[c] \in MarkCall /\ Informed(c)
        BY MarkShape DEF ReceiptInv
    <1> QED
        BY <1>1 DEF Informed, MarkCall

LEMMA ReceiptInvKept == ReceiptInv /\ [ReceiptNext]_receiptVars => ReceiptInv'
    <1> USE UsersAssumption, AbortsAssumption
    <1> SUFFICES ASSUME ReceiptInv, [ReceiptNext]_receiptVars PROVE ReceiptInv'
        OBVIOUS
    <1>t. ReceiptTypeOK
        BY DEF ReceiptInv
    <1>1. CASE UNCHANGED receiptVars
        BY <1>1 DEF receiptVars, ReceiptInv, ReceiptTypeOK, Informed, Paired, Addressed, Crowded
    <1>2. ASSUME NEW u \in Users, AddParticipant(u) PROVE ReceiptInv'
        <2>1. ReceiptTypeOK'
            BY <1>t, <1>2 DEF AddParticipant, ReceiptTypeOK
        <2>2. direct => Crowded'
            BY <1>2, Crowding DEF AddParticipant
        <2>3. Paired' /\ \A m \in Messages : Addressed(m)'
            BY <1>2, <2>2 DEF AddParticipant, Paired, Addressed, ReceiptInv, Crowded
        <2>4. \A c \in Calls : Informed(c)'
            BY <1>2, StillInformed DEF AddParticipant
        <2>5. \A m \in Messages : sender'[m] \in participants'
            BY <1>2 DEF AddParticipant, ReceiptInv
        <2> QED
            BY <2>1, <2>3, <2>4, <2>5 DEF ReceiptInv
    <1>3. ASSUME NEW m \in Messages, Send(m) PROVE ReceiptInv'
        <2>1. PICK list \in lists, online \in BOOLEAN :
                  LET others == list \ {sender[m]}
                      auto == direct /\ Cardinality(others) = 1 /\ online
                  IN  /\ reader' = [reader EXCEPT ![m] = IF auto THEN others ELSE {}]
                      /\ stage' = [stage EXCEPT ![m] = IF auto THEN "auto" ELSE "sent"]
            BY <1>3 DEF Send
        <2> DEFINE others == list \ {sender[m]}
                   auto == direct /\ Cardinality(others) = 1 /\ online
        <2>2. /\ reader' = [reader EXCEPT ![m] = IF auto THEN others ELSE {}]
              /\ stage' = [stage EXCEPT ![m] = IF auto THEN "auto" ELSE "sent"]
            BY <2>1
        <2> HIDE DEF auto
        <2>3. ReceiptTypeOK'
            BY <1>t, <1>3, <2>2 DEF Send, ReceiptTypeOK, channel
        <2>4. /\ \A n \in Messages \ {m} : stage'[n] = stage[n] /\ reader'[n] = reader[n]
              /\ stage'[m] = IF auto THEN "auto" ELSE "sent"
              /\ reader'[m] = IF auto THEN others ELSE {}
            BY <1>t, <2>2 DEF ReceiptTypeOK
        <2>5. /\ UNCHANGED <<direct, participants, lists, sender, readBy, call>>
              /\ stage[m] = "unsent"
            BY <1>3 DEF Send, channel
        <2>6. Addressed(m)'
            <3>1. auto => direct
                BY DEF auto
            <3>2. direct /\ ~Crowded => list = participants
                BY DEF ReceiptInv, Paired
            <3> QED
                BY <2>4, <2>5, <3>1, <3>2 DEF Addressed, Crowded
        <2>7. \A n \in Messages : sender'[n] \in participants' /\ Addressed(n)'
            BY <2>4, <2>5, <2>6 DEF ReceiptInv, Addressed, Crowded
        <2>8. \A c \in Calls : Informed(c)'
            BY <2>4, <2>5, StillInformed
        <2>9. Paired'
            BY <2>5 DEF ReceiptInv, Paired, Crowded
        <2> QED
            BY <2>3, <2>7, <2>8, <2>9 DEF ReceiptInv
    <1>4. ASSUME NEW m \in Messages, AutoRead(m) PROVE ReceiptInv'
        <2>1. /\ readBy' = [readBy EXCEPT ![m] = reader[m]] /\ stage' = [stage EXCEPT ![m] = "sent"]
              /\ UNCHANGED <<direct, participants, lists, sender, reader, call>> /\ stage[m] = "auto"
            BY <1>4 DEF AutoRead, channel
        <2>2. ReceiptTypeOK'
            BY <1>t, <1>4 DEF AutoRead, ReceiptTypeOK, channel
        <2>3. \A n \in Messages : sender'[n] \in participants' /\ Addressed(n)'
            BY <1>t, <2>1 DEF ReceiptInv, Addressed, Crowded, ReceiptTypeOK
        <2>4. \A n \in Messages : stage[n] # "unsent" => stage'[n] # "unsent"
            BY <1>t, <2>1 DEF ReceiptTypeOK
        <2>5. \A c \in Calls : Informed(c)'
            BY <2>1, <2>4, StillInformed
        <2>6. Paired'
            <3>1. ~Crowded => reader[m] = participants \ {sender[m]}
                BY <2>1 DEF ReceiptInv, Addressed
            <3> QED
                BY <1>t, <2>1, <3>1 DEF ReceiptInv, Paired, Crowded, ReceiptTypeOK
        <2> QED
            BY <2>2, <2>3, <2>5, <2>6 DEF ReceiptInv
    <1>5. ASSUME NEW m \in Messages, DeleteMessage(m) PROVE ReceiptInv'
        <2>1. ReceiptTypeOK'
            BY <1>t, <1>5 DEF DeleteMessage, ReceiptTypeOK, channel
        <2>2. \A c \in Calls : Informed(c)'
            BY <1>5, StillInformed DEF DeleteMessage, channel
        <2>3. Paired' /\ \A n \in Messages : sender'[n] \in participants' /\ Addressed(n)'
            BY <1>5 DEF DeleteMessage, channel, ReceiptInv, Paired, Addressed, Crowded
        <2> QED
            BY <2>1, <2>2, <2>3 DEF ReceiptInv
    <1>o. ASSUME NEW c \in Calls, NEW e \in MarkCall \cup {NoCall}, call' = [call EXCEPT ![c] = e],
                 Informed(c)',
                 UNCHANGED <<direct, participants, lists, stage, sender, reader, deleted, aborts>>,
                 readBy' \in [Messages -> SUBSET Users], announced' \subseteq Messages \X Users,
                 Paired'
          PROVE  ReceiptInv'
        <2>1. ReceiptTypeOK'
            BY <1>t, <1>o DEF ReceiptTypeOK
        <2>2. call' \in [Calls -> MarkCall \cup {NoCall}] /\ \A d \in Calls \ {c} : call'[d] = call[d]
            BY <1>t, <1>o DEF ReceiptTypeOK
        <2>3. \A d \in Calls \ {c} : Informed(d)'
            BY <1>o, <2>2, StillInformed
        <2>4. \A m \in Messages : sender'[m] \in participants' /\ Addressed(m)'
            BY <1>o DEF ReceiptInv, Addressed, Crowded
        <2> QED
            BY <1>o, <2>1, <2>3, <2>4 DEF ReceiptInv
    <1>6. ASSUME NEW c \in Calls, NEW u \in Users, MarkSelect(c, u) PROVE ReceiptInv'
        <2> DEFINE e == [pc |-> IF Unread(u) = {} THEN "announce" ELSE "update",
                         user |-> u, ids |-> Unread(u), before |-> Others(u)]
        <2>1. e \in MarkCall /\ Unread(u) \subseteq Others(u)
            BY DEF MarkCall, Unread, Others
        <2>2. /\ call' = [call EXCEPT ![c] = e] /\ u \in participants
              /\ UNCHANGED <<direct, participants, lists, stage, sender, reader, deleted, readBy,
                             announced, aborts>>
            BY <1>6 DEF MarkSelect, channel
        <2>3. call'[c] = e
            BY <1>t, <2>2 DEF ReceiptTypeOK
        <2>4. Informed(c)'
            <3>1. \A m \in Others(u) : stage[m] # "unsent" /\ sender[m] # u
                BY DEF Others
            <3>2. e.user = u /\ e.ids = Unread(u) /\ e.before = Others(u)
                OBVIOUS
            <3> HIDE DEF e
            <3> QED
                BY <2>1, <2>2, <2>3, <3>1, <3>2 DEF Informed
        <2>5. Paired'
            BY <2>2 DEF ReceiptInv, Paired, Crowded
        <2> HIDE DEF e
        <2> QED
            BY <1>o, <1>t, <2>1, <2>2, <2>4, <2>5 DEF ReceiptTypeOK
    <1>7. ASSUME NEW c \in Calls, MarkUpdate(c) PROVE ReceiptInv'
        <2>1. call[c] \in MarkCall /\ call[c] # NoCall /\ Informed(c)
            BY <1>t, <1>7, MarkShape DEF MarkUpdate, ReceiptInv
        <2>2. PICK u \in Users : u = call[c].user
            BY <2>1 DEF MarkCall
        <2>3. /\ readBy' = [m \in Messages |-> IF m \in Unread(u) THEN readBy[m] \cup {u} ELSE readBy[m]]
              /\ call' = [call EXCEPT ![c] = [call[c] EXCEPT !.pc = "announce"]]
              /\ UNCHANGED <<direct, participants, lists, stage, sender, reader, deleted, announced, aborts>>
            BY <1>7, <1>t, <2>2 DEF MarkUpdate, channel, ReceiptTypeOK
        <2>4. [call[c] EXCEPT !.pc = "announce"] \in MarkCall
            BY <2>1 DEF MarkCall
        <2>5. call'[c] = [call[c] EXCEPT !.pc = "announce"]
            BY <1>t, <2>3 DEF ReceiptTypeOK
        <2>6. Informed(c)'
            <3>1. /\ call'[c].user = call[c].user /\ call'[c].ids = call[c].ids
                  /\ call'[c].before = call[c].before
                BY <2>1, <2>5 DEF MarkCall
            <3> QED
                BY <2>1, <2>3, <3>1 DEF Informed
        <2>7. Paired'
            <3>1. u \in participants /\ \A m \in Unread(u) : sender[m] # u
                BY <2>1, <2>2 DEF Informed, Unread, Others
            <3> QED
                BY <2>3, <3>1 DEF ReceiptInv, Paired, Crowded
        <2>8. readBy' \in [Messages -> SUBSET Users]
            BY <1>t, <2>3 DEF ReceiptTypeOK
        <2> QED
            BY <1>o, <1>t, <2>3, <2>4, <2>6, <2>7, <2>8 DEF ReceiptTypeOK
    <1>8. ASSUME NEW c \in Calls, Announce(c) PROVE ReceiptInv'
        <2>1. call[c] \in MarkCall
            BY <1>t, <1>8, MarkShape DEF Announce
        <2>2. /\ call' = [call EXCEPT ![c] = NoCall]
              /\ announced' = announced \cup {<<m, call[c].user>> : m \in call[c].ids}
              /\ UNCHANGED <<direct, participants, lists, stage, sender, reader, deleted, readBy, aborts>>
            BY <1>8 DEF Announce, channel
        <2>3. announced' \subseteq Messages \X Users
            BY <1>t, <2>1, <2>2 DEF ReceiptTypeOK, MarkCall
        <2>4. Informed(c)'
            BY <1>t, <2>2 DEF ReceiptTypeOK, Informed
        <2>5. Paired'
            BY <2>2 DEF ReceiptInv, Paired, Crowded
        <2> QED
            BY <1>o, <1>t, <2>2, <2>3, <2>4, <2>5 DEF ReceiptTypeOK
    <1>9. CASE Abort
        <2>1. /\ aborts' \in 0..MaxAborts
              /\ UNCHANGED <<direct, participants, lists, sender, reader, deleted, readBy, announced>>
            BY <1>9, <1>t DEF Abort, channel, ReceiptTypeOK
        <2>2. \/ \E c \in Calls : call' = [call EXCEPT ![c] = NoCall] /\ stage' = stage
              \/ \E m \in Messages : /\ stage[m] = "auto" /\ stage' = [stage EXCEPT ![m] = "sent"]
                                     /\ call' = call
            BY <1>9 DEF Abort
        <2>3. /\ call' \in [Calls -> MarkCall \cup {NoCall}]
              /\ stage' \in [Messages -> {"unsent", "auto", "sent"}]
              /\ \A c \in Calls : call'[c] = call[c] \/ call'[c] = NoCall
              /\ \A m \in Messages : stage'[m] = stage[m] \/ (stage[m] = "auto" /\ stage'[m] = "sent")
            BY <1>t, <2>2 DEF ReceiptTypeOK
        <2>4. ReceiptTypeOK'
            BY <1>t, <2>1, <2>3 DEF ReceiptTypeOK
        <2>5. \A c \in Calls : Informed(c)'
            BY <2>1, <2>3, StillInformed
        <2>6. Paired' /\ \A n \in Messages : sender'[n] \in participants' /\ Addressed(n)'
            BY <2>1, <2>3 DEF ReceiptInv, Paired, Addressed, Crowded
        <2> QED
            BY <2>4, <2>5, <2>6 DEF ReceiptInv
    <1> QED
        BY <1>1, <1>2, <1>3, <1>4, <1>5, <1>6, <1>7, <1>8, <1>9 DEF ReceiptNext

LEMMA ReceiptInvInit == ReceiptInit => ReceiptInv
    <1> USE AbortsAssumption
    <1> SUFFICES ASSUME ReceiptInit PROVE ReceiptInv
        OBVIOUS
    <1>1. ReceiptTypeOK
        BY DEF ReceiptInit, ReceiptTypeOK
    <1>2. \A m \in Messages : sender[m] \in participants /\ Addressed(m)
        BY DEF ReceiptInit, Addressed
    <1>3. \A c \in Calls : Informed(c)
        BY DEF ReceiptInit, Informed
    <1>4. Paired
        BY DEF ReceiptInit, Paired
    <1> QED
        BY <1>1, <1>2, <1>3, <1>4 DEF ReceiptInv

LEMMA ReceiptInvAlways == ReceiptSpec => []ReceiptInv
    BY UsersAssumption, AbortsAssumption, ReceiptInvInit, ReceiptInvKept, PTL DEF ReceiptSpec

\* A receipt stays in the list.
LEMMA ReceiptKept ==
    ASSUME ReceiptInv, [ReceiptNext]_receiptVars, ~Crowded', NEW m \in Messages
    PROVE  readBy[m] \subseteq readBy'[m]
    <1>1. CASE AutoRead(m)
        <2>1. stage[m] = "auto" /\ readBy'[m] = reader[m] /\ UNCHANGED <<direct, participants>>
            BY <1>1 DEF AutoRead, channel, ReceiptInv, ReceiptTypeOK
        <2>2. direct /\ ~Crowded /\ reader[m] = participants \ {sender[m]}
            BY <2>1 DEF ReceiptInv, Addressed, Crowded
        <2>3. readBy[m] \subseteq participants \ {sender[m]}
            BY <2>2 DEF ReceiptInv, Paired
        <2> QED
            BY <2>1, <2>2, <2>3
    <1>2. ASSUME NEW n \in Messages, n # m, AutoRead(n) PROVE readBy[m] \subseteq readBy'[m]
        BY <1>2 DEF AutoRead, ReceiptInv, ReceiptTypeOK
    <1>3. ASSUME NEW c \in Calls, MarkUpdate(c) PROVE readBy[m] \subseteq readBy'[m]
        BY <1>3 DEF MarkUpdate
    <1>4. CASE UNCHANGED readBy
        BY <1>4
    <1> QED
        BY <1>1, <1>2, <1>3, <1>4
        DEF ReceiptNext, receiptVars, AddParticipant, Send, DeleteMessage, MarkSelect, Announce, Abort

LEMMA CrowdedStays == ReceiptInv /\ [ReceiptNext]_receiptVars => (Crowded => Crowded')
    <1> USE UsersAssumption
    <1> SUFFICES ASSUME ReceiptInv, [ReceiptNext]_receiptVars, Crowded PROVE Crowded'
        OBVIOUS
    <1>1. ASSUME NEW u \in Users, AddParticipant(u) PROVE Crowded'
        BY <1>1, Crowding DEF AddParticipant, Crowded
    <1>2. CASE UNCHANGED <<direct, participants>>
        BY <1>2 DEF Crowded
    <1> QED
        BY <1>1, <1>2
        DEF ReceiptNext, receiptVars, channel, Send, AutoRead, DeleteMessage, MarkSelect, MarkUpdate, Announce, Abort

\* Settled, of the next state.
SettledNow(u, m) ==
    u \in readBy'[m] \/ m \in deleted' \/ \E v \in readBy'[m] \ {u} : <<u, v>> \in Within

LEMMA MarkingKept ==
    ReceiptInv /\ MarkingHolds /\ [ReceiptNext]_receiptVars => MarkingHolds'
    <1> USE UsersAssumption, WithinAssumption
    <1> SUFFICES ASSUME ReceiptInv, MarkingHolds, [ReceiptNext]_receiptVars, ~Crowded'
                 PROVE  /\ \A m \in Messages, u \in Users :
                               <<m, u>> \in announced' => SettledNow(u, m)
                        /\ \A c \in Calls : call'[c].pc = "announce" =>
                               \A m \in call'[c].before :
                                   SettledNow(call'[c].user, m)
        BY DEF MarkingHolds, AnnouncedIsRecorded, MarkedAll, Settled, Shadowed, SettledNow
    <1>t. ReceiptTypeOK
        BY DEF ReceiptInv
    <1>1. ~Crowded
        BY CrowdedStays
    <1>2. /\ \A m \in Messages, u \in Users :
                 <<m, u>> \in announced => Settled(u, m)
          /\ \A c \in Calls : call[c].pc = "announce" =>
                 \A m \in call[c].before : Settled(call[c].user, m)
        BY <1>1 DEF MarkingHolds, AnnouncedIsRecorded, MarkedAll
    <1>3. (\A m \in Messages : readBy[m] \subseteq readBy'[m]) /\ deleted \subseteq deleted'
        <2>1. deleted \subseteq deleted'
            BY DEF ReceiptNext, receiptVars, AddParticipant, Send, AutoRead, DeleteMessage, MarkSelect, MarkUpdate,
               Announce, Abort
        <2> QED
            BY <2>1, ReceiptKept
    <1>4. \A u \in Users, m \in Messages : Like(u, readBy[m]) => Settled(u, m)
        BY DEF Like, Settled, Shadowed
    <1>5. \A u \in Users, m \in Messages : Settled(u, m) \/ m \in deleted => SettledNow(u, m)
        BY <1>3 DEF Settled, Shadowed, SettledNow
    <1>k. \A c \in Calls : call[c].pc \in {"update", "announce"} =>
              call[c] \in MarkCall /\ call[c].user \in Users /\ call[c].before \subseteq Messages
        BY <1>t, MarkShape DEF MarkCall
    <1>i. NoCall.pc = "idle"
        BY DEF NoCall
    \* The calls that were through before the step, and what was announced.
    <1>6. /\ \A m \in Messages, u \in Users :
                 <<m, u>> \in announced => SettledNow(u, m)
          /\ \A c \in Calls : call[c].pc = "announce" =>
                 \A m \in call[c].before : SettledNow(call[c].user, m)
        BY <1>2, <1>5, <1>k
    <1>7. CASE announced' = announced /\ \A c \in Calls : call'[c] = call[c] \/ call'[c] = NoCall
        BY <1>6, <1>7, <1>i
    <1>8. ASSUME NEW c \in Calls, NEW u \in Users, MarkSelect(c, u)
          PROVE  /\ announced' = announced /\ \A d \in Calls \ {c} : call'[d] = call[d]
                 /\ call'[c].pc = "announce" =>
                        \A m \in call'[c].before :
                            SettledNow(call'[c].user, m)
        <2> DEFINE e == [pc |-> IF Unread(u) = {} THEN "announce" ELSE "update",
                         user |-> u, ids |-> Unread(u), before |-> Others(u)]
        <2>1. call'[c] = e /\ (\A d \in Calls \ {c} : call'[d] = call[d]) /\ announced' = announced
            BY <1>8, <1>t DEF MarkSelect, ReceiptTypeOK
        <2>2. e.pc = "announce" => Unread(u) = {}
            OBVIOUS
        <2>3. e.user = u /\ e.before = Others(u)
            OBVIOUS
        <2>4. Unread(u) = {} => \A m \in Others(u) : Settled(u, m)
            BY <1>4 DEF Unread, Others
        <2>5. Others(u) \subseteq Messages
            BY DEF Others
        <2> HIDE DEF e
        <2> QED
            BY <1>5, <2>1, <2>2, <2>3, <2>4, <2>5
    <1>9. ASSUME NEW c \in Calls, MarkUpdate(c)
          PROVE  /\ announced' = announced /\ \A d \in Calls \ {c} : call'[d] = call[d]
                 /\ \A m \in call'[c].before : SettledNow(call'[c].user, m)
        <2>1. call[c] \in MarkCall /\ call[c] # NoCall /\ Informed(c)
            BY <1>t, <1>9, MarkShape DEF MarkUpdate, ReceiptInv
        <2>2. PICK u \in Users : u = call[c].user
            BY <2>1 DEF MarkCall
        <2>3. /\ readBy' = [m \in Messages |-> IF m \in Unread(u) THEN readBy[m] \cup {u} ELSE readBy[m]]
              /\ call' = [call EXCEPT ![c] = [call[c] EXCEPT !.pc = "announce"]]
              /\ UNCHANGED <<announced, deleted>>
            BY <1>9, <1>t, <2>2 DEF MarkUpdate, ReceiptTypeOK
        <2>4. /\ \A d \in Calls \ {c} : call'[d] = call[d]
              /\ call'[c] = [call[c] EXCEPT !.pc = "announce"]
            BY <1>t, <2>3 DEF ReceiptTypeOK
        <2>5. call'[c].user = u /\ call'[c].before = call[c].before /\ call[c].before \subseteq Messages
            BY <2>1, <2>2, <2>4 DEF MarkCall
        <2>6. \A m \in call[c].before : m \in deleted \/ m \in Others(u)
            BY <2>1, <2>2, <2>5 DEF Informed, Others
        <2>7. \A m \in Others(u) : SettledNow(u, m)
            <3>1. \A m \in Unread(u) : u \in readBy'[m]
                BY <2>3 DEF Unread, Others
            <3>2. \A m \in Others(u) \ Unread(u) : Settled(u, m)
                BY <1>4 DEF Unread, Others
            <3> QED
                BY <1>5, <3>1, <3>2 DEF SettledNow, Others
        <2> QED
            BY <1>5, <2>3, <2>4, <2>5, <2>6, <2>7
    <1>10. ASSUME NEW c \in Calls, Announce(c)
           PROVE  /\ \A d \in Calls : call'[d] = call[d] \/ call'[d] = NoCall
                  /\ \A m \in Messages, u \in Users :
                         <<m, u>> \in announced' => SettledNow(u, m)
        <2>1. call[c] \in MarkCall /\ call[c] # NoCall /\ Informed(c) /\ call[c].pc = "announce"
            BY <1>t, <1>10, MarkShape DEF Announce, ReceiptInv
        <2>2. /\ announced' = announced \cup {<<m, call[c].user>> : m \in call[c].ids}
              /\ call' = [call EXCEPT ![c] = NoCall]
            BY <1>10 DEF Announce
        <2>3. \A m \in call[c].ids : SettledNow(call[c].user, m)
            BY <1>6, <2>1 DEF Informed
        <2>4. \A d \in Calls : call'[d] = call[d] \/ call'[d] = NoCall
            BY <1>t, <2>2 DEF ReceiptTypeOK
        <2> QED
            BY <1>6, <2>2, <2>3, <2>4
    <1>11. ASSUME Abort
           PROVE  announced' = announced /\ \A c \in Calls : call'[c] = call[c] \/ call'[c] = NoCall
        BY <1>11, <1>t DEF Abort, ReceiptTypeOK
    <1> QED
        BY <1>6, <1>7, <1>8, <1>9, <1>10, <1>11, <1>i
        DEF ReceiptNext, receiptVars, AddParticipant, Send, AutoRead, DeleteMessage

\* A receipt is never taken back in a channel that is not direct or has kept its
\* two participants, although sendMessage overwrites the column.
THEOREM ReceiptsAlwaysLast == ReceiptSpec => ReceiptsLast
    <1> USE UsersAssumption, AbortsAssumption
    <1>1. ReceiptInv /\ [ReceiptNext]_receiptVars =>
              [~Crowded' => \A m \in Messages : readBy[m] \subseteq readBy'[m]]_receiptVars
        BY ReceiptKept
    <1> QED
        BY <1>1, ReceiptInvAlways, PTL DEF ReceiptSpec, ReceiptsLast

\* Whatever ids occur in one another, what message_read announces is recorded and
\* markChannelAsRead leaves out nothing that was there before it, but for messages
\* deleted meanwhile and those with a reader whose id the caller's occurs in.
THEOREM MarkingAlwaysHolds == ReceiptSpec => []MarkingHolds
    <1> USE UsersAssumption, AbortsAssumption
    <1>1. ReceiptInit => MarkingHolds
        BY DEF ReceiptInit, NoCall, MarkingHolds, AnnouncedIsRecorded, MarkedAll
    <1>2. MarkingHolds /\ ReceiptInv /\ [ReceiptNext]_receiptVars => MarkingHolds'
        BY MarkingKept
    <1> QED
        BY <1>1, <1>2, ReceiptInvAlways, PTL DEF ReceiptSpec

-----------------------------------------------------------------------------
(* The messages and their files.                                           *)

\* A file that was never with two requests at once: one of them sends it at most,
\* and it is linked to no message until then.
SentOnce ==
    \A f \in Files \ contested :
        /\ \A s, t \in Slots : Msg!Sending(s, f) /\ Msg!Sending(t, f) => s = t
        /\ \A s \in Slots : Msg!Sending(s, f) => file[f] \notin MessageIds

\* A file that is not uploaded yet is nowhere.
NotYetSent ==
    \A f \in Files : file[f] = "none" =>
        /\ f \notin dropped
        /\ \A s \in Slots : ~Msg!Sending(s, f) /\ (request[s].pc = "drop.write" => request[s].what # f)
        /\ \A m \in MessageIds \ unchecked : Msg!There(m) => f \notin message[m].files

\* What the requests in flight have read is so: no message goes away, and nobody
\* else has inserted theirs.
Underway(s) ==
    LET c == request[s]
    IN  /\ c.pc = "forward.send" => c.left # 0
        /\ c.pc \in {"edit.write", "delete.write"} => Msg!There(c.msg)
        /\ c.pc \in Msg!Linking => /\ c.msg \in MessageIds /\ Msg!There(c.msg)
                                   /\ message[c.msg].files = c.files
        /\ c.pc = "files.row" => c.todo \subseteq c.files
        /\ c.pc \in {"files.row"} \cup Msg!Inserting => c.files \cap dropped \subseteq contested

FilesAgree == Msg!FilesStay /\ SentOnce /\ NotYetSent /\ \A s \in Slots : Underway(s)
MessagesInv == Msg!TypeOK /\ FilesAgree

MessageCalls == Msg!Forward \cup Msg!Write \cup Msg!Drop \cup Msg!Attach
SendPcs == {"files.row"} \cup Msg!Inserting \cup Msg!Linking

LEMMA MessageCallShape ==
    ASSUME Msg!TypeOK, NEW s \in Slots
    PROVE  /\ request[s].pc = "forward.send" => request[s] \in Msg!Forward
           /\ request[s].pc \in {"edit.write", "delete.write"} => request[s] \in Msg!Write
           /\ request[s].pc = "drop.write" => request[s] \in Msg!Drop
           /\ request[s].pc \in SendPcs => request[s] \in Msg!Attach
    BY DEF Msg!TypeOK, Msg!Idle, Msg!Forward, Msg!Write, Msg!Drop, Msg!Attach, SendPcs,
           Msg!Inserting, Msg!Linking

LEMMA MessageCallMoves ==
    ASSUME Msg!TypeOK, NEW s \in Slots, NEW c \in MessageCalls \cup {Msg!Idle},
           request' = [request EXCEPT ![s] = c]
    PROVE  /\ request' \in [Slots -> MessageCalls \cup {Msg!Idle}]
           /\ request'[s] = c /\ \A t \in Slots \ {s} : request'[t] = request[t]
    BY DEF Msg!TypeOK, MessageCalls

LEMMA MessageBegins ==
    ASSUME Msg!TypeOK, NEW s \in Slots, NEW c \in MessageCalls \cup {Msg!Idle}, Msg!Begin(s, c)
    PROVE  /\ request' = [request EXCEPT ![s] = c] /\ request[s] = Msg!Idle
           /\ calls' \in 0..AreaCalls["messages"] /\ faults' \in 0..AreaFaults["messages"]
    <1>1. AreaCalls["messages"] \in Nat
        BY AreasAssumption DEF Areas
    <1> QED
        BY <1>1 DEF Msg!Begin, Msg!TypeOK

LEMMA MessageFails ==
    ASSUME Msg!TypeOK, Msg!Failing
    PROVE  faults' \in 0..AreaFaults["messages"]
    <1>1. AreaFaults["messages"] \in Nat
        BY AreasAssumption DEF Areas
    <1> QED
        BY <1>1 DEF Msg!Failing, Msg!TypeOK

\* A step that leaves the files alone: what is inserted has none, and a request
\* that gives up while it links is remembered.
LEMMA FilesAlone ==
    ASSUME FilesAgree, Msg!TypeOK,
           UNCHANGED <<file, dropped, contested>>, broke \subseteq broke',
           unchecked \subseteq unchecked',
           \A m \in MessageIds :
               \/ message'[m] = message[m]
               \/ /\ Msg!There(m) /\ message'[m] # Msg!NoMessage
                  /\ message'[m].files = message[m].files
               \/ ~Msg!There(m) /\ (message'[m].files = {} \/ m \in unchecked'),
           \A s \in Slots :
               \/ request'[s] = request[s]
               \/ /\ request'[s].pc \notin SendPcs
                  /\ request[s].pc \in Msg!Linking => request[s].msg \in broke'
                  /\ request'[s].pc = "forward.send" => request'[s].left # 0
                  /\ request'[s].pc \in {"edit.write", "delete.write"} =>
                         request'[s].msg \in MessageIds /\ Msg!There(request'[s].msg)
                  /\ request'[s].pc = "drop.write" => file[request'[s].what] # "none"
    PROVE  FilesAgree'
    <1>1. \A s \in Slots, f \in Files : Msg!Sending(s, f)' => Msg!Sending(s, f)
        BY DEF Msg!Sending, SendPcs
    <1>2. \A m \in MessageIds : Msg!There(m) => Msg!There(m)' /\ message'[m].files = message[m].files
        BY DEF Msg!There
    <1>3. \A m \in MessageIds \ unchecked' : ~Msg!There(m) /\ Msg!There(m)' => message'[m].files = {}
        BY DEF Msg!There
    <1>4. Msg!FilesStay'
        <2> SUFFICES ASSUME NEW m \in MessageIds, Msg!There(m)', m \notin broke' \cup unchecked',
                            NEW f \in message'[m].files
                     PROVE  \/ file'[f] = m \/ f \in contested'
                            \/ \E s \in Slots : request'[s].pc \in Msg!Linking /\ request'[s].msg = m
            BY DEF Msg!FilesStay
        <2>1. Msg!There(m) /\ f \in message[m].files
            BY <1>2, <1>3
        <2>2. \/ file[f] = m \/ f \in contested
              \/ \E s \in Slots : request[s].pc \in Msg!Linking /\ request[s].msg = m
            BY <2>1 DEF FilesAgree, Msg!FilesStay
        <2>3. ASSUME NEW s \in Slots, request[s].pc \in Msg!Linking, request[s].msg = m
              PROVE  request'[s] = request[s]
            BY <2>3
        <2> QED
            BY <2>2, <2>3
    <1>5. SentOnce'
        BY <1>1 DEF FilesAgree, SentOnce
    <1>6. NotYetSent'
        <2>1. \A s \in Slots : request'[s].pc = "drop.write" /\ file[request'[s].what] = "none" =>
                                   request'[s] = request[s]
            OBVIOUS
        <2> QED
            BY <1>1, <1>2, <1>3, <2>1 DEF FilesAgree, NotYetSent
    <1>7. ASSUME NEW s \in Slots PROVE Underway(s)'
        <2>1. CASE request'[s] = request[s]
            <3>1. Underway(s)
                BY DEF FilesAgree
            <3>2. request[s].pc \in {"edit.write", "delete.write"} => request[s].msg \in MessageIds
                BY MessageCallShape DEF Msg!Write
            <3> QED
                BY <2>1, <3>1, <3>2, <1>2 DEF Underway
        <2>2. CASE request'[s] # request[s]
            <3>1. request'[s].pc \notin SendPcs
                BY <2>2
            <3> QED
                BY <2>2, <3>1, <1>2 DEF Underway, SendPcs
        <2> QED
            BY <2>1, <2>2
    <1> QED
        BY <1>4, <1>5, <1>6, <1>7 DEF FilesAgree

\* The messages.
LEMMA MessageInserts ==
    ASSUME Msg!TypeOK, NEW m \in MessageIds, NEW u \in Users, NEW text \in Msg!Texts,
           NEW fs \in SUBSET Files, Msg!Insert(m, u, text, fs)
    PROVE  /\ message' \in [MessageIds -> Msg!Message \cup {Msg!NoMessage}]
           /\ ~Msg!There(m) /\ message'[m] # Msg!NoMessage /\ message'[m].files = fs
           /\ \A n \in MessageIds \ {m} : message'[n] = message[n]
    <1> DEFINE row == [by |-> u, text |-> text, deleted |-> FALSE, files |-> fs]
    <1>1. row \in Msg!Message /\ row.files = fs
        BY DEF Msg!Message
    <1>2. u # None
        BY AreasAssumption
    <1>3. row # Msg!NoMessage
        <2>1. row.by = u /\ Msg!NoMessage.by = None
            BY DEF Msg!NoMessage
        <2> QED
            BY <2>1, <1>2
    <1>4. ~Msg!There(m) /\ message' = [message EXCEPT ![m] = row]
        BY DEF Msg!Insert
    <1> QED
        BY <1>1, <1>3, <1>4 DEF Msg!TypeOK

LEMMA SendersAreUsers == Senders \subseteq Users
    BY AreasAssumption

LEMMA MessageSent ==
    ASSUME MessagesInv, NEW s \in Slots, NEW u \in Senders, NEW m \in MessageIds,
           NEW fs \in SUBSET Files, Msg!SendMessage(s, u, m, fs)
    PROVE  MessagesInv'
    <1>1. u \in Users /\ "first" \in Msg!Texts
        BY SendersAreUsers DEF Msg!Texts
    <1>2. Msg!TypeOK /\ FilesAgree
        BY DEF MessagesInv
    <1>3. Msg!Insert(m, u, "first", fs)
        BY DEF Msg!SendMessage
    <1>4. /\ message' \in [MessageIds -> Msg!Message \cup {Msg!NoMessage}]
          /\ ~Msg!There(m) /\ message'[m] # Msg!NoMessage /\ message'[m].files = fs
          /\ \A n \in MessageIds \ {m} : message'[n] = message[n]
        BY <1>1, <1>2, <1>3, MessageInserts
    <1>5. /\ request' = [request EXCEPT ![s] = Msg!Idle] /\ request[s] = Msg!Idle
          /\ calls' \in 0..AreaCalls["messages"] /\ faults' \in 0..AreaFaults["messages"]
        BY <1>2, MessageBegins DEF Msg!SendMessage
    <1>6. UNCHANGED <<file, dropped, page, saves, contested, broke, request>>
        BY <1>2, <1>5 DEF Msg!SendMessage, Msg!caches, Msg!TypeOK
    <1>7. /\ unchecked \subseteq unchecked' /\ unchecked' \subseteq MessageIds
          /\ fs = {} \/ m \in unchecked'
        BY <1>2 DEF Msg!SendMessage, Msg!TypeOK
    <1>8. Msg!TypeOK'
        BY <1>2, <1>4, <1>5, <1>6, <1>7 DEF Msg!TypeOK
    <1>9. FilesAgree'
        BY <1>2, <1>4, <1>6, <1>7, FilesAlone
    <1> QED
        BY <1>8, <1>9 DEF MessagesInv

LEMMA ForwardBegins ==
    ASSUME MessagesInv, NEW s \in Slots, NEW u \in Senders, NEW m \in MessageIds,
           NEW copies \in 1..2, Msg!ForwardStart(s, u, m, copies)
    PROVE  MessagesInv'
    <1> DEFINE c == [pc |-> "forward.send", by |-> u, text |-> message[m].text, left |-> copies]
    <1>1. Msg!TypeOK /\ FilesAgree
        BY DEF MessagesInv
    <1>2. message[m] \in Msg!Message
        BY <1>1 DEF Msg!ForwardStart, Msg!There, Msg!TypeOK
    <1>3. c \in Msg!Forward
        BY <1>2, SendersAreUsers DEF Msg!Forward, Msg!Message
    <1>4. c \in MessageCalls \cup {Msg!Idle}
        BY <1>3 DEF MessageCalls
    <1>5. /\ request' = [request EXCEPT ![s] = c] /\ request[s] = Msg!Idle
          /\ calls' \in 0..AreaCalls["messages"] /\ faults' \in 0..AreaFaults["messages"]
        BY <1>1, <1>4, MessageBegins DEF Msg!ForwardStart
    <1>6. /\ request' \in [Slots -> MessageCalls \cup {Msg!Idle}]
          /\ request'[s] = c /\ \A t \in Slots \ {s} : request'[t] = request[t]
        BY <1>1, <1>4, <1>5, MessageCallMoves
    <1>7. UNCHANGED <<message, file, dropped, page, saves, contested, unchecked, broke>>
        BY DEF Msg!ForwardStart, Msg!tables, Msg!caches, Msg!history
    <1>8. Msg!TypeOK'
        BY <1>1, <1>5, <1>6, <1>7 DEF Msg!TypeOK, MessageCalls
    <1>9. /\ request'[s].pc = "forward.send" /\ request'[s].left # 0
          /\ request[s].pc = "idle" /\ "idle" \notin Msg!Linking /\ "forward.send" \notin SendPcs
        BY <1>5, <1>6 DEF Msg!Idle, Msg!Linking, SendPcs, Msg!Inserting
    <1>10. FilesAgree'
        BY <1>1, <1>6, <1>7, <1>9, FilesAlone
    <1> QED
        BY <1>8, <1>10 DEF MessagesInv

LEMMA ForwardGoesOn ==
    ASSUME MessagesInv, NEW s \in Slots, NEW m \in MessageIds, Msg!ForwardSend(s, m)
    PROVE  MessagesInv'
    <1> DEFINE c == request[s]
    <1>1. Msg!TypeOK /\ FilesAgree
        BY DEF MessagesInv
    <1>2. c \in Msg!Forward /\ c.left # 0 /\ c.pc = "forward.send"
        BY <1>1, MessageCallShape DEF Msg!ForwardSend, Msg!At, FilesAgree, Underway
    <1>3. Msg!Insert(m, c.by, c.text, {}) /\ c.by \in Users /\ c.text \in Msg!Texts /\ {} \in SUBSET Files
        BY <1>2 DEF Msg!ForwardSend, Msg!Forward
    <1>4. /\ message' \in [MessageIds -> Msg!Message \cup {Msg!NoMessage}]
          /\ ~Msg!There(m) /\ message'[m] # Msg!NoMessage /\ message'[m].files = {}
          /\ \A n \in MessageIds \ {m} : message'[n] = message[n]
        BY <1>1, <1>3, MessageInserts
    <1>5. PICK next \in MessageCalls \cup {Msg!Idle} :
              /\ request' = [request EXCEPT ![s] = next]
              /\ next.pc \in {"forward.send", "idle"}
              /\ next.pc = "forward.send" => next.left # 0
        <2>1. CASE c.left = 1
            <3>1. request' = [request EXCEPT ![s] = Msg!Idle] /\ Msg!Idle.pc = "idle"
                BY <2>1 DEF Msg!ForwardSend, Msg!Idle
            <3> QED
                BY <3>1
        <2>2. CASE c.left # 1
            <3>1. c.left - 1 \in Nat /\ c.left - 1 # 0
                BY <1>2, <2>2 DEF Msg!Forward
            <3>2. /\ [c EXCEPT !.left = c.left - 1] \in Msg!Forward
                  /\ [c EXCEPT !.left = c.left - 1].left = c.left - 1
                  /\ [c EXCEPT !.left = c.left - 1].pc = "forward.send"
                BY <1>2, <3>1 DEF Msg!Forward
            <3>3. request' = [request EXCEPT ![s] = [c EXCEPT !.left = c.left - 1]]
                BY <2>2 DEF Msg!ForwardSend
            <3> QED
                BY <3>1, <3>2, <3>3 DEF MessageCalls
        <2> QED
            BY <2>1, <2>2
    <1>6. /\ request' \in [Slots -> MessageCalls \cup {Msg!Idle}]
          /\ request'[s] = next /\ \A t \in Slots \ {s} : request'[t] = request[t]
        BY <1>1, <1>5, MessageCallMoves
    <1>7. UNCHANGED <<file, dropped, page, saves, contested, unchecked, broke, calls, faults>>
        BY DEF Msg!ForwardSend, Msg!caches, Msg!history, Msg!Counters
    <1>8. Msg!TypeOK'
        BY <1>1, <1>4, <1>6, <1>7 DEF Msg!TypeOK, MessageCalls
    <1>9. request[s].pc \notin Msg!Linking /\ request'[s].pc \notin SendPcs
        BY <1>2, <1>5, <1>6 DEF Msg!Linking, SendPcs, Msg!Inserting
    <1>10. FilesAgree'
        BY <1>1, <1>4, <1>5, <1>6, <1>7, <1>9, FilesAlone
    <1> QED
        BY <1>8, <1>10 DEF MessagesInv

\* A request of a message's own that is over: only its row has changed, if any.
LEMMA MessageWritten ==
    ASSUME MessagesInv, NEW s \in Slots, Msg!EditWrite(s) \/ Msg!DeleteWrite(s)
    PROVE  MessagesInv'
    <1> DEFINE m == request[s].msg
    <1>1. Msg!TypeOK /\ FilesAgree
        BY DEF MessagesInv
    <1>2. request[s] \in Msg!Write /\ request[s].pc \in {"edit.write", "delete.write"}
        BY <1>1, MessageCallShape DEF Msg!EditWrite, Msg!DeleteWrite, Msg!At
    <1>3. m \in MessageIds /\ Msg!There(m) /\ message[m] \in Msg!Message
        BY <1>1, <1>2 DEF Msg!Write, FilesAgree, Underway, Msg!There, Msg!TypeOK
    <1>4. PICK row \in Msg!Message :
              message' = [message EXCEPT ![m] = row] /\ row.files = message[m].files
        <2>1. CASE Msg!EditWrite(s)
            <3>1. message' = [message EXCEPT ![m] = [message[m] EXCEPT !.text = "edited"]]
                BY <2>1 DEF Msg!EditWrite
            <3>2. /\ [message[m] EXCEPT !.text = "edited"] \in Msg!Message
                  /\ [message[m] EXCEPT !.text = "edited"].files = message[m].files
                BY <1>3 DEF Msg!Message, Msg!Texts
            <3> QED
                BY <3>1, <3>2
        <2>2. CASE Msg!DeleteWrite(s)
            <3>1. message' = [message EXCEPT ![m] = [message[m] EXCEPT !.deleted = TRUE]]
                BY <2>2 DEF Msg!DeleteWrite
            <3>2. /\ [message[m] EXCEPT !.deleted = TRUE] \in Msg!Message
                  /\ [message[m] EXCEPT !.deleted = TRUE].files = message[m].files
                BY <1>3 DEF Msg!Message
            <3> QED
                BY <3>1, <3>2
        <2> QED
            BY <2>1, <2>2
    <1>5. row # Msg!NoMessage
        <2>1. row.by \in Users /\ Msg!NoMessage.by = None
            BY DEF Msg!Message, Msg!NoMessage
        <2> QED
            BY <2>1, AreasAssumption
    <1>6. /\ message' \in [MessageIds -> Msg!Message \cup {Msg!NoMessage}]
          /\ message'[m] = row /\ \A n \in MessageIds \ {m} : message'[n] = message[n]
        BY <1>1, <1>3, <1>4 DEF Msg!TypeOK
    <1>7. request' = [request EXCEPT ![s] = Msg!Idle]
        BY DEF Msg!EditWrite, Msg!DeleteWrite, Msg!Done
    <1>8. /\ request' \in [Slots -> MessageCalls \cup {Msg!Idle}]
          /\ request'[s] = Msg!Idle /\ \A t \in Slots \ {s} : request'[t] = request[t]
        BY <1>1, <1>7, MessageCallMoves
    <1>9. UNCHANGED <<file, dropped, page, saves, contested, unchecked, broke, calls, faults>>
        BY DEF Msg!EditWrite, Msg!DeleteWrite, Msg!caches, Msg!history, Msg!Counters
    <1>10. Msg!TypeOK'
        BY <1>1, <1>6, <1>8, <1>9 DEF Msg!TypeOK, MessageCalls
    <1>11. request'[s].pc = "idle" /\ "idle" \notin SendPcs /\ request[s].pc \notin Msg!Linking
        BY <1>2, <1>8 DEF Msg!Idle, SendPcs, Msg!Inserting, Msg!Linking
    <1>12. FilesAgree'
        BY <1>1, <1>3, <1>4, <1>5, <1>6, <1>8, <1>9, <1>11, FilesAlone
    <1> QED
        BY <1>10, <1>12 DEF MessagesInv

LEMMA MessageReads ==
    ASSUME MessagesInv, NEW s \in Slots, NEW u \in Users, NEW m \in MessageIds,
           Msg!EditStart(s, u, m) \/ Msg!DeleteStart(s, u, m)
    PROVE  MessagesInv'
    <1>1. Msg!TypeOK /\ FilesAgree
        BY DEF MessagesInv
    <1>2. Msg!There(m)
        BY DEF Msg!EditStart, Msg!DeleteStart
    <1>3. PICK c \in Msg!Write : Msg!Begin(s, c) /\ c.msg = m
        BY DEF Msg!EditStart, Msg!DeleteStart, Msg!Write
    <1>4. c \in MessageCalls \cup {Msg!Idle}
        BY DEF MessageCalls
    <1>5. /\ request' = [request EXCEPT ![s] = c] /\ request[s] = Msg!Idle
          /\ calls' \in 0..AreaCalls["messages"] /\ faults' \in 0..AreaFaults["messages"]
        BY <1>1, <1>3, <1>4, MessageBegins
    <1>6. /\ request' \in [Slots -> MessageCalls \cup {Msg!Idle}]
          /\ request'[s] = c /\ \A t \in Slots \ {s} : request'[t] = request[t]
        BY <1>1, <1>4, <1>5, MessageCallMoves
    <1>7. UNCHANGED <<message, file, dropped, page, saves, contested, unchecked, broke>>
        BY DEF Msg!EditStart, Msg!DeleteStart, Msg!tables, Msg!caches, Msg!history
    <1>8. Msg!TypeOK'
        BY <1>1, <1>5, <1>6, <1>7 DEF Msg!TypeOK, MessageCalls
    <1>9. c.pc \in {"edit.write", "delete.write"} /\ request[s].pc = "idle" /\ "idle" \notin Msg!Linking
        BY <1>5 DEF Msg!Idle, Msg!Linking, Msg!Write
    <1>10. c.pc \notin SendPcs /\ c.pc \notin {"forward.send", "drop.write"}
        BY <1>9 DEF SendPcs, Msg!Inserting, Msg!Linking
    <1>11. FilesAgree'
        BY <1>1, <1>2, <1>3, <1>6, <1>7, <1>9, <1>10, FilesAlone
    <1> QED
        BY <1>8, <1>11 DEF MessagesInv

\* The page, and what fails.
LEMMA PagesAndFaults ==
    ASSUME MessagesInv,
           \/ \E s \in Slots : Msg!PageMiss(s) \/ Msg!RequestFails(s)
           \/ \E p \in Msg!Page : Msg!Fill(p)
           \/ Msg!PageExpires \/ Msg!Crash
    PROVE  MessagesInv'
    <1>1. Msg!TypeOK /\ FilesAgree
        BY DEF MessagesInv
    <1>2. Msg!Shown \in Msg!Page
        <2>1. ASSUME NEW m \in MessageIds, Msg!There(m) PROVE message[m].text \in Msg!Texts
            BY <1>1, <2>1 DEF Msg!There, Msg!TypeOK, Msg!Message
        <2> QED
            BY <2>1 DEF Msg!Shown, Msg!Page
    <1>3. UNCHANGED <<message, file, dropped, contested, unchecked>>
        BY DEF Msg!PageMiss, Msg!RequestFails, Msg!Fill, Msg!PageExpires, Msg!Crash, Msg!tables, Msg!history
    <1>4. \A s \in Slots : Msg!Involved(request[s]) \subseteq MessageIds
        <2>1. ASSUME NEW s \in Slots, request[s].pc \in Msg!Linking PROVE request[s].msg \in MessageIds
            BY <1>1, <2>1 DEF FilesAgree, Underway
        <2> QED
            BY <2>1 DEF Msg!Involved
    <1> DEFINE Over ==
              /\ page' \in Msg!Page /\ saves' \subseteq Msg!Page
              /\ broke \subseteq broke' /\ broke' \subseteq MessageIds
              /\ calls' \in 0..AreaCalls["messages"] /\ faults' \in 0..AreaFaults["messages"]
              /\ request' \in [Slots -> MessageCalls \cup {Msg!Idle}]
              /\ \A t \in Slots : \/ request'[t] = request[t]
                                  \/ /\ request'[t] = Msg!Idle
                                     /\ request[t].pc \in Msg!Linking => request[t].msg \in broke'
    <1>5. Over
        <2>1. ASSUME NEW s \in Slots, Msg!PageMiss(s) PROVE Over
            <3>1. /\ request' = [request EXCEPT ![s] = Msg!Idle] /\ request[s] = Msg!Idle
                  /\ calls' \in 0..AreaCalls["messages"] /\ faults' \in 0..AreaFaults["messages"]
                BY <1>1, <2>1, MessageBegins DEF Msg!PageMiss
            <3> QED
                BY <1>1, <1>2, <2>1, <3>1 DEF Msg!PageMiss, Msg!TypeOK, Msg!history, Msg!tables, MessageCalls
        <2>2. ASSUME NEW s \in Slots, Msg!RequestFails(s) PROVE Over
            <3>1. request' = [request EXCEPT ![s] = Msg!Idle] /\ broke' = broke \cup Msg!Involved(request[s])
                BY <2>2 DEF Msg!RequestFails, Msg!Done
            <3>2. /\ request' \in [Slots -> MessageCalls \cup {Msg!Idle}]
                  /\ request'[s] = Msg!Idle /\ \A t \in Slots \ {s} : request'[t] = request[t]
                BY <1>1, <3>1, MessageCallMoves
            <3>3. faults' \in 0..AreaFaults["messages"]
                BY <1>1, <2>2, MessageFails DEF Msg!RequestFails
            <3>4. UNCHANGED <<page, saves, calls>>
                BY <2>2 DEF Msg!RequestFails, Msg!caches
            <3>5. request[s].pc \in Msg!Linking => request[s].msg \in broke'
                BY <3>1 DEF Msg!Involved
            <3> QED
                BY <1>1, <1>4, <3>1, <3>2, <3>3, <3>4, <3>5 DEF Msg!TypeOK
        <2>3. ASSUME NEW p \in Msg!Page, Msg!Fill(p) PROVE Over
            BY <1>1, <2>3 DEF Msg!Fill, Msg!TypeOK, Msg!history, Msg!Counters, MessageCalls
        <2>4. CASE Msg!PageExpires
            BY <1>1, <2>4 DEF Msg!PageExpires, Msg!TypeOK, Msg!history, Msg!Counters, MessageCalls,
                              Msg!Page, Msg!NoPage
        <2>5. CASE Msg!Crash
            <3>1. /\ request' = [s \in Slots |-> Msg!Idle]
                  /\ broke' = broke \cup UNION {Msg!Involved(request[s]) : s \in Slots}
                BY <2>5 DEF Msg!Crash
            <3>2. ASSUME NEW t \in Slots, request[t].pc \in Msg!Linking PROVE request[t].msg \in broke'
                <4>1. request[t].msg \in Msg!Involved(request[t])
                    BY <3>2 DEF Msg!Involved
                <4> QED
                    BY <3>1, <4>1
            <3>3. faults' \in 0..AreaFaults["messages"]
                BY <1>1, <2>5, MessageFails DEF Msg!Crash
            <3>4. broke' \subseteq MessageIds
                BY <1>1, <1>4, <3>1 DEF Msg!TypeOK
            <3>5. saves' \subseteq Msg!Page /\ UNCHANGED <<page, calls>>
                BY <2>5 DEF Msg!Crash
            <3> QED
                BY <1>1, <3>1, <3>2, <3>3, <3>4, <3>5 DEF Msg!TypeOK
        <2> QED
            BY <2>1, <2>2, <2>3, <2>4, <2>5
    <1>6. Msg!TypeOK'
        BY <1>1, <1>3, <1>5 DEF Msg!TypeOK, MessageCalls
    <1>7. Msg!Idle.pc = "idle" /\ "idle" \notin SendPcs
        BY DEF Msg!Idle, SendPcs, Msg!Inserting, Msg!Linking
    <1>8. FilesAgree'
        BY <1>1, <1>3, <1>5, <1>7, FilesAlone
    <1> QED
        BY <1>6, <1>8 DEF MessagesInv

\* The files.
LEMMA FilePlaces == \A f \in Files : Msg!TypeOK /\ file[f] \in MessageIds => file[f] \notin {"none", "stored", "orphan"}
    BY AreasAssumption

LEMMA FileUploaded ==
    ASSUME MessagesInv, NEW s \in Slots, NEW f \in Files, NEW m \in MessageIds \cup {None},
           Msg!UploadMessageFile(s, f, m)
    PROVE  MessagesInv'
    <1>1. Msg!TypeOK /\ FilesAgree /\ file[f] = "none"
        BY DEF MessagesInv, Msg!UploadMessageFile
    <1>2. /\ request' = [request EXCEPT ![s] = Msg!Idle] /\ request[s] = Msg!Idle
          /\ calls' \in 0..AreaCalls["messages"] /\ faults' \in 0..AreaFaults["messages"]
        BY <1>1, MessageBegins DEF Msg!UploadMessageFile
    <1>3. UNCHANGED <<message, dropped, page, saves, contested, unchecked, broke, request>>
        BY <1>1, <1>2 DEF Msg!UploadMessageFile, Msg!caches, Msg!history, Msg!TypeOK
    <1>4. PICK at \in {"orphan"} \cup MessageIds : file' = [file EXCEPT ![f] = at]
        BY DEF Msg!UploadMessageFile
    <1>5. Msg!TypeOK'
        BY <1>1, <1>2, <1>3, <1>4 DEF Msg!TypeOK
    <1>6. /\ file'[f] = at /\ \A g \in Files \ {f} : file'[g] = file[g]
          /\ at # "none"
        BY <1>1, <1>4, AreasAssumption DEF Msg!TypeOK
    <1>7. \A t \in Slots : ~Msg!Sending(t, f)
        BY <1>1 DEF FilesAgree, NotYetSent
    <1>8. Msg!FilesStay'
        <2>1. \A n \in MessageIds : file[f] # n
            BY <1>1, FilePlaces
        <2>2. UNCHANGED <<message, contested, unchecked, broke, request>>
            BY <1>3
        <2>3. \A n \in MessageIds, g \in Files : file[g] = n => file'[g] = n
            BY <2>1, <1>6
        <2>4. \A n \in MessageIds : Msg!There(n) => message[n].files \subseteq Files
            BY <1>1 DEF Msg!There, Msg!TypeOK, Msg!Message
        <2> QED
            BY <1>1, <2>2, <2>3, <2>4 DEF FilesAgree, Msg!FilesStay, Msg!There
    <1>9. SentOnce'
        BY <1>1, <1>3, <1>6, <1>7 DEF FilesAgree, SentOnce, Msg!Sending
    <1>10. NotYetSent'
        BY <1>1, <1>3, <1>6 DEF FilesAgree, NotYetSent, Msg!Sending, Msg!There
    <1>11. \A t \in Slots : Underway(t)'
        BY <1>1, <1>3 DEF FilesAgree, Underway, Msg!There
    <1> QED
        BY <1>5, <1>8, <1>9, <1>10, <1>11 DEF MessagesInv, FilesAgree

LEMMA FilesStored ==
    ASSUME MessagesInv, NEW s \in Slots, NEW u \in Senders, NEW fs \in SUBSET Files,
           NEW pc \in {"files.row"} \cup Msg!Inserting, Msg!SendFiles(s, u, fs, pc, "stored")
    PROVE  MessagesInv'
    <1> DEFINE c == [pc |-> pc, by |-> u, todo |-> fs, files |-> fs, msg |-> None]
    <1>1. Msg!TypeOK /\ FilesAgree
        BY DEF MessagesInv
    <1>2. c \in MessageCalls \cup {Msg!Idle}
        BY SendersAreUsers DEF MessageCalls, Msg!Attach
    <1>3. /\ request' = [request EXCEPT ![s] = c] /\ request[s] = Msg!Idle
          /\ calls' \in 0..AreaCalls["messages"] /\ faults' \in 0..AreaFaults["messages"]
        BY <1>1, <1>2, MessageBegins DEF Msg!SendFiles
    <1>4. /\ request' \in [Slots -> MessageCalls \cup {Msg!Idle}]
          /\ request'[s] = c /\ \A t \in Slots \ {s} : request'[t] = request[t]
        BY <1>1, <1>2, <1>3, MessageCallMoves
    <1>5. UNCHANGED <<message, dropped, page, saves, contested, unchecked, broke>>
        BY DEF Msg!SendFiles, Msg!caches, Msg!history
    <1>6. /\ \A f \in fs : file[f] = "none" /\ file'[f] = "stored"
          /\ \A f \in Files \ fs : file'[f] = file[f]
          /\ file' \in [Files -> {"none", "stored", "orphan"} \cup MessageIds]
        BY <1>1 DEF Msg!SendFiles, Msg!TypeOK
    <1>7. Msg!TypeOK'
        BY <1>1, <1>3, <1>4, <1>5, <1>6 DEF Msg!TypeOK, MessageCalls
    <1>8. /\ \A f \in Files : Msg!Sending(s, f)' <=> f \in fs
          /\ \A f \in Files : ~Msg!Sending(s, f)
          /\ \A t \in Slots \ {s} : \A f \in Files : Msg!Sending(t, f)' <=> Msg!Sending(t, f)
          /\ \A t \in Slots, f \in fs : ~Msg!Sending(t, f)
        <2>1. \A f \in Files : Msg!Sending(s, f)' <=> f \in fs
            BY <1>4 DEF Msg!Sending, Msg!Inserting
        <2>2. \A f \in Files : ~Msg!Sending(s, f)
            BY <1>3 DEF Msg!Sending, Msg!Inserting, Msg!Linking, Msg!Idle
        <2>3. \A t \in Slots \ {s} : \A f \in Files : Msg!Sending(t, f)' <=> Msg!Sending(t, f)
            BY <1>4 DEF Msg!Sending
        <2>4. \A t \in Slots, f \in fs : ~Msg!Sending(t, f)
            BY <1>1, <1>6 DEF FilesAgree, NotYetSent
        <2> QED
            BY <2>1, <2>2, <2>3, <2>4
    <1>9. Msg!FilesStay'
        <2>1. \A n \in MessageIds, f \in Files : file[f] = n => file'[f] = n
            BY <1>1, <1>6, FilePlaces
        <2>2. \A n \in MessageIds : Msg!There(n) => message[n].files \subseteq Files
            BY <1>1 DEF Msg!There, Msg!TypeOK, Msg!Message
        <2>3. \A t \in Slots : request[t].pc \in Msg!Linking => request'[t] = request[t]
            BY <1>3, <1>4 DEF Msg!Idle, Msg!Linking
        <2> QED
            BY <1>1, <1>5, <2>1, <2>2, <2>3 DEF FilesAgree, Msg!FilesStay, Msg!There
    <1>10. SentOnce'
        <2> SUFFICES ASSUME NEW f \in Files \ contested
                     PROVE  /\ \A t, r \in Slots : Msg!Sending(t, f)' /\ Msg!Sending(r, f)' => t = r
                            /\ \A t \in Slots : Msg!Sending(t, f)' => file'[f] \notin MessageIds
            BY <1>5 DEF SentOnce
        <2>1. CASE f \in fs
            BY <1>6, <1>8, <2>1, AreasAssumption
        <2>2. CASE f \notin fs
            BY <1>1, <1>6, <1>8, <2>2 DEF FilesAgree, SentOnce
        <2> QED
            BY <2>1, <2>2
    <1>11. NotYetSent'
        <2> SUFFICES ASSUME NEW f \in Files, file'[f] = "none"
                     PROVE  /\ f \notin dropped'
                            /\ \A t \in Slots : ~Msg!Sending(t, f)' /\ (request'[t].pc = "drop.write" => request'[t].what # f)
                            /\ \A m \in MessageIds \ unchecked' : Msg!There(m)' => f \notin message'[m].files
            BY DEF NotYetSent
        <2>1. f \notin fs /\ file[f] = "none"
            BY <1>6
        <2>2. request'[s].pc # "drop.write"
            BY <1>4 DEF Msg!Inserting
        <2> QED
            BY <1>1, <1>4, <1>5, <1>8, <2>1, <2>2 DEF FilesAgree, NotYetSent, Msg!There
    <1>12. ASSUME NEW t \in Slots PROVE Underway(t)'
        <2>1. CASE t # s
            BY <1>1, <1>4, <1>5, <2>1 DEF FilesAgree, Underway, Msg!There
        <2>2. CASE t = s
            <3>1. fs \cap dropped = {}
                BY <1>1, <1>6 DEF FilesAgree, NotYetSent
            <3>2. /\ request'[s].pc \notin {"forward.send", "edit.write", "delete.write"}
                  /\ request'[s].pc \notin Msg!Linking
                BY <1>4 DEF Msg!Inserting, Msg!Linking
            <3> QED
                BY <1>4, <1>5, <2>2, <3>1, <3>2 DEF Underway
        <2> QED
            BY <2>1, <2>2
    <1> QED
        BY <1>7, <1>9, <1>10, <1>11, <1>12 DEF MessagesInv, FilesAgree

\* A request that goes on to send its files: it has the same ones, and its message
\* is there when it comes to the link.
LEMMA MessageWithFiles ==
    ASSUME MessagesInv, NEW s \in Slots, NEW m \in MessageIds, NEW next \in Msg!Linking,
           request[s].pc \in Msg!Inserting, Msg!InsertWithFiles(s, m, next)
    PROVE  /\ MessagesInv'
           /\ \A n \in MessageIds : ~Msg!There(n) /\ Msg!There(n)' /\ n \notin unchecked' => message'[n].files \cap dropped \subseteq contested
    <1> DEFINE c == request[s]
               d == [c EXCEPT !.pc = next, !.msg = m]
    <1>1. Msg!TypeOK /\ FilesAgree
        BY DEF MessagesInv
    <1>2. c \in Msg!Attach
        BY <1>1, MessageCallShape DEF SendPcs
    <1>3. c.by \in Users /\ c.files \in SUBSET Files /\ "first" \in Msg!Texts
        BY <1>2 DEF Msg!Attach, Msg!Texts
    <1>4. Msg!Insert(m, c.by, "first", c.files)
        BY DEF Msg!InsertWithFiles
    <1>5. /\ message' \in [MessageIds -> Msg!Message \cup {Msg!NoMessage}]
          /\ ~Msg!There(m) /\ message'[m] # Msg!NoMessage /\ message'[m].files = c.files
          /\ \A n \in MessageIds \ {m} : message'[n] = message[n]
        BY <1>1, <1>3, <1>4, MessageInserts
    <1>6. d \in Msg!Attach /\ d.pc = next /\ d.msg = m /\ d.files = c.files
        BY <1>2 DEF Msg!Attach, Msg!Linking
    <1>7. request' = [request EXCEPT ![s] = d] /\ d \in MessageCalls \cup {Msg!Idle}
        BY <1>1, <1>6 DEF Msg!InsertWithFiles, MessageCalls, Msg!TypeOK
    <1>8. /\ request' \in [Slots -> MessageCalls \cup {Msg!Idle}]
          /\ request'[s] = d /\ \A t \in Slots \ {s} : request'[t] = request[t]
        BY <1>1, <1>7, MessageCallMoves
    <1>9. UNCHANGED <<file, dropped, page, saves, contested, unchecked, broke, calls, faults>>
        BY DEF Msg!InsertWithFiles, Msg!caches, Msg!history, Msg!Counters
    <1>10. Msg!TypeOK'
        BY <1>1, <1>5, <1>8, <1>9 DEF Msg!TypeOK, MessageCalls
    <1>11. \A t \in Slots, f \in Files : Msg!Sending(t, f)' <=> Msg!Sending(t, f)
        BY <1>6, <1>8 DEF Msg!Sending
    <1>12. /\ \A f \in c.files : Msg!Sending(s, f) /\ file[f] # "none"
           /\ c.files \cap dropped \subseteq contested
        <2>1. \A f \in c.files : Msg!Sending(s, f)
            BY <1>3 DEF Msg!Sending
        <2>2. \A f \in c.files : file[f] # "none"
            BY <1>1, <1>3, <2>1 DEF FilesAgree, NotYetSent
        <2>3. c.files \cap dropped \subseteq contested
            BY <1>1 DEF FilesAgree, Underway
        <2> QED
            BY <2>1, <2>2, <2>3
    <1>13. Msg!FilesStay'
        <2> SUFFICES ASSUME NEW n \in MessageIds, Msg!There(n)', n \notin broke' \cup unchecked',
                            NEW f \in message'[n].files
                     PROVE  \/ file'[f] = n \/ f \in contested'
                            \/ \E t \in Slots : request'[t].pc \in Msg!Linking /\ request'[t].msg = n
            BY DEF Msg!FilesStay
        <2>1. CASE n = m
            <3>1. request'[s].pc = next /\ request'[s].msg = m
                BY <1>6, <1>8
            <3> QED
                BY <2>1, <3>1
        <2>2. CASE n # m
            <3>1. Msg!There(n) /\ n \notin broke \cup unchecked /\ f \in message[n].files
                BY <1>5, <1>9, <2>2 DEF Msg!There
            <3>2. request[s].pc \notin Msg!Linking
                BY DEF Msg!Inserting, Msg!Linking
            <3> QED
                BY <1>1, <1>8, <1>9, <3>1, <3>2 DEF FilesAgree, Msg!FilesStay
        <2> QED
            BY <2>1, <2>2
    <1>14. SentOnce'
        BY <1>1, <1>9, <1>11 DEF FilesAgree, SentOnce
    <1>15. NotYetSent'
        <2> SUFFICES ASSUME NEW f \in Files, file[f] = "none"
                     PROVE  /\ f \notin dropped
                            /\ \A t \in Slots : ~Msg!Sending(t, f)' /\ (request'[t].pc = "drop.write" => request'[t].what # f)
                            /\ \A n \in MessageIds \ unchecked' : Msg!There(n)' => f \notin message'[n].files
            BY <1>9 DEF NotYetSent
        <2>1. request'[s].pc # "drop.write"
            BY <1>6, <1>8 DEF Msg!Linking
        <2>2. \A n \in MessageIds \ unchecked' : Msg!There(n)' => f \notin message'[n].files
            BY <1>1, <1>5, <1>9, <1>12 DEF FilesAgree, NotYetSent, Msg!There
        <2> QED
            BY <1>1, <1>8, <1>11, <2>1, <2>2 DEF FilesAgree, NotYetSent
    <1>16. ASSUME NEW t \in Slots PROVE Underway(t)'
        <2>1. CASE t # s
            <3>1. \A n \in MessageIds : Msg!There(n) => Msg!There(n)' /\ message'[n] = message[n]
                BY <1>5 DEF Msg!There
            <3>2. request[t].pc \in {"edit.write", "delete.write"} => request[t].msg \in MessageIds
                BY <1>1, MessageCallShape DEF Msg!Write
            <3>3. request'[t] = request[t] /\ Underway(t)
                BY <1>1, <1>8, <2>1 DEF FilesAgree
            <3> QED
                BY <1>9, <3>1, <3>2, <3>3 DEF Underway
        <2>2. CASE t = s
            <3>1. next \notin {"files.row", "forward.send", "edit.write", "delete.write"} \cup Msg!Inserting
                BY DEF Msg!Inserting, Msg!Linking
            <3> QED
                BY <1>5, <1>6, <1>8, <2>2, <3>1 DEF Underway, Msg!There
        <2> QED
            BY <2>1, <2>2
    <1>17. \A n \in MessageIds : ~Msg!There(n) /\ Msg!There(n)' /\ n \notin unchecked' => message'[n].files \cap dropped \subseteq contested
        BY <1>5, <1>12 DEF Msg!There
    <1> QED
        BY <1>10, <1>13, <1>14, <1>15, <1>16, <1>17 DEF MessagesInv, FilesAgree

LEMMA FilesLinked ==
    ASSUME MessagesInv, NEW s \in Slots, request[s].pc \in Msg!Linking, Msg!Link(s)
    PROVE  MessagesInv'
    <1> DEFINE c == request[s]
    <1>1. Msg!TypeOK /\ FilesAgree
        BY DEF MessagesInv
    <1>2. /\ c.files \subseteq Files /\ c.msg \in MessageIds
          /\ Msg!There(c.msg) /\ message[c.msg].files = c.files
          /\ \A f \in c.files : Msg!Sending(s, f)
        BY <1>1, MessageCallShape DEF SendPcs, Msg!Attach, FilesAgree, Underway, Msg!Sending
    <1>3. request' = [request EXCEPT ![s] = Msg!Idle]
        BY DEF Msg!Link, Msg!Done
    <1>4. /\ request' \in [Slots -> MessageCalls \cup {Msg!Idle}]
          /\ request'[s] = Msg!Idle /\ \A t \in Slots \ {s} : request'[t] = request[t]
        BY <1>1, <1>3, MessageCallMoves
    <1>5. /\ \A f \in c.files : file'[f] = c.msg
          /\ \A f \in Files \ c.files : file'[f] = file[f]
          /\ file' \in [Files -> {"none", "stored", "orphan"} \cup MessageIds]
        BY <1>1, <1>2 DEF Msg!Link, Msg!TypeOK
    <1>6. UNCHANGED <<message, dropped, page, saves, contested, unchecked, broke, calls, faults>>
        BY DEF Msg!Link, Msg!caches, Msg!history, Msg!Counters
    <1>7. Msg!TypeOK'
        BY <1>1, <1>4, <1>5, <1>6 DEF Msg!TypeOK, MessageCalls
    <1>8. /\ \A f \in Files : ~Msg!Sending(s, f)'
          /\ \A t \in Slots \ {s} : \A f \in Files : Msg!Sending(t, f)' <=> Msg!Sending(t, f)
        BY <1>4 DEF Msg!Sending, Msg!Idle, Msg!Inserting, Msg!Linking
    <1>9. \A f \in c.files \ contested : /\ file[f] \notin MessageIds
                                         /\ \A t \in Slots \ {s} : ~Msg!Sending(t, f)
        BY <1>1, <1>2 DEF FilesAgree, SentOnce
    <1>10. Msg!FilesStay'
        <2> SUFFICES ASSUME NEW n \in MessageIds, Msg!There(n), n \notin broke \cup unchecked,
                            NEW f \in message[n].files
                     PROVE  \/ file'[f] = n \/ f \in contested
                            \/ \E t \in Slots : request'[t].pc \in Msg!Linking /\ request'[t].msg = n
            BY <1>6 DEF Msg!FilesStay, Msg!There
        <2>1. f \in Files
            BY <1>1 DEF Msg!There, Msg!TypeOK, Msg!Message
        <2>2. \/ file[f] = n \/ f \in contested
              \/ \E t \in Slots : request[t].pc \in Msg!Linking /\ request[t].msg = n
            BY <1>1 DEF FilesAgree, Msg!FilesStay
        <2>3. CASE file[f] = n
            BY <1>5, <1>9, <2>1, <2>3
        <2>4. CASE \E t \in Slots : request[t].pc \in Msg!Linking /\ request[t].msg = n
            <3>1. PICK t \in Slots : request[t].pc \in Msg!Linking /\ request[t].msg = n
                BY <2>4
            <3>2. CASE t = s
                BY <1>2, <1>5, <3>1, <3>2
            <3>3. CASE t # s
                BY <1>4, <3>1, <3>3
            <3> QED
                BY <3>2, <3>3
        <2> QED
            BY <2>2, <2>3, <2>4
    <1>11. SentOnce'
        <2> SUFFICES ASSUME NEW f \in Files \ contested
                     PROVE  /\ \A t, r \in Slots : Msg!Sending(t, f)' /\ Msg!Sending(r, f)' => t = r
                            /\ \A t \in Slots : Msg!Sending(t, f)' => file'[f] \notin MessageIds
            BY <1>6 DEF SentOnce
        <2>1. CASE f \in c.files
            BY <1>8, <1>9, <2>1
        <2>2. CASE f \notin c.files
            BY <1>1, <1>5, <1>8, <2>2 DEF FilesAgree, SentOnce
        <2> QED
            BY <2>1, <2>2
    <1>12. NotYetSent'
        <2> SUFFICES ASSUME NEW f \in Files, file'[f] = "none"
                     PROVE  /\ f \notin dropped
                            /\ \A t \in Slots : ~Msg!Sending(t, f)' /\ (request'[t].pc = "drop.write" => request'[t].what # f)
                            /\ \A n \in MessageIds \ unchecked : Msg!There(n) => f \notin message[n].files
            BY <1>6 DEF NotYetSent, Msg!There
        <2>1. file[f] = "none"
            BY <1>2, <1>5, AreasAssumption
        <2>2. request'[s].pc # "drop.write"
            BY <1>4 DEF Msg!Idle
        <2> QED
            BY <1>1, <1>4, <1>8, <2>1, <2>2 DEF FilesAgree, NotYetSent
    <1>13. ASSUME NEW t \in Slots PROVE Underway(t)'
        <2>1. CASE t # s
            BY <1>1, <1>4, <1>6, <2>1 DEF FilesAgree, Underway, Msg!There
        <2>2. CASE t = s
            BY <1>4, <2>2 DEF Underway, Msg!Idle, Msg!Inserting, Msg!Linking
        <2> QED
            BY <2>1, <2>2
    <1> QED
        BY <1>7, <1>10, <1>11, <1>12, <1>13 DEF MessagesInv, FilesAgree

LEMMA RowInserted ==
    ASSUME MessagesInv, NEW s \in Slots, Msg!FilesRow(s)
    PROVE  MessagesInv'
    <1> DEFINE c == request[s]
    <1>1. Msg!TypeOK /\ FilesAgree
        BY DEF MessagesInv
    <1>2. c \in Msg!Attach /\ c.pc = "files.row" /\ c.todo \subseteq c.files /\ c.files \subseteq Files
        BY <1>1, MessageCallShape DEF Msg!FilesRow, Msg!At, SendPcs, Msg!Attach, FilesAgree, Underway
    <1>3. PICK f \in c.todo :
              /\ file' = [file EXCEPT ![f] = "orphan"]
              /\ request' = [request EXCEPT ![s].todo = @ \ {f},
                                            ![s].pc = IF c.todo = {f} THEN "files.insert" ELSE @]
        BY DEF Msg!FilesRow
    <1>4. PICK d \in Msg!Attach : /\ request' = [request EXCEPT ![s] = d]
                                  /\ d.pc \in {"files.row", "files.insert"}
                                  /\ d.files = c.files /\ d.todo \subseteq c.files
        <2>1. PICK pc \in {"files.row", "files.insert"} :
                  request' = [request EXCEPT ![s] = [c EXCEPT !.todo = c.todo \ {f}, !.pc = pc]]
            BY <1>1, <1>2, <1>3 DEF Msg!TypeOK
        <2>2. /\ [c EXCEPT !.todo = c.todo \ {f}, !.pc = pc] \in Msg!Attach
              /\ [c EXCEPT !.todo = c.todo \ {f}, !.pc = pc].pc = pc
              /\ [c EXCEPT !.todo = c.todo \ {f}, !.pc = pc].files = c.files
              /\ [c EXCEPT !.todo = c.todo \ {f}, !.pc = pc].todo = c.todo \ {f}
            BY <1>2 DEF Msg!Attach, Msg!Inserting
        <2> QED
            BY <1>2, <2>1, <2>2
    <1>5. /\ request' \in [Slots -> MessageCalls \cup {Msg!Idle}]
          /\ request'[s] = d /\ \A t \in Slots \ {s} : request'[t] = request[t]
        BY <1>1, <1>4, MessageCallMoves DEF MessageCalls
    <1>6. /\ file'[f] = "orphan" /\ \A g \in Files \ {f} : file'[g] = file[g]
          /\ file' \in [Files -> {"none", "stored", "orphan"} \cup MessageIds]
          /\ f \in Files /\ Msg!Sending(s, f)
        BY <1>1, <1>2, <1>3 DEF Msg!TypeOK, Msg!Sending
    <1>7. UNCHANGED <<message, dropped, page, saves, contested, unchecked, broke, calls, faults>>
        BY DEF Msg!FilesRow, Msg!caches, Msg!history, Msg!Counters
    <1>8. Msg!TypeOK'
        BY <1>1, <1>5, <1>6, <1>7 DEF Msg!TypeOK, MessageCalls
    <1>9. \A t \in Slots, g \in Files : Msg!Sending(t, g)' <=> Msg!Sending(t, g)
        BY <1>2, <1>4, <1>5 DEF Msg!Sending, Msg!Inserting
    <1>10. Msg!FilesStay'
        <2> SUFFICES ASSUME NEW n \in MessageIds, Msg!There(n), n \notin broke \cup unchecked,
                            NEW g \in message[n].files
                     PROVE  \/ file'[g] = n \/ g \in contested
                            \/ \E t \in Slots : request'[t].pc \in Msg!Linking /\ request'[t].msg = n
            BY <1>7 DEF Msg!FilesStay, Msg!There
        <2>1. g \in Files
            BY <1>1 DEF Msg!There, Msg!TypeOK, Msg!Message
        <2>2. \/ file[g] = n \/ g \in contested
              \/ \E t \in Slots : request[t].pc \in Msg!Linking /\ request[t].msg = n
            BY <1>1 DEF FilesAgree, Msg!FilesStay
        <2>3. f \in contested \/ file[f] # n
            BY <1>1, <1>6 DEF FilesAgree, SentOnce
        <2>4. \A t \in Slots : request[t].pc \in Msg!Linking => request'[t] = request[t]
            BY <1>2, <1>5 DEF Msg!Linking
        <2>5. CASE file[g] = n
            BY <1>6, <2>1, <2>3, <2>5
        <2> QED
            BY <2>2, <2>4, <2>5
    <1>11. SentOnce'
        BY <1>1, <1>6, <1>7, <1>9, AreasAssumption DEF FilesAgree, SentOnce
    <1>12. NotYetSent'
        <2>1. \A g \in Files : file'[g] = "none" => file[g] = "none"
            BY <1>6
        <2>2. \A t \in Slots : request'[t].pc = "drop.write" => request'[t] = request[t]
            BY <1>4, <1>5
        <2> QED
            BY <1>1, <1>7, <1>9, <2>1, <2>2 DEF FilesAgree, NotYetSent, Msg!There
    <1>13. ASSUME NEW t \in Slots PROVE Underway(t)'
        <2>1. CASE t # s
            BY <1>1, <1>5, <1>7, <2>1 DEF FilesAgree, Underway, Msg!There
        <2>2. CASE t = s
            <3>1. c.files \cap dropped \subseteq contested
                BY <1>1, <1>2 DEF FilesAgree, Underway
            <3>2. d.pc \notin {"forward.send", "edit.write", "delete.write"} \cup Msg!Linking
                BY <1>4 DEF Msg!Linking
            <3> QED
                BY <1>4, <1>5, <1>7, <2>2, <3>1, <3>2 DEF Underway
        <2> QED
            BY <2>1, <2>2
    <1> QED
        BY <1>8, <1>10, <1>11, <1>12, <1>13 DEF MessagesInv, FilesAgree

LEMMA ExistingSent ==
    ASSUME MessagesInv, NEW s \in Slots, NEW u \in Senders, NEW f \in Files,
           Msg!SendExistingAttachment(s, u, f)
    PROVE  MessagesInv'
    <1> DEFINE c == [pc |-> "attachment.insert", by |-> u, todo |-> {}, files |-> {f}, msg |-> None]
    <1>1. Msg!TypeOK /\ FilesAgree /\ file[f] = "orphan" /\ f \notin dropped
        BY DEF MessagesInv, Msg!SendExistingAttachment
    <1>2. c \in MessageCalls \cup {Msg!Idle}
        BY SendersAreUsers DEF MessageCalls, Msg!Attach, Msg!Inserting
    <1>3. /\ request' = [request EXCEPT ![s] = c] /\ request[s] = Msg!Idle
          /\ calls' \in 0..AreaCalls["messages"] /\ faults' \in 0..AreaFaults["messages"]
        BY <1>1, <1>2, MessageBegins DEF Msg!SendExistingAttachment
    <1>4. /\ request' \in [Slots -> MessageCalls \cup {Msg!Idle}]
          /\ request'[s] = c /\ \A t \in Slots \ {s} : request'[t] = request[t]
        BY <1>1, <1>2, <1>3, MessageCallMoves
    <1>5. /\ UNCHANGED <<message, file, dropped, page, saves, unchecked, broke>>
          /\ contested' = contested \cup {g \in {f} : \E t \in Slots : Msg!Sending(t, g)}
        BY DEF Msg!SendExistingAttachment, Msg!tables, Msg!caches
    <1>6. Msg!TypeOK'
        BY <1>1, <1>3, <1>4, <1>5 DEF Msg!TypeOK, MessageCalls
    <1>7. /\ \A g \in Files : Msg!Sending(s, g)' <=> g = f
          /\ \A t \in Slots \ {s} : \A g \in Files : Msg!Sending(t, g)' <=> Msg!Sending(t, g)
          /\ request[s].pc = "idle" /\ "idle" \notin Msg!Linking
        BY <1>3, <1>4 DEF Msg!Sending, Msg!Inserting, Msg!Linking, Msg!Idle
    <1>8. contested \subseteq contested' /\ (f \notin contested' => \A t \in Slots : ~Msg!Sending(t, f))
        BY <1>5
    <1>9. Msg!FilesStay'
        <2>1. \A t \in Slots : request[t].pc \in Msg!Linking => request'[t] = request[t]
            BY <1>4, <1>7
        <2> QED
            BY <1>1, <1>5, <1>8, <2>1 DEF FilesAgree, Msg!FilesStay, Msg!There
    <1>10. SentOnce'
        <2> SUFFICES ASSUME NEW g \in Files \ contested'
                     PROVE  /\ \A t, r \in Slots : Msg!Sending(t, g)' /\ Msg!Sending(r, g)' => t = r
                            /\ \A t \in Slots : Msg!Sending(t, g)' => file[g] \notin MessageIds
            BY <1>5 DEF SentOnce
        <2>1. CASE g = f
            BY <1>1, <1>7, <1>8, <2>1, AreasAssumption
        <2>2. CASE g # f
            BY <1>1, <1>7, <1>8, <2>2 DEF FilesAgree, SentOnce
        <2> QED
            BY <2>1, <2>2
    <1>11. NotYetSent'
        BY <1>1, <1>4, <1>5, <1>7 DEF FilesAgree, NotYetSent, Msg!There
    <1>12. ASSUME NEW t \in Slots PROVE Underway(t)'
        <2>1. CASE t # s
            BY <1>1, <1>4, <1>5, <1>8, <2>1 DEF FilesAgree, Underway, Msg!There
        <2>2. CASE t = s
            BY <1>1, <1>4, <1>5, <2>2 DEF Underway, Msg!Linking
        <2> QED
            BY <2>1, <2>2
    <1> QED
        BY <1>6, <1>9, <1>10, <1>11, <1>12 DEF MessagesInv, FilesAgree

LEMMA AttachmentRead ==
    ASSUME MessagesInv, NEW s \in Slots, NEW u \in Users, NEW f \in Files,
           Msg!DeleteAttachment(s, u, f)
    PROVE  MessagesInv'
    <1> DEFINE c == [pc |-> "drop.write", what |-> f]
    <1>1. Msg!TypeOK /\ FilesAgree
        BY DEF MessagesInv
    <1>2. c \in MessageCalls \cup {Msg!Idle}
        BY DEF MessageCalls, Msg!Drop
    <1>3. /\ request' = [request EXCEPT ![s] = c] /\ request[s] = Msg!Idle
          /\ calls' \in 0..AreaCalls["messages"] /\ faults' \in 0..AreaFaults["messages"]
        BY <1>1, <1>2, MessageBegins DEF Msg!DeleteAttachment
    <1>4. /\ request' \in [Slots -> MessageCalls \cup {Msg!Idle}]
          /\ request'[s] = c /\ \A t \in Slots \ {s} : request'[t] = request[t]
        BY <1>1, <1>2, <1>3, MessageCallMoves
    <1>5. UNCHANGED <<message, file, dropped, page, saves, contested, unchecked, broke>> /\ file[f] # "none"
        BY DEF Msg!DeleteAttachment, Msg!tables, Msg!caches, Msg!history
    <1>6. Msg!TypeOK'
        BY <1>1, <1>3, <1>4, <1>5 DEF Msg!TypeOK, MessageCalls
    <1>7. /\ request'[s].pc = "drop.write" /\ request'[s].what = f /\ request[s].pc = "idle"
          /\ "idle" \notin Msg!Linking /\ "drop.write" \notin SendPcs
        BY <1>3, <1>4 DEF Msg!Idle, SendPcs, Msg!Inserting, Msg!Linking
    <1>8. FilesAgree'
        BY <1>1, <1>4, <1>5, <1>7, FilesAlone
    <1> QED
        BY <1>6, <1>8 DEF MessagesInv

LEMMA AttachmentDropped ==
    ASSUME MessagesInv, NEW s \in Slots, Msg!DeleteAttachmentWrite(s)
    PROVE  MessagesInv'
    <1> DEFINE f == request[s].what
    <1>1. Msg!TypeOK /\ FilesAgree
        BY DEF MessagesInv
    <1>2. request[s].pc = "drop.write" /\ f \in Files /\ file[f] # "none"
        BY <1>1, MessageCallShape DEF Msg!DeleteAttachmentWrite, Msg!At, Msg!Drop, FilesAgree, NotYetSent
    <1>3. request' = [request EXCEPT ![s] = Msg!Idle]
        BY DEF Msg!DeleteAttachmentWrite, Msg!Done
    <1>4. /\ request' \in [Slots -> MessageCalls \cup {Msg!Idle}]
          /\ request'[s] = Msg!Idle /\ \A t \in Slots \ {s} : request'[t] = request[t]
        BY <1>1, <1>3, MessageCallMoves
    <1>5. /\ UNCHANGED <<message, file, page, saves, unchecked, broke, calls, faults>>
          /\ dropped' = dropped \cup {f}
          /\ contested' = contested \cup {g \in {f} : \E t \in Slots : Msg!Sending(t, g)}
        BY DEF Msg!DeleteAttachmentWrite, Msg!caches, Msg!Counters
    <1>6. Msg!TypeOK'
        BY <1>1, <1>2, <1>4, <1>5 DEF Msg!TypeOK, MessageCalls
    <1>7. /\ \A t \in Slots, g \in Files : Msg!Sending(t, g)' => Msg!Sending(t, g)
          /\ request[s].pc \notin Msg!Linking
          /\ contested \subseteq contested'
        BY <1>2, <1>4, <1>5 DEF Msg!Sending, Msg!Inserting, Msg!Linking, Msg!Idle
    <1>8. Msg!FilesStay'
        <2>1. \A t \in Slots : request[t].pc \in Msg!Linking => request'[t] = request[t]
            BY <1>4, <1>7
        <2> QED
            BY <1>1, <1>5, <1>7, <2>1 DEF FilesAgree, Msg!FilesStay, Msg!There
    <1>9. SentOnce'
        BY <1>1, <1>5, <1>7 DEF FilesAgree, SentOnce
    <1>10. NotYetSent'
        <2>1. \A t \in Slots : request'[t].pc = "drop.write" => request'[t] = request[t]
            BY <1>4 DEF Msg!Idle
        <2> QED
            BY <1>1, <1>2, <1>5, <1>7, <2>1 DEF FilesAgree, NotYetSent, Msg!There
    <1>11. ASSUME NEW t \in Slots PROVE Underway(t)'
        <2>1. CASE t # s
            <3>1. ASSUME request[t].pc \in {"files.row"} \cup Msg!Inserting, f \in request[t].files
                  PROVE  f \in contested'
                BY <1>5, <3>1 DEF Msg!Sending
            <3> QED
                BY <1>1, <1>4, <1>5, <1>7, <2>1, <3>1 DEF FilesAgree, Underway, Msg!There
        <2>2. CASE t = s
            BY <1>4, <2>2 DEF Underway, Msg!Idle, Msg!Inserting, Msg!Linking
        <2> QED
            BY <2>1, <2>2
    <1> QED
        BY <1>6, <1>8, <1>9, <1>10, <1>11 DEF MessagesInv, FilesAgree

LEMMA MessagesStart == Msg!Init => MessagesInv
    <1> SUFFICES ASSUME Msg!Init PROVE MessagesInv
        OBVIOUS
    <1>1. AreaCalls["messages"] \in Nat /\ AreaFaults["messages"] \in Nat
        BY AreasAssumption DEF Areas
    <1>2. Msg!TypeOK
        BY <1>1 DEF Msg!Init, Msg!TypeOK, Msg!NoPage, Msg!Page
    <1>3. /\ \A m \in MessageIds : ~Msg!There(m)
          /\ \A s \in Slots : request[s].pc = "idle"
          /\ \A s \in Slots, f \in Files : ~Msg!Sending(s, f)
        BY DEF Msg!Init, Msg!There, Msg!Idle, Msg!Sending, Msg!Inserting, Msg!Linking
    <1>4. Msg!FilesStay /\ SentOnce /\ NotYetSent
        BY <1>3 DEF Msg!Init, Msg!FilesStay, SentOnce, NotYetSent
    <1>5. \A s \in Slots : Underway(s)
        BY <1>3 DEF Underway, Msg!Inserting, Msg!Linking
    <1> QED
        BY <1>2, <1>4, <1>5 DEF MessagesInv, FilesAgree

LEMMA MessagesStep == MessagesInv /\ Msg!Next => MessagesInv'
    <1> SUFFICES ASSUME MessagesInv, Msg!Next PROVE MessagesInv'
        OBVIOUS
    <1>1. ASSUME NEW s \in Slots, Msg!MessageRequests(s) PROVE MessagesInv'
        <2>1. {} \in SUBSET Files
            OBVIOUS
        <2> QED
            BY <1>1, <2>1, MessageSent, ForwardBegins, MessageReads, PagesAndFaults
            DEF Msg!MessageRequests, Msg!ReplyInThread
    <1>2. ASSUME NEW s \in Slots, Msg!FileRequests(s) PROVE MessagesInv'
        <2>1. "file.insert" \in {"files.row"} \cup Msg!Inserting /\ "files.row" \in {"files.row"} \cup Msg!Inserting
            BY DEF Msg!Inserting
        <2>2. ASSUME NEW u \in Senders, NEW fs \in SUBSET Files, Msg!SendMultipleFiles(s, u, fs) PROVE MessagesInv'
            BY <2>1, <2>2, FilesStored DEF Msg!SendMultipleFiles
        <2>3. ASSUME NEW u \in Senders, NEW f \in Files, Msg!SendFileMessage(s, u, f) PROVE MessagesInv'
            <3>1. {f} \in SUBSET Files /\ Msg!SendFiles(s, u, {f}, "file.insert", "stored")
                BY <2>3 DEF Msg!SendFileMessage
            <3> QED
                BY <2>1, <3>1, FilesStored
        <2> QED
            BY <1>2, <2>2, <2>3, FileUploaded, ExistingSent, AttachmentRead DEF Msg!FileRequests
    <1>3. ASSUME NEW s \in Slots, Msg!Steps(s) PROVE MessagesInv'
        <2>1. CASE Msg!FileRow(s) \/ Msg!FilesLink(s) \/ Msg!AttachmentLink(s)
            BY <2>1, FilesLinked DEF Msg!FileRow, Msg!FilesLink, Msg!AttachmentLink, Msg!At, Msg!Linking
        <2>2. ASSUME NEW m \in MessageIds, Msg!FileInsert(s, m) \/ Msg!FilesInsert(s, m) \/ Msg!AttachmentInsert(s, m)
              PROVE  MessagesInv'
            BY <2>2, MessageWithFiles
            DEF Msg!FileInsert, Msg!FilesInsert, Msg!AttachmentInsert, Msg!At, Msg!Linking, Msg!Inserting
        <2> QED
            BY <1>3, <2>1, <2>2, MessageWritten, AttachmentDropped, RowInserted, ForwardGoesOn DEF Msg!Steps
    <1> QED
        BY <1>1, <1>2, <1>3, PagesAndFaults DEF Msg!Next

\* A message that is inserted has no file that was deleted before, unless its
\* sender has named it.
NoDeadFile ==
    \A m \in MessageIds : ~Msg!There(m) /\ Msg!There(m)' /\ m \notin unchecked' =>
        message'[m].files \cap dropped \subseteq contested

LEMMA NoDeadFileSent == MessagesInv /\ Msg!Next => NoDeadFile
    <1> SUFFICES ASSUME MessagesInv, Msg!Next PROVE NoDeadFile
        OBVIOUS
    <1>1. Msg!TypeOK /\ FilesAgree
        BY DEF MessagesInv
    <1>2. ASSUME message' = message PROVE NoDeadFile
        BY <1>2 DEF NoDeadFile, Msg!There
    <1>3. ASSUME NEW n \in MessageIds, NEW row, Msg!There(n), message' = [message EXCEPT ![n] = row]
          PROVE  NoDeadFile
        <2>1. \A m \in MessageIds \ {n} : message'[m] = message[m]
            BY <1>3
        <2> QED
            BY <1>3, <2>1 DEF NoDeadFile, Msg!There
    <1>4. ASSUME NEW m \in MessageIds, NEW u, NEW text, Msg!Insert(m, u, text, {}) PROVE NoDeadFile
        <2>1. message'[m].files = {} /\ \A n \in MessageIds \ {m} : message'[n] = message[n]
            BY <1>1, <1>4 DEF Msg!Insert, Msg!TypeOK
        <2> QED
            BY <2>1 DEF NoDeadFile, Msg!There
    <1>5. ASSUME NEW s \in Slots, NEW u, NEW m \in MessageIds, NEW fs, Msg!SendMessage(s, u, m, fs) PROVE NoDeadFile
        <2>1. CASE fs = {}
            BY <1>4, <1>5, <2>1 DEF Msg!SendMessage
        <2>2. CASE fs # {}
            <3>1. m \in unchecked' /\ \A n \in MessageIds \ {m} : message'[n] = message[n]
                BY <1>1, <1>5, <2>2 DEF Msg!SendMessage, Msg!Insert, Msg!TypeOK
            <3> QED
                BY <3>1 DEF NoDeadFile, Msg!There
        <2> QED
            BY <2>1, <2>2
    <1>6. ASSUME NEW s \in Slots, Msg!MessageRequests(s) \/ Msg!FileRequests(s) PROVE NoDeadFile
        BY <1>2, <1>6, <1>5
        DEF Msg!MessageRequests, Msg!FileRequests, Msg!ReplyInThread, Msg!ForwardStart,
            Msg!EditStart, Msg!DeleteStart, Msg!PageMiss, Msg!UploadMessageFile, Msg!SendFileMessage,
            Msg!SendMultipleFiles, Msg!SendFiles, Msg!SendExistingAttachment, Msg!DeleteAttachment, Msg!tables
    <1>7. ASSUME NEW s \in Slots, Msg!Steps(s) PROVE NoDeadFile
        <2>1. ASSUME Msg!EditWrite(s) \/ Msg!DeleteWrite(s) PROVE NoDeadFile
            <3>1. request[s].msg \in MessageIds /\ Msg!There(request[s].msg)
                BY <1>1, <2>1, MessageCallShape DEF Msg!EditWrite, Msg!DeleteWrite, Msg!At, Msg!Write, FilesAgree, Underway
            <3>2. \E row : message' = [message EXCEPT ![request[s].msg] = row]
                BY <2>1 DEF Msg!EditWrite, Msg!DeleteWrite
            <3> QED
                BY <3>1, <3>2, <1>3
        <2>2. ASSUME NEW m \in MessageIds, Msg!FileInsert(s, m) \/ Msg!FilesInsert(s, m) \/ Msg!AttachmentInsert(s, m)
              PROVE  NoDeadFile
            BY <2>2, MessageWithFiles
            DEF Msg!FileInsert, Msg!FilesInsert, Msg!AttachmentInsert, Msg!At, Msg!Linking, Msg!Inserting, NoDeadFile
        <2>3. ASSUME NEW m \in MessageIds, Msg!ForwardSend(s, m) PROVE NoDeadFile
            BY <1>4, <2>3 DEF Msg!ForwardSend
        <2>4. CASE Msg!DeleteAttachmentWrite(s) \/ Msg!FileRow(s) \/ Msg!FilesRow(s) \/ Msg!FilesLink(s) \/ Msg!AttachmentLink(s)
            BY <1>2, <2>4 DEF Msg!DeleteAttachmentWrite, Msg!FileRow, Msg!FilesRow, Msg!FilesLink,
                              Msg!AttachmentLink, Msg!Link
        <2> QED
            BY <1>7, <2>1, <2>2, <2>3, <2>4 DEF Msg!Steps
    <1>8. ASSUME NEW s \in Slots, Msg!RequestFails(s) PROVE NoDeadFile
        BY <1>2, <1>8 DEF Msg!RequestFails, Msg!tables
    <1>9. CASE (\E p \in Msg!Page : Msg!Fill(p)) \/ Msg!PageExpires \/ Msg!Crash
        BY <1>2, <1>9 DEF Msg!Fill, Msg!PageExpires, Msg!Crash, Msg!tables
    <1> QED
        BY <1>6, <1>7, <1>8, <1>9 DEF Msg!Next

-----------------------------------------------------------------------------
(* The notifications.                                                      *)

\* What a job is about to do for a recipient is what the recipient wants: the mute
\* it takes off is over, and whom it notifies of a message has not muted it.
JobSound(m) ==
    LET j == job[m]
    IN  /\ j.pc \in {"unmute", "create"} => j.user \in Users
        /\ j.pc = "unmute" => j.user \notin wished \/ j.user \in overtaken
        /\ j.pc \in {"unmute", "create"} /\ j.kind = "message" => j.user \notin quiet[m]

\* Whoever counts as undisturbed has the channel muted; and nothing is known of a
\* message that is not sent.
QuietIsMuted == \A m \in NoticeIds : \A u \in quiet[m] : muted[u] = "on"
Unsent ==
    \A m \in NoticeIds : from[m] = None =>
        job[m] = Ntf!NoJob /\ \A u \in Users, k \in Ntf!Kinds \cup {"mention"} : <<m, u, k>> \notin notes

NoticesInv ==
    /\ Ntf!TypeOK /\ Ntf!MutesLast /\ Ntf!MuteHolds
    /\ QuietIsMuted /\ Unsent /\ \A m \in NoticeIds : JobSound(m)

LEMMA JobShape ==
    ASSUME Ntf!TypeOK, NEW m \in NoticeIds, job[m].pc \in {"tail", "check", "unmute", "create"}
    PROVE  job[m] \in Ntf!Job
    BY DEF Ntf!TypeOK, Ntf!NoJob

LEMMA NoticeCall ==
    ASSUME Ntf!TypeOK, Ntf!Call
    PROVE  calls' \in 0..AreaCalls["notifications"] /\ faults' \in 0..AreaFaults["notifications"]
    <1>1. AreaCalls["notifications"] \in Nat
        BY AreasAssumption DEF Areas
    <1> QED
        BY <1>1 DEF Ntf!Call, Ntf!TypeOK

LEMMA NoticeFails ==
    ASSUME Ntf!TypeOK, Ntf!Failing
    PROVE  calls' \in 0..AreaCalls["notifications"] /\ faults' \in 0..AreaFaults["notifications"]
    <1>1. AreaFaults["notifications"] \in Nat
        BY AreasAssumption DEF Areas
    <1> QED
        BY <1>1 DEF Ntf!Failing, Ntf!TypeOK

LEMMA JobMoves ==
    ASSUME Ntf!TypeOK, NEW m \in NoticeIds, NEW j \in Ntf!Job \cup {Ntf!NoJob},
           job' = [job EXCEPT ![m] = j]
    PROVE  /\ job' \in [NoticeIds -> Ntf!Job \cup {Ntf!NoJob}]
           /\ job'[m] = j /\ \A n \in NoticeIds \ {m} : job'[n] = job[n]
    BY DEF Ntf!TypeOK

LEMMA NoticesStart == Ntf!Init => NoticesInv
    <1> SUFFICES ASSUME Ntf!Init PROVE NoticesInv
        OBVIOUS
    <1>1. AreaCalls["notifications"] \in Nat /\ AreaFaults["notifications"] \in Nat
        BY AreasAssumption DEF Areas
    <1>2. Ntf!TypeOK
        BY <1>1 DEF Ntf!Init, Ntf!TypeOK
    <1> QED
        BY <1>2 DEF Ntf!Init, NoticesInv, Ntf!MutesLast, Ntf!MuteHolds, QuietIsMuted, Unsent, JobSound, Ntf!NoJob

LEMMA NoticeSent ==
    ASSUME NoticesInv, NEW u \in Senders, NEW m \in NoticeIds, NEW kind \in Ntf!Kinds,
           NEW mentions \in SUBSET Named, Ntf!SendMessage(u, m, kind, mentions)
    PROVE  NoticesInv'
    <1> DEFINE j == [pc |-> "tail", kind |-> kind, user |-> None, todo |-> Users \ {u}, mentions |-> mentions]
    <1>1. Ntf!TypeOK
        BY DEF NoticesInv
    <1>2. Senders \subseteq Users /\ Named \subseteq Users /\ None \notin Users
        BY AreasAssumption
    <1>3. j \in Ntf!Job
        BY <1>2 DEF Ntf!Job
    <1>4. job' = [job EXCEPT ![m] = j]
        BY DEF Ntf!SendMessage
    <1>5. /\ job' \in [NoticeIds -> Ntf!Job \cup {Ntf!NoJob}]
          /\ job'[m] = j /\ \A n \in NoticeIds \ {m} : job'[n] = job[n]
        BY <1>1, <1>3, <1>4, JobMoves
    <1>6. /\ quiet' = [quiet EXCEPT ![m] = {v \in Users : muted[v] = "on"}]
          /\ quiet' \in [NoticeIds -> SUBSET Users]
          /\ quiet'[m] = {v \in Users : muted[v] = "on"}
          /\ \A n \in NoticeIds \ {m} : quiet'[n] = quiet[n]
        BY <1>1 DEF Ntf!SendMessage, Ntf!TypeOK
    <1>7. /\ from[m] = None /\ from' \in [NoticeIds -> Senders \cup {None}]
          /\ from'[m] # None /\ \A n \in NoticeIds \ {m} : from'[n] = from[n]
        BY <1>1, <1>2 DEF Ntf!SendMessage, Ntf!TypeOK
    <1>8. UNCHANGED <<muted, notes, wished, overtaken, skipped, broke>>
        BY DEF Ntf!SendMessage
    <1>9. calls' \in 0..AreaCalls["notifications"] /\ faults' \in 0..AreaFaults["notifications"]
        BY <1>1, NoticeCall DEF Ntf!SendMessage
    <1>10. Ntf!TypeOK'
        BY <1>1, <1>5, <1>6, <1>7, <1>8, <1>9 DEF Ntf!TypeOK
    <1>11. Ntf!MutesLast' /\ Ntf!MuteHolds'
        <2>1. \A v \in Users : <<m, v, "message">> \notin notes
            BY <1>7 DEF NoticesInv, Unsent, Ntf!Kinds
        <2> QED
            BY <1>6, <1>8, <2>1 DEF NoticesInv, Ntf!MutesLast, Ntf!MuteHolds
    <1>12. QuietIsMuted' /\ Unsent'
        BY <1>5, <1>6, <1>7, <1>8 DEF NoticesInv, QuietIsMuted, Unsent
    <1>13. \A n \in NoticeIds : JobSound(n)'
        BY <1>5, <1>6, <1>8 DEF NoticesInv, JobSound
    <1> QED
        BY <1>10, <1>11, <1>12, <1>13 DEF NoticesInv

\* Some job moves on, and whoever counts as undisturbed may do so no longer.
LEMMA JobGoesOn ==
    ASSUME NoticesInv, NEW m \in NoticeIds, NEW j \in Ntf!Job \cup {Ntf!NoJob},
           job[m] # Ntf!NoJob, job' = [job EXCEPT ![m] = j],
           j.pc \in {"unmute", "create"} =>
               /\ j.user \in Users
               /\ j.pc = "unmute" => j.user \notin wished \/ j.user \in overtaken
               /\ j.kind = "message" => j.user \notin quiet'[m],
           \A n \in NoticeIds : quiet'[n] \subseteq quiet[n],
           quiet' \in [NoticeIds -> SUBSET Users], skipped' \in [NoticeIds -> SUBSET Users],
           NEW told \in SUBSET ({m} \X Users \X (Ntf!Kinds \cup {"mention"})), notes' = notes \cup told,
           \A u \in quiet'[m] : <<m, u, "message">> \notin told,
           UNCHANGED <<from, muted, wished, overtaken>>, broke' \subseteq NoticeIds,
           calls' \in 0..AreaCalls["notifications"] /\ faults' \in 0..AreaFaults["notifications"]
    PROVE  NoticesInv'
    <1>1. Ntf!TypeOK
        BY DEF NoticesInv
    <1>2. /\ job' \in [NoticeIds -> Ntf!Job \cup {Ntf!NoJob}]
          /\ job'[m] = j /\ \A n \in NoticeIds \ {m} : job'[n] = job[n]
        BY <1>1, JobMoves
    <1>3. Ntf!TypeOK'
        BY <1>1, <1>2 DEF Ntf!TypeOK
    <1>4. Ntf!MutesLast' /\ QuietIsMuted'
        BY DEF NoticesInv, Ntf!MutesLast, QuietIsMuted
    <1>5. Ntf!MuteHolds'
        <2> SUFFICES ASSUME NEW n \in NoticeIds, NEW u \in quiet'[n] PROVE <<n, u, "message">> \notin notes'
            BY DEF Ntf!MuteHolds
        <2>1. <<n, u, "message">> \notin notes
            BY DEF NoticesInv, Ntf!MuteHolds
        <2> QED
            BY <2>1
    <1>6. Unsent'
        <2> SUFFICES ASSUME NEW n \in NoticeIds, from[n] = None
                     PROVE  /\ job'[n] = Ntf!NoJob
                            /\ \A u \in Users, k \in Ntf!Kinds \cup {"mention"} : <<n, u, k>> \notin notes'
            BY DEF Unsent
        <2>1. n # m /\ job[n] = Ntf!NoJob
            BY DEF NoticesInv, Unsent
        <2>2. \A u \in Users, k \in Ntf!Kinds \cup {"mention"} : <<n, u, k>> \notin told
            BY <2>1
        <2> QED
            BY <1>2, <2>1, <2>2 DEF NoticesInv, Unsent
    <1>7. ASSUME NEW n \in NoticeIds PROVE JobSound(n)'
        <2>1. CASE n = m
            BY <1>2, <2>1 DEF JobSound
        <2>2. CASE n # m
            BY <1>2, <2>2 DEF NoticesInv, JobSound
        <2> QED
            BY <2>1, <2>2
    <1> QED
        BY <1>3, <1>4, <1>5, <1>6, <1>7 DEF NoticesInv

\* The participants' own requests.
LEMMA MuteChanges ==
    ASSUME NoticesInv, NEW u \in Users, Ntf!Mute(u) \/ Ntf!Unmute(u) \/ Ntf!MuteEnds(u)
    PROVE  NoticesInv'
    <1>1. Ntf!TypeOK
        BY DEF NoticesInv
    <1>2. /\ UNCHANGED <<from, notes, job, skipped, broke>>
          /\ calls' \in 0..AreaCalls["notifications"] /\ faults' \in 0..AreaFaults["notifications"]
        BY <1>1, NoticeCall DEF Ntf!Mute, Ntf!Unmute, Ntf!MuteEnds, Ntf!Counters, Ntf!TypeOK
    <1>3. /\ muted' \in [Users -> {"off", "on", "over"}]
          /\ \A v \in Users \ {u} : muted'[v] = muted[v]
          /\ wished' \subseteq Users /\ wished' \ {u} = wished \ {u}
          /\ overtaken' \subseteq Users /\ overtaken' \ {u} = overtaken \ {u}
        BY <1>1 DEF Ntf!Mute, Ntf!Unmute, Ntf!MuteEnds, Ntf!TypeOK
    <1>4. \/ /\ muted'[u] = "on" /\ quiet' = quiet
             /\ \A m \in NoticeIds : job[m].pc = "unmute" /\ job[m].user = u => u \in overtaken'
          \/ /\ u \notin wished' /\ quiet' = [m \in NoticeIds |-> quiet[m] \ {u}]
             /\ overtaken' = overtaken
        BY <1>1 DEF Ntf!Mute, Ntf!Unmute, Ntf!MuteEnds, Ntf!TypeOK, Ntf!Heard, Ntf!At
    <1>5. /\ quiet' \in [NoticeIds -> SUBSET Users]
          /\ \A m \in NoticeIds : quiet'[m] \subseteq quiet[m]
          /\ \A m \in NoticeIds : u \in quiet'[m] => muted'[u] = "on"
        BY <1>1, <1>4 DEF Ntf!TypeOK
    <1>6. Ntf!TypeOK'
        BY <1>1, <1>2, <1>3, <1>5 DEF Ntf!TypeOK
    <1>7. Ntf!MutesLast'
        <2>1. \A v \in wished' \ {u} : v \in wished /\ v \in Users /\ (v \in overtaken => v \in overtaken')
            BY <1>3
        <2> QED
            BY <1>3, <1>4, <2>1 DEF NoticesInv, Ntf!MutesLast
    <1>8. Ntf!MuteHolds' /\ Unsent'
        BY <1>2, <1>5 DEF NoticesInv, Ntf!MuteHolds, Unsent
    <1>9. QuietIsMuted'
        BY <1>3, <1>5, <1>1 DEF NoticesInv, QuietIsMuted, Ntf!TypeOK
    <1>10. ASSUME NEW m \in NoticeIds PROVE JobSound(m)'
        <2>1. JobSound(m)
            BY DEF NoticesInv
        <2>2. job[m].pc = "unmute" => job[m].user \notin wished' \/ job[m].user \in overtaken'
            BY <1>3, <1>4, <2>1 DEF JobSound
        <2> QED
            BY <1>2, <1>5, <2>1, <2>2 DEF JobSound
    <1> QED
        BY <1>6, <1>7, <1>8, <1>9, <1>10 DEF NoticesInv

LEMMA MuteTakenOff ==
    ASSUME NoticesInv, NEW m \in NoticeIds, Ntf!TakeOff(m)
    PROVE  NoticesInv'
    <1> DEFINE u == job[m].user
               j == [job[m] EXCEPT !.pc = "create", !.user = u]
    <1>1. Ntf!TypeOK /\ JobSound(m)
        BY DEF NoticesInv
    <1>2. job[m] \in Ntf!Job /\ job[m].pc = "unmute" /\ u \in Users /\ (u \notin wished \/ u \in overtaken)
        BY <1>1, JobShape DEF Ntf!TakeOff, Ntf!At, JobSound
    <1>3. j \in Ntf!Job /\ j.pc = "create" /\ j.user = u
        BY <1>2 DEF Ntf!Job
    <1>4. job' = [job EXCEPT ![m] = j]
        BY <1>1 DEF Ntf!TakeOff, Ntf!GoTo, Ntf!TypeOK
    <1>5. /\ job' \in [NoticeIds -> Ntf!Job \cup {Ntf!NoJob}]
          /\ job'[m] = j /\ \A n \in NoticeIds \ {m} : job'[n] = job[n]
        BY <1>1, <1>3, <1>4, JobMoves
    <1>6. /\ muted' \in [Users -> {"off", "on", "over"}]
          /\ \A v \in Users \ {u} : muted'[v] = muted[v]
          /\ quiet' = [n \in NoticeIds |-> quiet[n] \ {u}]
          /\ quiet' \in [NoticeIds -> SUBSET Users]
          /\ \A n \in NoticeIds : quiet'[n] = quiet[n] \ {u}
          /\ UNCHANGED <<from, notes, wished, overtaken, skipped, broke, calls, faults>>
        BY <1>1 DEF Ntf!TakeOff, Ntf!TypeOK, Ntf!Heard, Ntf!Counters
    <1>7. Ntf!TypeOK'
        BY <1>1, <1>5, <1>6 DEF Ntf!TypeOK
    <1>8. Ntf!MutesLast'
        BY <1>1, <1>2, <1>6 DEF NoticesInv, Ntf!MutesLast, Ntf!TypeOK
    <1>9. Ntf!MuteHolds' /\ QuietIsMuted'
        BY <1>1, <1>6 DEF NoticesInv, Ntf!MuteHolds, QuietIsMuted, Ntf!TypeOK
    <1>10. Unsent'
        <2>1. from[m] # None
            BY <1>2 DEF NoticesInv, Unsent, Ntf!NoJob
        <2> QED
            BY <1>5, <1>6, <2>1 DEF NoticesInv, Unsent
    <1>11. ASSUME NEW n \in NoticeIds PROVE JobSound(n)'
        <2>1. CASE n = m
            BY <1>2, <1>3, <1>5, <1>6, <2>1 DEF JobSound
        <2>2. CASE n # m
            BY <1>5, <1>6, <2>2 DEF NoticesInv, JobSound
        <2> QED
            BY <2>1, <2>2
    <1> QED
        BY <1>7, <1>8, <1>9, <1>10, <1>11 DEF NoticesInv

\* The recipients of a message, one after the other.
LEMMA RecipientChosen ==
    ASSUME NoticesInv, NEW m \in NoticeIds, NEW u \in Users,
           Ntf!FindEndedMute(m, u) \/ Ntf!FindUnmuted(m, u) \/ Ntf!AskFails(m, u)
    PROVE  NoticesInv'
    <1>1. Ntf!TypeOK
        BY DEF NoticesInv
    <1>2. job[m] \in Ntf!Job /\ job[m] # Ntf!NoJob /\ job[m].pc = "check"
        BY <1>1, JobShape DEF Ntf!FindEndedMute, Ntf!FindUnmuted, Ntf!AskFails, Ntf!Recipient, Ntf!At, Ntf!NoJob
    <1>3. PICK pc \in {"unmute", "create"} :
              /\ Ntf!GoTo(m, u, pc)
              /\ pc = "unmute" => muted[u] = "over"
              /\ pc = "create" /\ job[m].kind = "message" => muted[u] = "off" \/ Ntf!AskFails(m, u)
        BY <1>2 DEF Ntf!FindEndedMute, Ntf!FindUnmuted, Ntf!AskFails, Ntf!Recipient
    <1> DEFINE j == [job[m] EXCEPT !.pc = pc, !.user = u]
    <1>4. /\ j \in Ntf!Job /\ j.pc = pc /\ j.user = u /\ j.kind = job[m].kind
          /\ job' = [job EXCEPT ![m] = j]
        BY <1>1, <1>2, <1>3 DEF Ntf!Job, Ntf!GoTo, Ntf!TypeOK
    <1>5. /\ \A n \in NoticeIds : quiet'[n] \subseteq quiet[n]
          /\ quiet' \in [NoticeIds -> SUBSET Users] /\ skipped' \in [NoticeIds -> SUBSET Users]
          /\ Ntf!AskFails(m, u) => u \notin quiet'[m]
          /\ UNCHANGED <<from, muted, wished, overtaken, notes>> /\ broke' \subseteq NoticeIds
        BY <1>1 DEF Ntf!FindEndedMute, Ntf!FindUnmuted, Ntf!AskFails, Ntf!TypeOK, Ntf!history
    <1>6. calls' \in 0..AreaCalls["notifications"] /\ faults' \in 0..AreaFaults["notifications"]
        <2>1. CASE Ntf!AskFails(m, u)
            BY <1>1, <2>1, NoticeFails DEF Ntf!AskFails
        <2>2. CASE ~Ntf!AskFails(m, u)
            BY <1>1, <2>2 DEF Ntf!FindEndedMute, Ntf!FindUnmuted, Ntf!Counters, Ntf!TypeOK
        <2> QED
            BY <2>1, <2>2
    <1>7. pc = "unmute" => u \notin wished \/ u \in overtaken
        BY <1>3 DEF NoticesInv, Ntf!MutesLast
    <1>8. j.kind = "message" => u \notin quiet'[m]
        <2>1. muted[u] # "on" => u \notin quiet[m]
            BY DEF NoticesInv, QuietIsMuted
        <2> QED
            BY <1>3, <1>4, <1>5, <2>1
    <1>9. /\ {} \in SUBSET ({m} \X Users \X (Ntf!Kinds \cup {"mention"})) /\ notes' = notes \cup {}
          /\ \A v \in quiet'[m] : <<m, v, "message">> \notin {}
        BY <1>5
    <1>10. j.pc \in {"unmute", "create"} =>
               /\ j.user \in Users
               /\ j.pc = "unmute" => j.user \notin wished \/ j.user \in overtaken
               /\ j.kind = "message" => j.user \notin quiet'[m]
        BY <1>4, <1>7, <1>8
    <1> HIDE DEF j
    <1> QED
        BY <1>2, <1>4, <1>5, <1>6, <1>9, <1>10, JobGoesOn

LEMMA JobTurns ==
    ASSUME NoticesInv, NEW m \in NoticeIds,
           \/ Ntf!SendTail(m) \/ Ntf!TakeOffFails(m) \/ Ntf!CreateFails(m) \/ Ntf!JobEnds(m) \/ Ntf!Fails(m)
           \/ \E u \in Users : Ntf!SkipMuted(m, u) \/ Ntf!MentionFails(m, u)
    PROVE  NoticesInv'
    <1>1. Ntf!TypeOK /\ JobSound(m)
        BY DEF NoticesInv
    <1>2. job[m] \in Ntf!Job /\ job[m] # Ntf!NoJob
        BY <1>1, JobShape DEF Ntf!SendTail, Ntf!TakeOffFails, Ntf!CreateFails, Ntf!JobEnds, Ntf!Fails,
                              Ntf!SkipMuted, Ntf!MentionFails, Ntf!Recipient, Ntf!At, Ntf!NoJob
    <1>3. /\ quiet' = quiet
          /\ UNCHANGED <<from, muted, wished, overtaken, notes>> /\ broke' \subseteq NoticeIds
          /\ skipped' \in [NoticeIds -> SUBSET Users]
        BY <1>1 DEF Ntf!SendTail, Ntf!TakeOffFails, Ntf!CreateFails, Ntf!JobEnds, Ntf!Fails,
                    Ntf!SkipMuted, Ntf!MentionFails, Ntf!TypeOK, Ntf!history
    <1>4. calls' \in 0..AreaCalls["notifications"] /\ faults' \in 0..AreaFaults["notifications"]
        <2>1. CASE Ntf!Failing
            BY <1>1, <2>1, NoticeFails
        <2>2. CASE ~Ntf!Failing
            BY <1>1, <2>2 DEF Ntf!SendTail, Ntf!TakeOffFails, Ntf!CreateFails, Ntf!JobEnds, Ntf!Fails,
                              Ntf!SkipMuted, Ntf!MentionFails, Ntf!Counters, Ntf!TypeOK
        <2> QED
            BY <2>1, <2>2
    <1>5. PICK j \in Ntf!Job \cup {Ntf!NoJob} :
              /\ job' = [job EXCEPT ![m] = j]
              /\ j.pc \in {"unmute", "create"} =>
                     /\ j.pc = "create" /\ job[m].pc = "unmute"
                     /\ j.user = job[m].user /\ j.kind = job[m].kind
        <2>1. CASE Ntf!SendTail(m)
            <3>1. /\ [job[m] EXCEPT !.pc = "check"] \in Ntf!Job
                  /\ [job[m] EXCEPT !.pc = "check"].pc = "check"
                BY <1>2 DEF Ntf!Job
            <3> QED
                BY <2>1, <3>1 DEF Ntf!SendTail
        <2>2. CASE Ntf!TakeOffFails(m)
            <3>1. /\ [job[m] EXCEPT !.pc = "create"] \in Ntf!Job
                  /\ [job[m] EXCEPT !.pc = "create"].pc = "create"
                  /\ [job[m] EXCEPT !.pc = "create"].user = job[m].user
                  /\ [job[m] EXCEPT !.pc = "create"].kind = job[m].kind
                BY <1>2 DEF Ntf!Job
            <3> QED
                BY <2>2, <3>1 DEF Ntf!TakeOffFails, Ntf!At
        <2>3. CASE Ntf!CreateFails(m)
            <3>1. /\ [job[m] EXCEPT !.pc = "check", !.todo = {}] \in Ntf!Job
                  /\ [job[m] EXCEPT !.pc = "check", !.todo = {}].pc = "check"
                BY <1>2 DEF Ntf!Job
            <3>2. job' = [job EXCEPT ![m] = [job[m] EXCEPT !.pc = "check", !.todo = {}]]
                BY <1>1, <2>3 DEF Ntf!CreateFails, Ntf!TypeOK
            <3> QED
                BY <3>1, <3>2
        <2>4. CASE \E u \in Users : Ntf!SkipMuted(m, u)
            <3> PICK u \in Users : Ntf!SkipMuted(m, u)
                BY <2>4
            <3>1. /\ [job[m] EXCEPT !.todo = job[m].todo \ {u}] \in Ntf!Job
                  /\ [job[m] EXCEPT !.todo = job[m].todo \ {u}].pc = job[m].pc
                BY <1>2 DEF Ntf!Job
            <3>2. job' = [job EXCEPT ![m] = [job[m] EXCEPT !.todo = job[m].todo \ {u}]] /\ job[m].pc = "check"
                BY <2>4 DEF Ntf!SkipMuted, Ntf!Recipient, Ntf!At
            <3> QED
                BY <3>1, <3>2
        <2>5. CASE \E u \in Users : Ntf!MentionFails(m, u)
            <3> PICK u \in Users : Ntf!MentionFails(m, u)
                BY <2>5
            <3>1. /\ [job[m] EXCEPT !.mentions = job[m].mentions \ {u}] \in Ntf!Job
                  /\ [job[m] EXCEPT !.mentions = job[m].mentions \ {u}].pc = job[m].pc
                BY <1>2 DEF Ntf!Job
            <3>2. job' = [job EXCEPT ![m] = [job[m] EXCEPT !.mentions = job[m].mentions \ {u}]] /\ job[m].pc = "check"
                BY <2>5 DEF Ntf!MentionFails, Ntf!At
            <3> QED
                BY <3>1, <3>2
        <2>6. CASE Ntf!JobEnds(m) \/ Ntf!Fails(m)
            <3>1. job' = [job EXCEPT ![m] = Ntf!NoJob] /\ Ntf!NoJob.pc = "none"
                BY <2>6 DEF Ntf!JobEnds, Ntf!Fails, Ntf!NoJob
            <3> QED
                BY <3>1
        <2> QED
            BY <2>1, <2>2, <2>3, <2>4, <2>5, <2>6
    <1>6. j.pc \in {"unmute", "create"} =>
              /\ j.user \in Users
              /\ j.pc = "unmute" => j.user \notin wished \/ j.user \in overtaken
              /\ j.kind = "message" => j.user \notin quiet'[m]
        BY <1>1, <1>3, <1>5 DEF JobSound
    <1>7. /\ {} \in SUBSET ({m} \X Users \X (Ntf!Kinds \cup {"mention"})) /\ notes' = notes \cup {}
          /\ \A v \in quiet'[m] : <<m, v, "message">> \notin {}
          /\ quiet' \in [NoticeIds -> SUBSET Users] /\ \A n \in NoticeIds : quiet'[n] \subseteq quiet[n]
        BY <1>1, <1>3 DEF Ntf!TypeOK
    <1> QED
        BY <1>2, <1>3, <1>4, <1>5, <1>6, <1>7, JobGoesOn

LEMMA NoticeMade ==
    ASSUME NoticesInv, NEW m \in NoticeIds, Ntf!Create(m) \/ \E u \in Users : Ntf!Mention(m, u)
    PROVE  NoticesInv'
    <1>1. Ntf!TypeOK /\ JobSound(m)
        BY DEF NoticesInv
    <1>2. job[m] \in Ntf!Job /\ job[m] # Ntf!NoJob
        BY <1>1, JobShape DEF Ntf!Create, Ntf!Mention, Ntf!At, Ntf!NoJob
    <1>3. UNCHANGED <<from, muted, wished, overtaken, quiet, skipped, broke, calls, faults>>
        BY DEF Ntf!Create, Ntf!Mention, Ntf!history, Ntf!Counters
    <1>4. PICK j \in Ntf!Job : job' = [job EXCEPT ![m] = j] /\ j.pc = "check"
        <2>1. CASE Ntf!Create(m)
            <3>1. /\ [job[m] EXCEPT !.pc = "check", !.todo = job[m].todo \ {job[m].user}] \in Ntf!Job
                  /\ [job[m] EXCEPT !.pc = "check", !.todo = job[m].todo \ {job[m].user}].pc = "check"
                BY <1>2 DEF Ntf!Job
            <3>2. job' = [job EXCEPT ![m] = [job[m] EXCEPT !.pc = "check", !.todo = job[m].todo \ {job[m].user}]]
                BY <1>1, <2>1 DEF Ntf!Create, Ntf!TypeOK
            <3> QED
                BY <3>1, <3>2
        <2>2. CASE \E u \in Users : Ntf!Mention(m, u)
            <3> PICK u \in Users : Ntf!Mention(m, u)
                BY <2>2
            <3>1. /\ [job[m] EXCEPT !.mentions = job[m].mentions \ {u}] \in Ntf!Job
                  /\ [job[m] EXCEPT !.mentions = job[m].mentions \ {u}].pc = job[m].pc
                BY <1>2 DEF Ntf!Job
            <3>2. job' = [job EXCEPT ![m] = [job[m] EXCEPT !.mentions = job[m].mentions \ {u}]] /\ job[m].pc = "check"
                BY <2>2 DEF Ntf!Mention, Ntf!At
            <3> QED
                BY <3>1, <3>2
        <2> QED
            BY <2>1, <2>2
    <1>5. PICK told \in SUBSET ({m} \X Users \X (Ntf!Kinds \cup {"mention"})) :
              notes' = notes \cup told /\ \A v \in quiet[m] : <<m, v, "message">> \notin told
        <2>1. CASE Ntf!Create(m)
            <3>1. job[m].user \in Users /\ job[m].kind \in Ntf!Kinds
                BY <1>1, <1>2, <2>1 DEF Ntf!Create, Ntf!At, JobSound, Ntf!Job
            <3>2. job[m].kind = "message" => job[m].user \notin quiet[m]
                BY <1>1, <2>1 DEF Ntf!Create, Ntf!At, JobSound
            <3>3. notes' = notes \cup {<<m, job[m].user, job[m].kind>>}
                BY <2>1 DEF Ntf!Create
            <3>4. {<<m, job[m].user, job[m].kind>>} \in SUBSET ({m} \X Users \X (Ntf!Kinds \cup {"mention"}))
                BY <3>1
            <3>5. \A v \in quiet[m] : <<m, v, "message">> \notin {<<m, job[m].user, job[m].kind>>}
                BY <3>2
            <3> QED
                BY <3>3, <3>4, <3>5
        <2>2. CASE \E u \in Users : Ntf!Mention(m, u)
            <3> PICK u \in Users : Ntf!Mention(m, u)
                BY <2>2
            <3>1. notes' = notes \cup {<<m, u, "mention">>}
                BY <2>2 DEF Ntf!Mention
            <3>2. {<<m, u, "mention">>} \in SUBSET ({m} \X Users \X (Ntf!Kinds \cup {"mention"}))
                OBVIOUS
            <3>3. \A v \in quiet[m] : <<m, v, "message">> \notin {<<m, u, "mention">>}
                OBVIOUS
            <3> QED
                BY <3>1, <3>2, <3>3
        <2> QED
            BY <2>1, <2>2
    <1>6. j \in Ntf!Job \cup {Ntf!NoJob} /\ j.pc \notin {"unmute", "create"}
        BY <1>4
    <1>7. /\ \A v \in quiet'[m] : <<m, v, "message">> \notin told
          /\ quiet' \in [NoticeIds -> SUBSET Users] /\ \A n \in NoticeIds : quiet'[n] \subseteq quiet[n]
          /\ skipped' \in [NoticeIds -> SUBSET Users] /\ broke' \subseteq NoticeIds
          /\ calls' \in 0..AreaCalls["notifications"] /\ faults' \in 0..AreaFaults["notifications"]
        BY <1>1, <1>3, <1>5 DEF Ntf!TypeOK
    <1> QED
        BY <1>2, <1>3, <1>4, <1>5, <1>6, <1>7, JobGoesOn

LEMMA NoticesCrash ==
    ASSUME NoticesInv, Ntf!Crash
    PROVE  NoticesInv'
    <1>1. Ntf!TypeOK
        BY DEF NoticesInv
    <1>2. /\ job' = [m \in NoticeIds |-> Ntf!NoJob] /\ broke' \subseteq NoticeIds
          /\ UNCHANGED <<from, muted, notes, wished, overtaken, quiet, skipped>>
        BY <1>1 DEF Ntf!Crash, Ntf!TypeOK
    <1>3. calls' \in 0..AreaCalls["notifications"] /\ faults' \in 0..AreaFaults["notifications"]
        BY <1>1, NoticeFails DEF Ntf!Crash
    <1>4. Ntf!TypeOK'
        BY <1>1, <1>2, <1>3 DEF Ntf!TypeOK
    <1>5. \A m \in NoticeIds : job'[m].pc = "none"
        BY <1>2 DEF Ntf!NoJob
    <1> QED
        BY <1>2, <1>4, <1>5 DEF NoticesInv, Ntf!MutesLast, Ntf!MuteHolds, QuietIsMuted, Unsent, JobSound

LEMMA NoticesStep == NoticesInv /\ Ntf!Next => NoticesInv'
    BY NoticeSent, MuteChanges, RecipientChosen, JobTurns, NoticeMade, MuteTakenOff, NoticesCrash
    DEF Ntf!Next, Ntf!Steps

-----------------------------------------------------------------------------
(* The ways to become the owner of a tenant.                               *)

\* A request that has its tenant, and what is there of it by then: the record of
\* the plan follows the plan, the profile of an agency is there before the users
\* row, that of the others with the commit, and the session before the commit.
HasTenant == {"onboard.plan", "onboard.history", "onboard.profile", "onboard.user",
              "onboard.session", "onboard.commit"}
Fits(c, row, fine) ==
    /\ row \in Onb!Tenant /\ row.kind = c.kind
    /\ c.pc \in {"onboard.plan", "onboard.history", "onboard.profile"} => ~row.profile /\ ~row.session
    /\ c.pc = "onboard.plan" => ~row.plan
    /\ c.pc \in {"onboard.profile", "onboard.user", "onboard.session", "onboard.commit"} /\ fine =>
           (row.plan => row.history)
    /\ c.pc \in {"onboard.user", "onboard.session", "onboard.commit"} => (row.profile <=> c.kind = "agency")
    /\ c.pc \in {"onboard.user", "onboard.session"} => ~row.session
    /\ c.pc = "onboard.commit" => row.session

TenantsFit ==
    \A s \in Slots :
        LET c == request[s]
        IN  /\ c.pc \in HasTenant => c.tenant \in Tenants /\ Fits(c, tenant[c.tenant], c.tenant \notin failed)
            /\ c.pc \in {"onboard.begin", "onboard.tenant"} => c.tenant = None

\* No two requests make the same tenant.
MakesIt(s, t) == request[s].pc \in HasTenant /\ request[s].tenant = t
TenantsApart == \A r, s \in Slots, t \in Tenants : MakesIt(r, t) /\ MakesIt(s, t) => r = s

\* A tenant that no request works at has all it needs, unless something failed.
TenantsDone ==
    \A t \in Tenants : tenant[t] # Onb!NoTenant /\ t \notin failed =>
        \/ \E s \in Slots : MakesIt(s, t)
        \/ tenant[t].profile /\ tenant[t].session /\ (tenant[t].plan => tenant[t].history)

\* The users row is locked by a request that has written it and goes on.
LockOwned ==
    lock # None => /\ lock \in Slots /\ request[lock].kind # "agency"
                   /\ request[lock].pc \in {"onboard.session", "onboard.commit"}

TenantsInv == TenantsFit /\ TenantsApart /\ TenantsDone
OnboardingInv == Onb!TypeOK /\ Onb!OnboardedOwns /\ TenantsInv /\ LockOwned

LEMMA OnboardingHolds == OnboardingInv => Onb!HalvesExplained /\ Onb!LockHeld
    <1> SUFFICES ASSUME OnboardingInv PROVE Onb!HalvesExplained /\ Onb!LockHeld
        OBVIOUS
    <1>1. Onb!LockHeld
        BY DEF OnboardingInv, LockOwned, Onb!LockHeld, Onb!Holds, Onb!Steps
    <1>2. Onb!HalvesExplained
        <2> SUFFICES ASSUME NEW t \in Tenants, tenant[t] # Onb!NoTenant, t \notin failed
                     PROVE  /\ tenant[t].profile \/ Onb!Working(t, Onb!Steps)
                            /\ tenant[t].plan => tenant[t].history \/ Onb!Working(t, {"onboard.history"})
                            /\ tenant[t].profile => tenant[t].session
                                                    \/ Onb!Working(t, {"onboard.user", "onboard.session"})
                            /\ tenant[t].session => tenant[t].profile \/ Onb!Working(t, {"onboard.commit"})
            BY DEF Onb!HalvesExplained
        <2>1. CASE \E s \in Slots : MakesIt(s, t)
            <3> PICK s \in Slots : MakesIt(s, t)
                BY <2>1
            <3>1. request[s].pc \in HasTenant /\ request[s].tenant = t /\ Fits(request[s], tenant[t], TRUE)
                BY DEF OnboardingInv, TenantsInv, TenantsFit, MakesIt, Fits
            <3>2. request[s].pc \in Onb!Steps
                BY <3>1 DEF HasTenant, Onb!Steps
            <3> QED
                BY <3>1, <3>2 DEF Fits, HasTenant, Onb!Working, Onb!Mine
        <2>2. CASE tenant[t].profile /\ tenant[t].session /\ (tenant[t].plan => tenant[t].history)
            BY <2>2
        <2> QED
            BY <2>1, <2>2 DEF OnboardingInv, TenantsInv, TenantsDone
    <1> QED
        BY <1>1, <1>2

LEMMA OnboardingShape ==
    ASSUME Onb!TypeOK, NEW s \in Slots, request[s].pc # "idle"
    PROVE  request[s] \in Onb!Request /\ request[s] # Onb!Idle
    BY DEF Onb!TypeOK, Onb!Idle

LEMMA OnboardingMoves ==
    ASSUME Onb!TypeOK, NEW s \in Slots, NEW c \in Onb!Request \cup {Onb!Idle},
           request' = [request EXCEPT ![s] = c]
    PROVE  /\ request' \in [Slots -> Onb!Request \cup {Onb!Idle}]
           /\ request'[s] = c /\ \A r \in Slots \ {s} : request'[r] = request[r]
    BY DEF Onb!TypeOK

LEMMA OnboardingBounds == AreaCalls["onboarding"] \in Nat /\ AreaFaults["onboarding"] \in Nat
    BY AreasAssumption DEF Areas

\* A request goes on with its tenant.
LEMMA TenantGrows ==
    ASSUME Onb!TypeOK, TenantsInv, NEW s \in Slots, request[s].pc \in HasTenant,
           NEW c \in Onb!Request, c.pc \in HasTenant, c.tenant = request[s].tenant,
           request' = [request EXCEPT ![s] = c],
           NEW row, tenant' = [tenant EXCEPT ![c.tenant] = row],
           failed \subseteq failed', failed' \subseteq failed \cup {c.tenant},
           Fits(c, row, c.tenant \notin failed')
    PROVE  TenantsInv'
    <1>1. /\ request'[s] = c /\ \A r \in Slots \ {s} : request'[r] = request[r]
        BY OnboardingMoves
    <1>2. c.tenant \in Tenants
        BY DEF TenantsInv, TenantsFit
    <1>3. tenant'[c.tenant] = row /\ \A t \in Tenants \ {c.tenant} : tenant'[t] = tenant[t]
        BY <1>2 DEF Onb!TypeOK
    <1>4. \A r \in Slots, t \in Tenants : MakesIt(r, t)' <=> MakesIt(r, t)
        BY <1>1 DEF MakesIt
    <1>5. TenantsApart'
        BY <1>4 DEF TenantsInv, TenantsApart
    <1>6. MakesIt(s, c.tenant)
        BY DEF MakesIt
    <1>7. TenantsFit'
        <2>1. c.pc \notin {"onboard.begin", "onboard.tenant"}
            BY DEF HasTenant
        <2>2. ASSUME NEW r \in Slots \ {s}, request[r].pc \in HasTenant
              PROVE  request[r].tenant \in Tenants \ {c.tenant}
            BY <1>2, <1>6, <2>2 DEF TenantsInv, TenantsApart, TenantsFit, MakesIt
        <2>3. ASSUME NEW r \in Slots \ {s}, request[r].pc \in HasTenant
              PROVE  Fits(request'[r], tenant'[request[r].tenant], request[r].tenant \notin failed')
            BY <1>1, <1>3, <2>2, <2>3 DEF TenantsInv, TenantsFit
        <2> QED
            BY <1>1, <1>2, <1>3, <2>1, <2>2, <2>3 DEF TenantsInv, TenantsFit
    <1>8. TenantsDone'
        <2> SUFFICES ASSUME NEW t \in Tenants, tenant'[t] # Onb!NoTenant, t \notin failed'
                     PROVE  \/ \E r \in Slots : MakesIt(r, t)'
                            \/ tenant'[t].profile /\ tenant'[t].session /\ (tenant'[t].plan => tenant'[t].history)
            BY DEF TenantsDone
        <2>1. CASE t = c.tenant
            BY <1>4, <1>6, <2>1
        <2>2. CASE t # c.tenant
            BY <1>3, <1>4, <2>2 DEF TenantsInv, TenantsDone
        <2> QED
            BY <2>1, <2>2
    <1> QED
        BY <1>5, <1>7, <1>8 DEF TenantsInv

\* A request that has no tenant yet or any more: what it leaves is complete or
\* known to have failed.
LEMMA TenantLeft ==
    ASSUME Onb!TypeOK, TenantsInv, NEW s \in Slots, NEW c \in Onb!Request \cup {Onb!Idle},
           c.pc \notin HasTenant, c.pc \in {"onboard.begin", "onboard.tenant"} => c.tenant = None,
           request' = [request EXCEPT ![s] = c],
           failed' = failed,
           \/ request[s].pc \notin HasTenant /\ tenant' = tenant
           \/ /\ request[s].pc \in HasTenant
              /\ \E row : /\ tenant' = [tenant EXCEPT ![request[s].tenant] = row]
                          /\ row.profile /\ row.session
                          /\ request[s].tenant \notin failed => (row.plan => row.history)
    PROVE  TenantsInv'
    <1>1. /\ request'[s] = c /\ \A r \in Slots \ {s} : request'[r] = request[r]
        BY OnboardingMoves
    <1>2. \A r \in Slots, t \in Tenants : MakesIt(r, t)' <=> MakesIt(r, t) /\ r # s
        BY <1>1 DEF MakesIt
    <1>3. TenantsApart'
        BY <1>2 DEF TenantsInv, TenantsApart
    <1>4. CASE request[s].pc \notin HasTenant /\ tenant' = tenant
        <2>1. \A t \in Tenants : ~MakesIt(s, t)
            BY <1>4 DEF MakesIt
        <2>2. TenantsFit'
            BY <1>1, <1>4 DEF TenantsInv, TenantsFit
        <2>3. TenantsDone'
            BY <1>2, <1>4, <2>1 DEF TenantsInv, TenantsDone
        <2> QED
            BY <1>3, <2>2, <2>3 DEF TenantsInv
    <1>5. ASSUME request[s].pc \in HasTenant,
                 NEW row, tenant' = [tenant EXCEPT ![request[s].tenant] = row],
                 row.profile, row.session,
                 request[s].tenant \notin failed => (row.plan => row.history)
          PROVE  TenantsInv'
        <2>1. request[s].tenant \in Tenants /\ MakesIt(s, request[s].tenant)
            BY <1>5 DEF TenantsInv, TenantsFit, MakesIt
        <2>2. /\ tenant'[request[s].tenant] = row
              /\ \A t \in Tenants \ {request[s].tenant} : tenant'[t] = tenant[t]
            BY <1>5, <2>1 DEF Onb!TypeOK
        <2>3. ASSUME NEW r \in Slots \ {s}, request[r].pc \in HasTenant
              PROVE  request[r].tenant \in Tenants \ {request[s].tenant}
            BY <2>1, <2>3 DEF TenantsInv, TenantsApart, TenantsFit, MakesIt
        <2>4. TenantsFit'
            BY <1>1, <2>2, <2>3 DEF TenantsInv, TenantsFit
        <2>5. TenantsDone'
            <3> SUFFICES ASSUME NEW t \in Tenants, tenant'[t] # Onb!NoTenant, t \notin failed'
                         PROVE  \/ \E r \in Slots : MakesIt(r, t)'
                                \/ tenant'[t].profile /\ tenant'[t].session /\ (tenant'[t].plan => tenant'[t].history)
                BY DEF TenantsDone
            <3>1. CASE t = request[s].tenant
                BY <1>5, <2>2, <3>1
            <3>2. CASE t # request[s].tenant
                <4>1. ~MakesIt(s, t)
                    BY <3>2 DEF MakesIt
                <4> QED
                    BY <1>2, <2>2, <3>2, <4>1 DEF TenantsInv, TenantsDone
            <3> QED
                BY <3>1, <3>2
        <2> QED
            BY <1>3, <2>4, <2>5 DEF TenantsInv
    <1> QED
        BY <1>4, <1>5

\* A request that stops.
LEMMA TenantDropped ==
    ASSUME Onb!TypeOK, TenantsInv, NEW gone \in SUBSET Slots,
           \A r \in Slots : request'[r] = IF r \in gone THEN Onb!Idle ELSE request[r],
           failed' = failed \cup ({request[r].tenant : r \in gone} \ {None}),
           tenant' = tenant
    PROVE  TenantsInv'
    <1>1. Onb!Idle.pc = "idle" /\ "idle" \notin HasTenant
        BY DEF Onb!Idle, HasTenant
    <1>2. \A r \in Slots, t \in Tenants : MakesIt(r, t)' <=> MakesIt(r, t) /\ r \notin gone
        BY <1>1 DEF MakesIt
    <1>3. TenantsApart'
        BY <1>2 DEF TenantsInv, TenantsApart
    <1>4. TenantsFit'
        <2>1. ASSUME NEW r \in Slots, request'[r].pc \in HasTenant
              PROVE  r \notin gone /\ request'[r] = request[r] /\ request[r].tenant \in Tenants
                     /\ Fits(request[r], tenant[request[r].tenant], request[r].tenant \notin failed)
            BY <1>1, <2>1 DEF TenantsInv, TenantsFit
        <2>2. ASSUME NEW r \in Slots, request'[r].pc \in HasTenant
              PROVE  Fits(request'[r], tenant'[request'[r].tenant], request'[r].tenant \notin failed')
            BY <2>1, <2>2 DEF Fits
        <2>3. ASSUME NEW r \in Slots, request'[r].pc \in {"onboard.begin", "onboard.tenant"}
              PROVE  request'[r].tenant = None
            BY <1>1, <2>3 DEF TenantsInv, TenantsFit
        <2> QED
            BY <2>1, <2>2, <2>3 DEF TenantsFit
    <1>5. TenantsDone'
        <2> SUFFICES ASSUME NEW t \in Tenants, tenant[t] # Onb!NoTenant, t \notin failed',
                            ~(tenant[t].profile /\ tenant[t].session /\ (tenant[t].plan => tenant[t].history))
                     PROVE  \E r \in Slots : MakesIt(r, t)'
            BY DEF TenantsDone
        <2>1. PICK r \in Slots : MakesIt(r, t)
            BY DEF TenantsInv, TenantsDone
        <2>2. t # None
            BY AreasAssumption
        <2>3. r \notin gone
            BY <2>1, <2>2 DEF MakesIt
        <2> QED
            BY <1>2, <2>1, <2>3
    <1> QED
        BY <1>3, <1>4, <1>5 DEF TenantsInv

\* The owner of a tenant keeps it.
LEMMA OwnerStays ==
    ASSUME Onb!OnboardedOwns, Onb!TypeOK,
           \A t \in Tenants : \/ tenant'[t] = tenant[t] \/ tenant[t] = Onb!NoTenant
                              \/ /\ tenant'[t].kind = tenant[t].kind
                                 /\ tenant[t].profile => tenant'[t].profile,
           \/ userType' = userType
           \/ \E t \in Tenants : tenant'[t].kind = userType' /\ tenant'[t].profile
    PROVE  Onb!OnboardedOwns'
    <1>1. CASE \E t \in Tenants : tenant'[t].kind = userType' /\ tenant'[t].profile
        BY <1>1 DEF Onb!OnboardedOwns
    <1>2. CASE userType' = userType
        <2>1. userType # "pending" => userType \in Onb!Kinds
            BY DEF Onb!TypeOK
        <2>2. userType # "pending" => \E t \in Tenants :
                  tenant[t].kind = userType /\ tenant[t].profile /\ tenant[t] # Onb!NoTenant
            BY <2>1 DEF Onb!OnboardedOwns, Onb!NoTenant, Onb!Kinds
        <2> QED
            BY <1>2, <2>2 DEF Onb!OnboardedOwns
    <1> QED
        BY <1>1, <1>2

\* What stays typed, and the lock, when one request moves.
LEMMA LockStays ==
    ASSUME LockOwned, NEW s \in Slots, request'[s].pc # "idle" => request'[s].kind = request[s].kind,
           \A r \in Slots \ {s} : request'[r] = request[r],
           \/ lock' = lock /\ request[s].pc \notin {"onboard.session", "onboard.commit"}
           \/ lock' = lock /\ request'[s].pc \in {"onboard.session", "onboard.commit"}
           \/ lock' = lock /\ request[s].kind = "agency"
           \/ Onb!Unlock(s)
    PROVE  LockOwned'
    BY DEF LockOwned, Onb!Unlock

LEMMA OnboardingStart == Onb!Init => OnboardingInv
    <1> SUFFICES ASSUME Onb!Init PROVE OnboardingInv
        OBVIOUS
    <1>1. Onb!TypeOK
        BY OnboardingBounds DEF Onb!Init, Onb!TypeOK
    <1>2. \A s \in Slots : request[s].pc = "idle"
        BY DEF Onb!Init, Onb!Idle
    <1> QED
        BY <1>1, <1>2
        DEF Onb!Init, OnboardingInv, Onb!OnboardedOwns, TenantsInv, TenantsFit, TenantsApart, TenantsDone,
            LockOwned, MakesIt, HasTenant

\* A request begins.
LEMMA OnboardingBegins ==
    ASSUME OnboardingInv, NEW s \in Slots,
           (\E k \in Onb!Kinds : Onb!Create(s, k)) \/ Onb!BeginTransaction(s)
    PROVE  OnboardingInv'
    <1>1. Onb!TypeOK /\ TenantsInv /\ LockOwned
        BY DEF OnboardingInv
    <1>2. PICK c \in Onb!Request :
              /\ request' = [request EXCEPT ![s] = c]
              /\ c.pc \in {"onboard.begin", "onboard.tenant"} /\ c.tenant = None
              /\ request[s].pc \in {"idle", "onboard.begin"}
        <2>1. CASE \E k \in Onb!Kinds : Onb!Create(s, k)
            <3> PICK k \in Onb!Kinds : Onb!Create(s, k)
                BY <2>1
            <3>1. [pc |-> "onboard.begin", kind |-> k, tenant |-> None] \in Onb!Request
                BY DEF Onb!Request, Onb!Steps
            <3>2. request[s].pc = "idle"
                BY DEF Onb!Create, Onb!Idle
            <3> QED
                BY <3>1, <3>2 DEF Onb!Create
        <2>2. CASE Onb!BeginTransaction(s)
            <3>1. request[s].pc = "onboard.begin" /\ request[s] \in Onb!Request /\ request[s].tenant = None
                BY <1>1, <2>2, OnboardingShape DEF Onb!BeginTransaction, Onb!At, TenantsInv, TenantsFit
            <3>2. /\ [request[s] EXCEPT !.pc = "onboard.tenant"] \in Onb!Request
                  /\ [request[s] EXCEPT !.pc = "onboard.tenant"].pc = "onboard.tenant"
                  /\ [request[s] EXCEPT !.pc = "onboard.tenant"].tenant = None
                BY <3>1 DEF Onb!Request, Onb!Steps
            <3> QED
                BY <2>2, <3>1, <3>2 DEF Onb!BeginTransaction, Onb!Goto
        <2> QED
            BY <2>1, <2>2
    <1>3. UNCHANGED <<tenant, userType, lock, failed, faults>> /\ calls' \in 0..AreaCalls["onboarding"]
        BY <1>1, OnboardingBounds DEF Onb!Create, Onb!BeginTransaction, Onb!Counters, Onb!TypeOK
    <1>4. c \in Onb!Request \cup {Onb!Idle}
        OBVIOUS
    <1>5. /\ request' \in [Slots -> Onb!Request \cup {Onb!Idle}]
          /\ request'[s] = c /\ \A r \in Slots \ {s} : request'[r] = request[r]
        BY <1>1, <1>2, <1>4, OnboardingMoves
    <1>6. Onb!TypeOK'
        BY <1>1, <1>3, <1>5 DEF Onb!TypeOK
    <1>7. request[s].pc \notin HasTenant /\ c.pc \notin HasTenant
        BY <1>2 DEF HasTenant
    <1>8. TenantsInv'
        BY <1>1, <1>2, <1>3, <1>4, <1>7, TenantLeft
    <1>9. LockOwned'
        <2>1. lock # None => lock # s
            BY <1>1, <1>2 DEF LockOwned
        <2> QED
            BY <1>1, <1>3, <1>5, <2>1 DEF LockOwned
    <1>10. Onb!OnboardedOwns'
        BY <1>1, <1>3, OwnerStays DEF OnboardingInv
    <1> QED
        BY <1>6, <1>8, <1>9, <1>10 DEF OnboardingInv

LEMMA TenantCreated ==
    ASSUME OnboardingInv, NEW s \in Slots, NEW t \in Tenants, Onb!CreateTenant(s, t)
    PROVE  OnboardingInv'
    <1> DEFINE row == Onb!NewTenant(request[s].kind)
               c == [request[s] EXCEPT !.pc = "onboard.plan", !.tenant = t]
    <1>1. Onb!TypeOK /\ TenantsInv /\ LockOwned
        BY DEF OnboardingInv
    <1>2. request[s] \in Onb!Request /\ request[s].pc = "onboard.tenant"
        BY <1>1, OnboardingShape DEF Onb!CreateTenant, Onb!At
    <1>3. /\ c \in Onb!Request /\ c.pc = "onboard.plan" /\ c.tenant = t /\ c.kind = request[s].kind
          /\ request' = [request EXCEPT ![s] = c]
        BY <1>1, <1>2 DEF Onb!CreateTenant, Onb!Request, Onb!Steps, Onb!TypeOK
    <1>4. /\ request' \in [Slots -> Onb!Request \cup {Onb!Idle}]
          /\ request'[s] = c /\ \A r \in Slots \ {s} : request'[r] = request[r]
        BY <1>1, <1>3, OnboardingMoves
    <1>5. /\ row \in Onb!Tenant /\ row.kind = c.kind /\ ~row.profile /\ ~row.session /\ ~row.plan
        BY <1>2, <1>3 DEF Onb!NewTenant, Onb!Tenant, Onb!Request
    <1>6. /\ tenant[t] = Onb!NoTenant
          /\ tenant'[t] = row /\ \A u \in Tenants \ {t} : tenant'[u] = tenant[u]
          /\ tenant' \in [Tenants -> Onb!Tenant \cup {Onb!NoTenant}]
          /\ UNCHANGED <<userType, lock, failed, calls, faults>>
        BY <1>1, <1>5 DEF Onb!CreateTenant, Onb!TypeOK, Onb!Counters
    <1> HIDE DEF c, row
    <1>7. Onb!TypeOK'
        BY <1>1, <1>4, <1>6 DEF Onb!TypeOK
    <1>8. \A r \in Slots : ~MakesIt(r, t)
        <2> SUFFICES ASSUME NEW r \in Slots, MakesIt(r, t) PROVE FALSE
            OBVIOUS
        <2>1. tenant[t] \in Onb!Tenant /\ tenant[t].kind \in Onb!Kinds
            BY <1>1 DEF TenantsInv, TenantsFit, MakesIt, Fits, Onb!Tenant
        <2> QED
            BY <1>6, <2>1 DEF Onb!NoTenant, Onb!Kinds
    <1>9. \A r \in Slots, u \in Tenants : MakesIt(r, u)' <=> MakesIt(r, u) \/ (r = s /\ u = t)
        <2>1. MakesIt(s, t)' /\ \A u \in Tenants : MakesIt(s, u)' => u = t
            BY <1>3, <1>4 DEF MakesIt, HasTenant
        <2>2. \A u \in Tenants : ~MakesIt(s, u)
            BY <1>2 DEF MakesIt, HasTenant
        <2>3. \A r \in Slots \ {s}, u \in Tenants : MakesIt(r, u)' <=> MakesIt(r, u)
            BY <1>4 DEF MakesIt
        <2> QED
            BY <2>1, <2>2, <2>3
    <1>10. TenantsApart'
        BY <1>1, <1>2, <1>8, <1>9 DEF TenantsInv, TenantsApart, MakesIt, HasTenant
    <1>11. TenantsFit'
        <2>1. Fits(c, row, t \notin failed)
            BY <1>3, <1>5 DEF Fits
        <2>2. ASSUME NEW r \in Slots \ {s}, request[r].pc \in HasTenant PROVE request[r].tenant \in Tenants \ {t}
            BY <1>1, <1>8, <2>2 DEF TenantsInv, TenantsFit, MakesIt
        <2>3. c.pc \notin {"onboard.begin", "onboard.tenant"}
            BY <1>3
        <2> QED
            BY <1>1, <1>3, <1>4, <1>6, <2>1, <2>2, <2>3 DEF TenantsInv, TenantsFit
    <1>12. TenantsDone'
        <2>1. MakesIt(s, t)'
            BY <1>9
        <2> SUFFICES ASSUME NEW u \in Tenants, tenant'[u] # Onb!NoTenant, u \notin failed'
                     PROVE  \/ \E r \in Slots : MakesIt(r, u)'
                            \/ tenant'[u].profile /\ tenant'[u].session /\ (tenant'[u].plan => tenant'[u].history)
            BY DEF TenantsDone
        <2>2. CASE u = t
            BY <2>1, <2>2
        <2>3. CASE u # t
            BY <1>1, <1>6, <1>9, <2>3 DEF TenantsInv, TenantsDone
        <2> QED
            BY <2>2, <2>3
    <1>13. LockOwned'
        <2>1. lock # None => lock # s
            BY <1>1, <1>2 DEF LockOwned
        <2> QED
            BY <1>1, <1>4, <1>6, <2>1 DEF LockOwned
    <1>14. Onb!OnboardedOwns'
        BY <1>1, <1>6, OwnerStays DEF OnboardingInv
    <1> QED
        BY <1>7, <1>10, <1>11, <1>12, <1>13, <1>14 DEF OnboardingInv, TenantsInv

\* A request writes for its tenant.
LEMMA TenantWritten ==
    ASSUME OnboardingInv, NEW s \in Slots,
           \/ Onb!AssignPlan(s) \/ Onb!RecordPlan(s) \/ Onb!NoFreePlan(s)
           \/ Onb!InsertProfile(s) \/ Onb!UpdateUser(s) \/ Onb!CreateSession(s)
    PROVE  OnboardingInv'
    <1> DEFINE t == request[s].tenant
    <1>1. Onb!TypeOK /\ TenantsInv /\ LockOwned
        BY DEF OnboardingInv
    <1>2. request[s] \in Onb!Request /\ request[s].pc \in HasTenant /\ request[s].pc # "onboard.commit"
        BY <1>1, OnboardingShape DEF Onb!AssignPlan, Onb!RecordPlan, Onb!NoFreePlan, Onb!InsertProfile,
                                     Onb!UpdateUser, Onb!CreateSession, Onb!At, HasTenant
    <1>3. t \in Tenants /\ tenant[t] \in Onb!Tenant /\ Fits(request[s], tenant[t], t \notin failed)
        BY <1>1, <1>2 DEF TenantsInv, TenantsFit, Fits
    <1> DEFINE Written(pc, c, row) ==
              /\ c = [request[s] EXCEPT !.pc = pc] /\ request' = [request EXCEPT ![s] = c]
              /\ tenant' = [tenant EXCEPT ![t] = row]
              /\ row.kind = tenant[t].kind /\ (tenant[t].profile => row.profile)
              /\ Fits(c, row, t \notin failed)
              /\ pc = "onboard.commit" => request[s].pc = "onboard.session"
    <1>4. PICK pc \in HasTenant \ {"onboard.plan"}, c \in Onb!Request, row \in Onb!Tenant : Written(pc, c, row)
        <2>1. CASE Onb!AssignPlan(s)
            <3>1. PICK row : row = [tenant[t] EXCEPT !.plan = TRUE]
                OBVIOUS
            <3>2. PICK c : c = [request[s] EXCEPT !.pc = "onboard.history"]
                OBVIOUS
            <3>3. /\ row \in Onb!Tenant /\ row.kind = tenant[t].kind
                  /\ row.profile = tenant[t].profile /\ row.session = tenant[t].session
                BY <1>3, <3>1 DEF Onb!Tenant
            <3>4. c \in Onb!Request /\ c.pc = "onboard.history" /\ c.kind = request[s].kind
                BY <1>2, <3>2 DEF Onb!Request, Onb!Steps
            <3>5. Fits(c, row, t \notin failed)
                BY <1>3, <2>1, <3>3, <3>4 DEF Fits, Onb!AssignPlan, Onb!At
            <3>6. request' = [request EXCEPT ![s] = c] /\ tenant' = [tenant EXCEPT ![t] = row]
                BY <2>1, <3>1, <3>2 DEF Onb!AssignPlan, Onb!Goto, Onb!Mine
            <3>8. Written("onboard.history", c, row)
                BY <3>2, <3>3, <3>5, <3>6
            <3>9. "onboard.history" \in HasTenant \ {"onboard.plan"}
                BY DEF HasTenant
            <3> QED
                BY <3>3, <3>4, <3>8, <3>9
        <2>2. CASE Onb!RecordPlan(s)
            <3>1. PICK row : row = [tenant[t] EXCEPT !.history = TRUE]
                OBVIOUS
            <3>2. PICK c : c = [request[s] EXCEPT !.pc = "onboard.profile"]
                OBVIOUS
            <3>3. /\ row \in Onb!Tenant /\ row.kind = tenant[t].kind /\ row.history
                  /\ row.profile = tenant[t].profile /\ row.session = tenant[t].session
                BY <1>3, <3>1 DEF Onb!Tenant
            <3>4. c \in Onb!Request /\ c.pc = "onboard.profile" /\ c.kind = request[s].kind
                BY <1>2, <3>2 DEF Onb!Request, Onb!Steps
            <3>5. Fits(c, row, t \notin failed)
                BY <1>3, <2>2, <3>3, <3>4 DEF Fits, Onb!RecordPlan, Onb!At
            <3>6. request' = [request EXCEPT ![s] = c] /\ tenant' = [tenant EXCEPT ![t] = row]
                BY <2>2, <3>1, <3>2 DEF Onb!RecordPlan, Onb!Goto, Onb!Mine
            <3>8. Written("onboard.profile", c, row)
                BY <3>2, <3>3, <3>5, <3>6
            <3>9. "onboard.profile" \in HasTenant \ {"onboard.plan"}
                BY DEF HasTenant
            <3> QED
                BY <3>3, <3>4, <3>8, <3>9
        <2>3. CASE Onb!NoFreePlan(s)
            <3>2. PICK c : c = [request[s] EXCEPT !.pc = "onboard.profile"]
                OBVIOUS
            <3>4. c \in Onb!Request /\ c.pc = "onboard.profile" /\ c.kind = request[s].kind
                BY <1>2, <3>2 DEF Onb!Request, Onb!Steps
            <3>5. Fits(c, tenant[t], t \notin failed)
                BY <1>3, <2>3, <3>4 DEF Fits, Onb!NoFreePlan, Onb!At
            <3>6. request' = [request EXCEPT ![s] = c] /\ tenant' = [tenant EXCEPT ![t] = tenant[t]]
                BY <1>1, <2>3, <3>2 DEF Onb!NoFreePlan, Onb!Goto, Onb!TypeOK
            <3>8. Written("onboard.profile", c, tenant[t])
                BY <1>3, <3>2, <3>5, <3>6
            <3>9. "onboard.profile" \in HasTenant \ {"onboard.plan"}
                BY DEF HasTenant
            <3> QED
                BY <1>3, <3>4, <3>8, <3>9
        <2>4. CASE Onb!InsertProfile(s)
            <3>1. PICK row : row = IF request[s].kind # "agency" THEN tenant[t] ELSE [tenant[t] EXCEPT !.profile = TRUE]
                OBVIOUS
            <3>2. PICK c : c = [request[s] EXCEPT !.pc = "onboard.user"]
                OBVIOUS
            <3>3. /\ row \in Onb!Tenant /\ row.kind = tenant[t].kind /\ row.session = tenant[t].session
                  /\ row.plan = tenant[t].plan /\ row.history = tenant[t].history
                  /\ row.profile <=> tenant[t].profile \/ request[s].kind = "agency"
                BY <1>3, <3>1 DEF Onb!Tenant
            <3>4. c \in Onb!Request /\ c.pc = "onboard.user" /\ c.kind = request[s].kind
                BY <1>2, <3>2 DEF Onb!Request, Onb!Steps
            <3>5. Fits(c, row, t \notin failed)
                BY <1>3, <2>4, <3>3, <3>4 DEF Fits, Onb!InsertProfile, Onb!At
            <3>6. request' = [request EXCEPT ![s] = c] /\ tenant' = [tenant EXCEPT ![t] = row]
                BY <1>1, <2>4, <3>1, <3>2 DEF Onb!InsertProfile, Onb!InTransaction, Onb!Goto, Onb!Mine, Onb!TypeOK
            <3>8. Written("onboard.user", c, row)
                BY <3>2, <3>3, <3>5, <3>6
            <3>9. "onboard.user" \in HasTenant \ {"onboard.plan"}
                BY DEF HasTenant
            <3> QED
                BY <3>3, <3>4, <3>8, <3>9
        <2>5. CASE Onb!UpdateUser(s)
            <3>2. PICK c : c = [request[s] EXCEPT !.pc = "onboard.session"]
                OBVIOUS
            <3>4. c \in Onb!Request /\ c.pc = "onboard.session" /\ c.kind = request[s].kind
                BY <1>2, <3>2 DEF Onb!Request, Onb!Steps
            <3>5. Fits(c, tenant[t], t \notin failed)
                BY <1>3, <2>5, <3>4 DEF Fits, Onb!UpdateUser, Onb!At
            <3>6. request' = [request EXCEPT ![s] = c] /\ tenant' = [tenant EXCEPT ![t] = tenant[t]]
                BY <1>1, <2>5, <3>2 DEF Onb!UpdateUser, Onb!Goto, Onb!TypeOK
            <3>8. Written("onboard.session", c, tenant[t])
                BY <1>3, <3>2, <3>5, <3>6
            <3>9. "onboard.session" \in HasTenant \ {"onboard.plan"}
                BY DEF HasTenant
            <3> QED
                BY <1>3, <3>4, <3>8, <3>9
        <2>6. CASE Onb!CreateSession(s)
            <3>1. PICK row : row = [tenant[t] EXCEPT !.session = TRUE]
                OBVIOUS
            <3>2. PICK c : c = [request[s] EXCEPT !.pc = "onboard.commit"]
                OBVIOUS
            <3>3. /\ row \in Onb!Tenant /\ row.kind = tenant[t].kind /\ row.session
                  /\ row.plan = tenant[t].plan /\ row.history = tenant[t].history
                  /\ row.profile = tenant[t].profile
                BY <1>3, <3>1 DEF Onb!Tenant
            <3>4. c \in Onb!Request /\ c.pc = "onboard.commit" /\ c.kind = request[s].kind
                BY <1>2, <3>2 DEF Onb!Request, Onb!Steps
            <3>5. Fits(c, row, t \notin failed)
                BY <1>3, <2>6, <3>3, <3>4 DEF Fits, Onb!CreateSession, Onb!At
            <3>6. request' = [request EXCEPT ![s] = c] /\ tenant' = [tenant EXCEPT ![t] = row]
                BY <2>6, <3>1, <3>2 DEF Onb!CreateSession, Onb!Goto, Onb!Mine
            <3>7. request[s].pc = "onboard.session"
                BY <2>6 DEF Onb!CreateSession, Onb!At
            <3>8. Written("onboard.commit", c, row)
                BY <3>2, <3>3, <3>5, <3>6, <3>7
            <3>9. "onboard.commit" \in HasTenant \ {"onboard.plan"}
                BY DEF HasTenant
            <3> QED
                BY <3>3, <3>4, <3>8, <3>9
        <2> QED
            BY <2>1, <2>2, <2>3, <2>4, <2>5, <2>6
    <1>5. c = [request[s] EXCEPT !.pc = pc] /\ request' = [request EXCEPT ![s] = c]
        BY <1>4
    <1>6. c \in Onb!Request /\ c.pc = pc /\ c.tenant = t /\ c.kind = request[s].kind
        BY <1>2, <1>5 DEF Onb!Request, Onb!Steps, HasTenant
    <1>7. /\ request' \in [Slots -> Onb!Request \cup {Onb!Idle}]
          /\ request'[s] = c /\ \A r \in Slots \ {s} : request'[r] = request[r]
        BY <1>1, <1>4, <1>5, <1>6, OnboardingMoves
    <1>8. UNCHANGED <<failed, calls, faults>>
        BY DEF Onb!AssignPlan, Onb!RecordPlan, Onb!NoFreePlan, Onb!InsertProfile,
               Onb!UpdateUser, Onb!CreateSession, Onb!Counters
    <1>9. TenantsInv'
        <2>1. c \in Onb!Request /\ c.pc \in HasTenant /\ c.tenant = request[s].tenant
            BY <1>6
        <2>2. tenant' = [tenant EXCEPT ![c.tenant] = row] /\ failed \subseteq failed' /\ failed' \subseteq failed \cup {c.tenant}
            BY <1>4, <1>6, <1>8
        <2>3. Fits(c, row, c.tenant \notin failed')
            BY <1>4, <1>6, <1>8
        <2> QED
            BY <1>1, <1>2, <1>5, <2>1, <2>2, <2>3, TenantGrows
    <1>10. \/ UNCHANGED <<userType, lock>>
           \/ /\ request[s].pc = "onboard.user" /\ pc = "onboard.session"
              /\ \/ request[s].kind # "agency" /\ lock' = s /\ userType' = userType
                 \/ request[s].kind = "agency" /\ lock' = lock /\ userType' = request[s].kind
        <2>1. CASE Onb!UpdateUser(s)
            <3>1. pc = "onboard.session"
                <4>1. request'[s] = [request[s] EXCEPT !.pc = "onboard.session"]
                    BY <1>1, <2>1 DEF Onb!UpdateUser, Onb!Goto, Onb!TypeOK
                <4> QED
                    BY <1>2, <1>6, <1>7, <4>1 DEF Onb!Request
            <3> QED
                BY <2>1, <3>1 DEF Onb!UpdateUser, Onb!At, Onb!InTransaction
        <2>2. CASE ~Onb!UpdateUser(s)
            BY <2>2 DEF Onb!AssignPlan, Onb!RecordPlan, Onb!NoFreePlan, Onb!InsertProfile, Onb!CreateSession
        <2> QED
            BY <2>1, <2>2
    <1>11. userType' \in Onb!Kinds \cup {"pending"} /\ lock' \in Slots \cup {None}
        BY <1>1, <1>2, <1>10 DEF Onb!TypeOK, Onb!Request
    <1>12. Onb!TypeOK'
        <2>1. tenant' \in [Tenants -> Onb!Tenant \cup {Onb!NoTenant}]
            BY <1>1, <1>4 DEF Onb!TypeOK
        <2> QED
            BY <1>1, <1>7, <1>8, <1>11, <2>1 DEF Onb!TypeOK
    <1>13. LockOwned'
        <2>1. CASE lock' = lock
            <3>1. lock = s /\ lock # None => pc = "onboard.commit" \/ request[s].pc = "onboard.session"
                BY <1>1, <1>2 DEF LockOwned
            <3>2. request[s].pc = "onboard.session" => pc = "onboard.commit"
                <4>1. request[s].pc = "onboard.session" => Onb!CreateSession(s)
                    BY DEF Onb!AssignPlan, Onb!RecordPlan, Onb!NoFreePlan, Onb!InsertProfile,
                           Onb!UpdateUser, Onb!At
                <4>2. Onb!CreateSession(s) => request'[s] = [request[s] EXCEPT !.pc = "onboard.commit"]
                    BY <1>1 DEF Onb!CreateSession, Onb!Goto, Onb!TypeOK
                <4> QED
                    BY <1>2, <1>6, <1>7, <4>1, <4>2 DEF Onb!Request
            <3> QED
                BY <1>1, <1>6, <1>7, <2>1, <3>1, <3>2 DEF LockOwned
        <2>2. CASE lock' # lock
            BY <1>6, <1>7, <1>10, <2>2 DEF LockOwned
        <2> QED
            BY <2>1, <2>2
    <1>14. Onb!OnboardedOwns'
        <2>1. tenant'[t] = row /\ \A u \in Tenants \ {t} : tenant'[u] = tenant[u]
            BY <1>1, <1>3, <1>4 DEF Onb!TypeOK
        <2>2. userType' # userType => tenant'[t].kind = userType' /\ tenant'[t].profile
            <3>1. userType' # userType => request[s].pc = "onboard.user" /\ request[s].kind = "agency"
                                          /\ userType' = request[s].kind
                BY <1>10
            <3>2. request[s].pc = "onboard.user" /\ request[s].kind = "agency" => tenant[t].profile
                BY <1>3 DEF Fits
            <3>3. tenant[t].kind = request[s].kind
                BY <1>3 DEF Fits
            <3> QED
                BY <1>4, <2>1, <3>1, <3>2, <3>3
        <2> QED
            BY <1>1, <1>3, <1>4, <2>1, <2>2, OwnerStays DEF OnboardingInv
    <1> QED
        BY <1>9, <1>12, <1>13, <1>14 DEF OnboardingInv

\* The commit, or what stands in for it.
LEMMA OnboardingCommits ==
    ASSUME OnboardingInv, NEW s \in Slots, Onb!Commit(s) \/ Onb!EndOfAgency(s)
    PROVE  OnboardingInv'
    <1> DEFINE t == request[s].tenant
    <1>1. Onb!TypeOK /\ TenantsInv /\ LockOwned
        BY DEF OnboardingInv
    <1>2. request[s] \in Onb!Request /\ request[s].pc = "onboard.commit" /\ request[s].pc \in HasTenant
        BY <1>1, OnboardingShape DEF Onb!Commit, Onb!EndOfAgency, Onb!At, HasTenant
    <1>3. t \in Tenants /\ tenant[t] \in Onb!Tenant /\ Fits(request[s], tenant[t], t \notin failed)
        BY <1>1, <1>2 DEF TenantsInv, TenantsFit, Fits
    <1>4. PICK row \in Onb!Tenant :
              /\ tenant' = [tenant EXCEPT ![t] = row]
              /\ row.kind = tenant[t].kind /\ row.profile /\ row.session = tenant[t].session
              /\ row.plan = tenant[t].plan /\ row.history = tenant[t].history
        <2>1. CASE Onb!Commit(s)
            <3>1. PICK row : row = [tenant[t] EXCEPT !.profile = TRUE]
                OBVIOUS
            <3>2. /\ row \in Onb!Tenant /\ row.kind = tenant[t].kind /\ row.profile /\ row.session = tenant[t].session
                  /\ row.plan = tenant[t].plan /\ row.history = tenant[t].history
                BY <1>3, <3>1 DEF Onb!Tenant
            <3>3. tenant' = [tenant EXCEPT ![t] = row]
                BY <2>1, <3>1 DEF Onb!Commit, Onb!Mine
            <3> QED
                BY <3>2, <3>3
        <2>2. CASE Onb!EndOfAgency(s)
            <3>1. tenant' = [tenant EXCEPT ![t] = tenant[t]]
                BY <1>1, <2>2 DEF Onb!EndOfAgency, Onb!TypeOK
            <3>2. tenant[t].profile
                BY <1>2, <1>3, <2>2 DEF Onb!EndOfAgency, Onb!InTransaction, Fits
            <3> QED
                BY <1>3, <3>1, <3>2
        <2> QED
            BY <2>1, <2>2
    <1>5. /\ tenant'[t] = row /\ \A u \in Tenants \ {t} : tenant'[u] = tenant[u]
          /\ tenant' \in [Tenants -> Onb!Tenant \cup {Onb!NoTenant}]
        BY <1>1, <1>3, <1>4 DEF Onb!TypeOK
    <1>6. /\ request' = [request EXCEPT ![s] = Onb!Idle] /\ UNCHANGED <<failed, calls, faults>>
          /\ userType' = userType \/ userType' = request[s].kind
          /\ Onb!Unlock(s) \/ (lock' = lock /\ request[s].kind = "agency")
        BY DEF Onb!Commit, Onb!EndOfAgency, Onb!Counters, Onb!InTransaction
    <1>7. Onb!Idle \in Onb!Request \cup {Onb!Idle} /\ Onb!Idle.pc = "idle"
        BY DEF Onb!Idle
    <1>8. /\ request' \in [Slots -> Onb!Request \cup {Onb!Idle}]
          /\ request'[s] = Onb!Idle /\ \A r \in Slots \ {s} : request'[r] = request[r]
        BY <1>1, <1>6, <1>7, OnboardingMoves
    <1>9. userType' \in Onb!Kinds \cup {"pending"} /\ lock' \in Slots \cup {None}
        BY <1>1, <1>2, <1>6 DEF Onb!TypeOK, Onb!Request, Onb!Unlock
    <1>10. Onb!TypeOK'
        BY <1>1, <1>5, <1>6, <1>8, <1>9 DEF Onb!TypeOK
    <1>11. TenantsInv'
        <2>1. row.session /\ (t \notin failed => (row.plan => row.history))
            BY <1>2, <1>3, <1>4 DEF Fits
        <2>2. "idle" \notin HasTenant \cup {"onboard.begin", "onboard.tenant"}
            BY DEF HasTenant
        <2> QED
            BY <1>1, <1>2, <1>4, <1>6, <1>7, <2>1, <2>2, TenantLeft
    <1>12. LockOwned'
        BY <1>1, <1>6, <1>7, <1>8, LockStays
    <1>13. Onb!OnboardedOwns'
        <2>1. userType' = userType \/ (tenant'[t].kind = userType' /\ tenant'[t].profile)
            BY <1>3, <1>4, <1>5, <1>6 DEF Fits
        <2> QED
            BY <1>1, <1>3, <1>4, <1>5, <2>1, OwnerStays DEF OnboardingInv
    <1> QED
        BY <1>10, <1>11, <1>12, <1>13 DEF OnboardingInv

LEMMA OnboardingBreaks ==
    ASSUME OnboardingInv, NEW s \in Slots, request[s] # Onb!Idle, Onb!Break(s),
           UNCHANGED <<tenant, userType>>,
           calls' \in 0..AreaCalls["onboarding"], faults' \in 0..AreaFaults["onboarding"]
    PROVE  OnboardingInv'
    <1> DEFINE t == request[s].tenant
    <1>1. Onb!TypeOK /\ TenantsInv /\ LockOwned
        BY DEF OnboardingInv
    <1>2. request[s] \in Onb!Request /\ t \in Tenants \cup {None}
        BY <1>1 DEF Onb!TypeOK, Onb!Request
    <1>3. failed' = failed \cup ({t} \ {None}) /\ failed' \subseteq Tenants
        BY <1>1, <1>2 DEF Onb!Break, Onb!Mine, Onb!TypeOK
    <1>4. Onb!OnboardedOwns'
        BY <1>1, OwnerStays DEF OnboardingInv
    <1>5. CASE request[s].pc \in {"onboard.plan", "onboard.history"}
        <2>1. PICK c : c = [request[s] EXCEPT !.pc = "onboard.profile"]
            OBVIOUS
        <2>2. /\ c \in Onb!Request /\ c.pc = "onboard.profile" /\ c.tenant = t /\ c.kind = request[s].kind
              /\ request' = [request EXCEPT ![s] = c] /\ lock' = lock
            BY <1>2, <1>5, <2>1 DEF Onb!Break, Onb!Goto, Onb!Request, Onb!Steps
        <2>3. /\ request' \in [Slots -> Onb!Request \cup {Onb!Idle}]
              /\ request'[s] = c /\ \A r \in Slots \ {s} : request'[r] = request[r]
            BY <1>1, <2>2, OnboardingMoves
        <2>4. request[s].pc \in HasTenant /\ c.pc \in HasTenant
            BY <1>5, <2>2 DEF HasTenant
        <2>5. t \in Tenants /\ Fits(request[s], tenant[t], t \notin failed)
            BY <1>1, <2>4 DEF TenantsInv, TenantsFit
        <2>6. t # None
            BY <2>5, AreasAssumption
        <2>7. tenant' = [tenant EXCEPT ![c.tenant] = tenant[t]]
            BY <1>1, <2>2 DEF Onb!TypeOK
        <2>8. Fits(c, tenant[t], c.tenant \notin failed')
            BY <1>3, <1>5, <2>2, <2>5, <2>6 DEF Fits
        <2>9. failed \subseteq failed' /\ failed' \subseteq failed \cup {c.tenant}
            BY <1>3, <2>2
        <2>10. TenantsInv'
            BY <1>1, <2>2, <2>4, <2>7, <2>8, <2>9, TenantGrows
        <2>11. Onb!TypeOK'
            BY <1>1, <1>3, <2>2, <2>3 DEF Onb!TypeOK
        <2>12. LockOwned'
            BY <1>1, <1>5, <2>2, <2>3, LockStays
        <2> QED
            BY <1>4, <2>10, <2>11, <2>12 DEF OnboardingInv
    <1>6. CASE request[s].pc \notin {"onboard.plan", "onboard.history"}
        <2>1. request' = [request EXCEPT ![s] = Onb!Idle] /\ Onb!Unlock(s)
            BY <1>6 DEF Onb!Break, Onb!Stop
        <2>2. /\ request' \in [Slots -> Onb!Request \cup {Onb!Idle}]
              /\ request'[s] = Onb!Idle /\ \A r \in Slots \ {s} : request'[r] = request[r]
            BY <1>1, <2>1, OnboardingMoves
        <2>3. \A r \in Slots : request'[r] = IF r \in {s} THEN Onb!Idle ELSE request[r]
            BY <2>2
        <2>4. failed' = failed \cup ({request[r].tenant : r \in {s}} \ {None})
            BY <1>3
        <2>5. {s} \in SUBSET Slots
            OBVIOUS
        <2>6. TenantsInv'
            BY <1>1, <2>3, <2>4, <2>5, TenantDropped
        <2>7. Onb!TypeOK'
            BY <1>1, <1>3, <2>1, <2>2 DEF Onb!TypeOK, Onb!Unlock
        <2>8. request'[s].pc = "idle"
            BY <2>2 DEF Onb!Idle
        <2>9. LockOwned'
            BY <1>1, <2>1, <2>2, <2>8, LockStays
        <2> QED
            BY <1>4, <2>6, <2>7, <2>9 DEF OnboardingInv
    <1> QED
        BY <1>5, <1>6

LEMMA OnboardingCrashes ==
    ASSUME OnboardingInv, Onb!Crash
    PROVE  OnboardingInv'
    <1> DEFINE gone == {r \in Slots : request[r] # Onb!Idle}
    <1>1. Onb!TypeOK /\ TenantsInv /\ LockOwned
        BY DEF OnboardingInv
    <1>2. /\ failed' = failed \cup ({request[r].tenant : r \in gone} \ {None})
          /\ request' = [r \in Slots |-> Onb!Idle] /\ lock' = None
          /\ UNCHANGED <<tenant, userType, calls>> /\ faults' \in 0..AreaFaults["onboarding"]
        BY <1>1, OnboardingBounds DEF Onb!Crash, Onb!TypeOK
    <1>3. \A r \in gone : request[r].tenant \in Tenants \cup {None}
        BY <1>1 DEF Onb!TypeOK, Onb!Request
    <1>4. Onb!TypeOK'
        BY <1>1, <1>2, <1>3 DEF Onb!TypeOK
    <1>5. \A r \in Slots : request'[r] = IF r \in gone THEN Onb!Idle ELSE request[r]
        BY <1>2
    <1>6. TenantsInv'
        <2>1. gone \in SUBSET Slots
            OBVIOUS
        <2> HIDE DEF gone
        <2> QED
            BY <1>1, <1>2, <1>5, <2>1, TenantDropped
    <1>7. Onb!OnboardedOwns'
        BY <1>1, <1>2, OwnerStays DEF OnboardingInv
    <1> QED
        BY <1>2, <1>4, <1>6, <1>7 DEF OnboardingInv, LockOwned

LEMMA OnboardingStep == OnboardingInv /\ Onb!Next => OnboardingInv'
    <1> SUFFICES ASSUME OnboardingInv, Onb!Next PROVE OnboardingInv'
        OBVIOUS
    <1>1. ASSUME NEW s \in Slots, Onb!StatementFails(s) \/ Onb!Timeout(s) PROVE OnboardingInv'
        <2>1. calls' \in 0..AreaCalls["onboarding"] /\ faults' \in 0..AreaFaults["onboarding"]
            BY <1>1, OnboardingBounds DEF Onb!StatementFails, Onb!Timeout, Onb!Counters, OnboardingInv, Onb!TypeOK
        <2> QED
            BY <1>1, <2>1, OnboardingBreaks DEF Onb!StatementFails, Onb!Timeout
    <1> QED
        BY <1>1, OnboardingBegins, TenantCreated, TenantWritten, OnboardingCommits, OnboardingCrashes
        DEF Onb!Next, Onb!Step

-----------------------------------------------------------------------------
(* Signing in with a provider.                                             *)

\* A callback that knows whose it is: one that makes the user does so while there is
\* none and goes on when the key is made or known to have failed; the others have
\* found the one that is there.
Early == {"social.exchange", "social.begin", "social.lookup", "social.email", "social.insert"}
KnowsUser == {"social.tokens", "social.keys", "social.link", "social.session", "social.commit"}
CallFits(c) ==
    /\ c.pc \in Early => c.user = None /\ ~c.new
    /\ c.pc \in KnowsUser =>
           /\ c.user \in UserIds
           /\ c.new => user = None /\ (c.pc # "social.keys" => c.user \in keyOf \cup mishap)
           /\ ~c.new => c.user = user
CallsFit == \A s \in Slots : CallFits(request[s])

\* One callback at most makes the user: the address is unique.
MakesUser(s) == request[s].pc \in KnowsUser /\ request[s].new
OneMaker == \A r, s \in Slots : MakesUser(r) /\ MakesUser(s) => r = s

LoginsInv == Log!TypeOK /\ Log!OnePerson /\ Log!StraysExplained /\ CallsFit /\ OneMaker

LEMMA LoginBounds == AreaCalls["logins"] \in Nat /\ AreaFaults["logins"] \in Nat /\ None \notin UserIds
    BY AreasAssumption DEF Areas

LEMMA CallbackShape ==
    ASSUME Log!TypeOK, NEW s \in Slots
    PROVE  /\ request[s].pc # "idle" => request[s] \in Log!Callback
           /\ request[s].pc \in Early \cup KnowsUser => request[s] \in Log!Callback
           /\ request[s] # Log!Idle => request[s].pc \in Early \cup KnowsUser /\ request[s] \in Log!Callback
    BY DEF Log!TypeOK, Log!Idle, Log!Callback, Log!Steps, Early, KnowsUser

LEMMA CallbackMoves ==
    ASSUME Log!TypeOK, NEW s \in Slots, NEW c \in Log!Callback \cup {Log!Idle},
           request' = [request EXCEPT ![s] = c]
    PROVE  /\ request' \in [Slots -> Log!Callback \cup {Log!Idle}]
           /\ request'[s] = c /\ \A r \in Slots \ {s} : request'[r] = request[r]
    BY DEF Log!TypeOK

LEMMA LoginsStart == Log!Init => LoginsInv
    <1> SUFFICES ASSUME Log!Init PROVE LoginsInv
        OBVIOUS
    <1>1. Log!TypeOK
        BY LoginBounds DEF Log!Init, Log!TypeOK
    <1>2. \A s \in Slots : request[s].pc = "idle"
        BY DEF Log!Init, Log!Idle
    <1> QED
        BY <1>1, <1>2 DEF Log!Init, LoginsInv, Log!OnePerson, Log!StraysExplained, CallsFit, CallFits,
                          OneMaker, MakesUser, Early, KnowsUser

\* A callback goes on, or gives up: it stays with its user, or something failed there;
\* keys and sessions are made for its user only.
LEMMA CallbackGoesOn ==
    ASSUME LoginsInv, NEW s \in Slots, NEW c \in Log!Callback \cup {Log!Idle},
           request' = [request EXCEPT ![s] = c],
           UNCHANGED <<user, link>>,
           used' \subseteq UserIds,
           keyOf \subseteq keyOf', sessionOf \subseteq sessionOf', mishap \subseteq mishap',
           keyOf' \subseteq UserIds, sessionOf' \subseteq UserIds, mishap' \subseteq UserIds,
           calls' \in 0..AreaCalls["logins"], faults' \in 0..AreaFaults["logins"],
           c.pc \in Early => c.user = None /\ ~c.new,
           c.pc \in KnowsUser =>
               /\ c.user \in UserIds
               /\ c.new => /\ user = None
                           /\ c.pc # "social.keys" => c.user \in keyOf' \cup mishap'
                           /\ \A r \in Slots \ {s} : ~MakesUser(r)
               /\ ~c.new => c.user = user,
           request[s].pc \in KnowsUser =>
               (c # Log!Idle /\ c.user = request[s].user) \/ request[s].user \in mishap',
           \A i \in (keyOf' \cup sessionOf') \ (keyOf \cup sessionOf) : c # Log!Idle /\ c.user = i
    PROVE  LoginsInv'
    <1>1. Log!TypeOK
        BY DEF LoginsInv
    <1>2. /\ request' \in [Slots -> Log!Callback \cup {Log!Idle}]
          /\ request'[s] = c /\ \A r \in Slots \ {s} : request'[r] = request[r]
        BY <1>1, CallbackMoves
    <1>3. Log!TypeOK'
        BY <1>1, <1>2 DEF Log!TypeOK
    <1>4. Log!OnePerson'
        BY DEF LoginsInv, Log!OnePerson
    <1>5. CallsFit'
        <2>1. ASSUME NEW r \in Slots \ {s} PROVE CallFits(request[r])'
            BY <1>2 DEF LoginsInv, CallsFit, CallFits
        <2>2. CallFits(request[s])'
            BY <1>2 DEF CallFits
        <2> QED
            BY <2>1, <2>2 DEF CallsFit
    <1>6. OneMaker'
        <2>1. \A r \in Slots \ {s} : MakesUser(r)' <=> MakesUser(r)
            BY <1>2 DEF MakesUser
        <2>2. MakesUser(s)' => \A r \in Slots \ {s} : ~MakesUser(r)
            BY <1>2 DEF MakesUser
        <2> QED
            BY <2>1, <2>2 DEF LoginsInv, OneMaker
    <1>7. Log!StraysExplained'
        <2> SUFFICES ASSUME NEW i \in keyOf' \cup sessionOf', i # user, i \notin mishap'
                     PROVE  \E r \in Slots : request'[r] # Log!Idle /\ request'[r].user = i
            BY DEF Log!StraysExplained
        <2>1. CASE i \notin keyOf \cup sessionOf
            BY <1>2, <2>1
        <2>2. CASE i \in keyOf \cup sessionOf
            <3>1. PICK r \in Slots : request[r] # Log!Idle /\ request[r].user = i
                BY <2>2 DEF LoginsInv, Log!StraysExplained
            <3>2. CASE r # s
                BY <1>2, <3>1, <3>2
            <3>3. CASE r = s
                <4>1. i # None
                    BY LoginBounds
                <4>2. request[s].pc \in KnowsUser
                    BY <1>1, <3>1, <3>3, <4>1, CallbackShape DEF LoginsInv, CallsFit, CallFits
                <4> QED
                    BY <1>2, <3>1, <3>3, <4>2
            <3> QED
                BY <3>2, <3>3
        <2> QED
            BY <2>1, <2>2
    <1> QED
        BY <1>3, <1>4, <1>5, <1>6, <1>7 DEF LoginsInv

\* Its own steps.
LEMMA CallbackBegins ==
    ASSUME LoginsInv, NEW s \in Slots,
           (\E p \in Providers : Log!Arrive(s, p)) \/ Log!Exchange(s) \/ Log!Begin(s)
    PROVE  LoginsInv'
    <1>1. Log!TypeOK
        BY DEF LoginsInv
    <1>2. PICK c \in Log!Callback : /\ request' = [request EXCEPT ![s] = c]
                                    /\ c.pc \in Early /\ c.user = None /\ ~c.new
                                    /\ request[s].pc \in Early \cup {"idle"}
        <2>1. CASE \E p \in Providers : Log!Arrive(s, p)
            <3> PICK p \in Providers : Log!Arrive(s, p)
                BY <2>1
            <3>1. [pc |-> "social.exchange", by |-> p, user |-> None, new |-> FALSE, linked |-> FALSE] \in Log!Callback
                BY DEF Log!Callback, Log!Steps
            <3>2. request[s].pc = "idle"
                BY DEF Log!Arrive, Log!Idle
            <3> QED
                BY <3>1, <3>2 DEF Log!Arrive, Early
        <2>2. CASE Log!Exchange(s) \/ Log!Begin(s)
            <3>1. PICK pc \in {"social.begin", "social.lookup"} :
                      /\ request' = [request EXCEPT ![s] = [request[s] EXCEPT !.pc = pc]]
                      /\ request[s].pc \in {"social.exchange", "social.begin"}
                BY <2>2 DEF Log!Exchange, Log!Begin, Log!Goto, Log!At
            <3>2. request[s] \in Log!Callback /\ request[s].user = None /\ ~request[s].new
                BY <1>1, <3>1, CallbackShape DEF LoginsInv, CallsFit, CallFits, Early
            <3>3. PICK c : c = [request[s] EXCEPT !.pc = pc]
                OBVIOUS
            <3>4. c \in Log!Callback /\ c.pc = pc /\ c.user = None /\ ~c.new
                BY <3>2, <3>3 DEF Log!Callback, Log!Steps
            <3> QED
                BY <3>1, <3>3, <3>4 DEF Early
        <2> QED
            BY <2>1, <2>2
    <1>3. /\ UNCHANGED <<user, used, link, keyOf, sessionOf, mishap, faults>>
          /\ calls' \in 0..AreaCalls["logins"]
        BY <1>1, LoginBounds DEF Log!Arrive, Log!Exchange, Log!Begin, Log!rows, Log!Counters, Log!TypeOK
    <1>4. c.pc \notin KnowsUser /\ request[s].pc \notin KnowsUser
        BY <1>2 DEF Early, KnowsUser
    <1> QED
        BY <1>1, <1>2, <1>3, <1>4, CallbackGoesOn DEF Log!TypeOK

LEMMA AccountLooked ==
    ASSUME LoginsInv, NEW s \in Slots, Log!Lookup(s) \/ Log!LookupEmail(s)
    PROVE  LoginsInv'
    <1>1. Log!TypeOK
        BY DEF LoginsInv
    <1>2. /\ request[s] \in Log!Callback /\ request[s].pc \in Early
          /\ request[s].user = None /\ ~request[s].new
        BY <1>1, CallbackShape DEF Log!Lookup, Log!LookupEmail, Log!At, LoginsInv, CallsFit, CallFits, Early
    <1>3. UNCHANGED <<user, used, link, keyOf, sessionOf, mishap, calls, faults>>
        BY DEF Log!Lookup, Log!LookupEmail, Log!rows, Log!Counters
    <1>4. request[s].by \in Providers /\ link[request[s].by] \in {user, None}
        BY <1>2 DEF LoginsInv, Log!OnePerson, Log!Callback
    <1>5. \/ /\ user # None
             /\ \E pc \in {"social.tokens", "social.link"} :
                    request' = [request EXCEPT ![s] = [request[s] EXCEPT !.pc = pc, !.user = user]]
          \/ \E pc \in {"social.email", "social.insert"} :
                 request' = [request EXCEPT ![s] = [request[s] EXCEPT !.pc = pc]]
        <2>1. CASE Log!Lookup(s)
            <3>1. CASE link[request[s].by] # None
                <4>1. request' = [request EXCEPT ![s] = [request[s] EXCEPT !.pc = "social.tokens", !.user = user]]
                    BY <1>1, <1>4, <2>1, <3>1 DEF Log!Lookup, Log!TypeOK
                <4> QED
                    BY <1>4, <3>1, <4>1
            <3>2. CASE link[request[s].by] = None
                BY <2>1, <3>2 DEF Log!Lookup
            <3> QED
                BY <3>1, <3>2
        <2>2. CASE Log!LookupEmail(s)
            <3>1. CASE user # None
                <4>1. request' = [request EXCEPT ![s] = [request[s] EXCEPT !.pc = "social.link", !.user = user]]
                    BY <1>1, <2>2, <3>1 DEF Log!LookupEmail, Log!TypeOK
                <4> QED
                    BY <3>1, <4>1
            <3>2. CASE user = None
                BY <2>2, <3>2 DEF Log!LookupEmail
            <3> QED
                BY <3>1, <3>2
        <2> QED
            BY <2>1, <2>2
    <1>6. ASSUME NEW pc \in {"social.tokens", "social.link"}, NEW c, user # None,
                 c = [request[s] EXCEPT !.pc = pc, !.user = user], request' = [request EXCEPT ![s] = c]
          PROVE  LoginsInv'
        <2>1. user \in UserIds
            BY <1>1, <1>6 DEF Log!TypeOK
        <2>2. c \in Log!Callback /\ c.pc = pc /\ c.user = user /\ ~c.new
            BY <1>2, <1>6, <2>1 DEF Log!Callback, Log!Steps
        <2>3. c.pc \notin Early /\ request[s].pc \notin KnowsUser
            BY <1>2, <2>2 DEF Early, KnowsUser
        <2> QED
            BY <1>1, <1>3, <1>6, <2>1, <2>2, <2>3, CallbackGoesOn DEF Log!TypeOK
    <1>7. ASSUME NEW pc \in {"social.email", "social.insert"}, NEW c,
                 c = [request[s] EXCEPT !.pc = pc], request' = [request EXCEPT ![s] = c]
          PROVE  LoginsInv'
        <2>1. c \in Log!Callback /\ c.pc = pc /\ c.user = None /\ ~c.new
            BY <1>2, <1>7 DEF Log!Callback, Log!Steps
        <2>2. c.pc \notin KnowsUser /\ request[s].pc \notin KnowsUser
            BY <1>2, <2>1 DEF Early, KnowsUser
        <2> QED
            BY <1>1, <1>3, <1>7, <2>1, <2>2, CallbackGoesOn DEF Log!TypeOK
    <1> QED
        BY <1>5, <1>6, <1>7

LEMMA UserInserted ==
    ASSUME LoginsInv, NEW s \in Slots, NEW i \in UserIds, Log!InsertUser(s, i)
    PROVE  LoginsInv'
    <1>1. Log!TypeOK
        BY DEF LoginsInv
    <1>2. request[s] \in Log!Callback /\ request[s].pc = "social.insert" /\ request[s].pc \notin KnowsUser
        BY <1>1, CallbackShape DEF Log!InsertUser, Log!At, Early, KnowsUser
    <1>3. PICK c : c = [request[s] EXCEPT !.pc = "social.keys", !.user = i, !.new = TRUE]
        OBVIOUS
    <1>4. c \in Log!Callback /\ c.pc = "social.keys" /\ c.user = i /\ c.new
        BY <1>2, <1>3 DEF Log!Callback, Log!Steps
    <1>5. /\ request' = [request EXCEPT ![s] = c] /\ user = None
          /\ used' \subseteq UserIds /\ UNCHANGED <<user, link, keyOf, sessionOf, mishap, calls, faults>>
        BY <1>1, <1>3 DEF Log!InsertUser, Log!TypeOK, Log!Counters
    <1>6. \A r \in Slots \ {s} : ~MakesUser(r)
        BY <1>2 DEF Log!InsertUser, Log!OpenElsewhere, Log!Holds, MakesUser, KnowsUser, Log!Steps
    <1>7. c.pc \notin Early
        BY <1>4 DEF Early
    <1> QED
        BY <1>1, <1>2, <1>4, <1>5, <1>6, <1>7, CallbackGoesOn DEF Log!TypeOK

LEMMA UserServed ==
    ASSUME LoginsInv, NEW s \in Slots,
           Log!UpdateTokens(s) \/ Log!StoreKeys(s) \/ Log!InsertLink(s) \/ Log!CreateSession(s)
    PROVE  LoginsInv'
    <1> DEFINE i == request[s].user
    <1>1. Log!TypeOK
        BY DEF LoginsInv
    <1>2. /\ request[s] \in Log!Callback /\ request[s].pc \in KnowsUser /\ request[s].pc # "social.commit"
          /\ i \in UserIds
          /\ request[s].new => user = None /\ (request[s].pc # "social.keys" => i \in keyOf \cup mishap)
          /\ ~request[s].new => i = user
        BY <1>1, CallbackShape DEF Log!UpdateTokens, Log!StoreKeys, Log!InsertLink, Log!CreateSession,
           Log!At, KnowsUser, LoginsInv, CallsFit, CallFits
    <1>3. /\ UNCHANGED <<user, used, link, mishap, calls, faults>>
          /\ keyOf \subseteq keyOf' /\ sessionOf \subseteq sessionOf'
          /\ keyOf' \subseteq keyOf \cup {i} /\ sessionOf' \subseteq sessionOf \cup {i}
          /\ request[s].pc = "social.keys" => i \in keyOf'
        BY DEF Log!UpdateTokens, Log!StoreKeys, Log!InsertLink, Log!CreateSession, Log!At, Log!rows, Log!Counters
    <1>4. PICK c \in Log!Callback :
              /\ request' = [request EXCEPT ![s] = c]
              /\ c.pc \in KnowsUser \ {"social.keys"} /\ c.user = i /\ c.new = request[s].new
        <2>1. PICK pc \in {"social.link", "social.session", "social.commit"}, l \in BOOLEAN :
                  request' = [request EXCEPT ![s] = [request[s] EXCEPT !.pc = pc, !.linked = l]]
            <3>1. request[s] = [request[s] EXCEPT !.linked = request[s].linked] /\ request[s].linked \in BOOLEAN
                BY <1>2 DEF Log!Callback
            <3>2. CASE Log!UpdateTokens(s) \/ Log!InsertLink(s)
                BY <1>1, <3>2 DEF Log!UpdateTokens, Log!InsertLink, Log!TypeOK
            <3>3. CASE Log!StoreKeys(s)
                <4>1. [request[s] EXCEPT !.pc = "social.link"] =
                          [request[s] EXCEPT !.pc = "social.link", !.linked = request[s].linked]
                    BY <1>2 DEF Log!Callback
                <4>2. request' = [request EXCEPT ![s] = [request[s] EXCEPT !.pc = "social.link"]]
                    BY <3>3 DEF Log!StoreKeys, Log!Goto
                <4> QED
                    BY <3>1, <4>1, <4>2
            <3>4. CASE Log!CreateSession(s)
                <4>1. [request[s] EXCEPT !.pc = "social.commit"] =
                          [request[s] EXCEPT !.pc = "social.commit", !.linked = request[s].linked]
                    BY <1>2 DEF Log!Callback
                <4>2. request' = [request EXCEPT ![s] = [request[s] EXCEPT !.pc = "social.commit"]]
                    BY <3>4 DEF Log!CreateSession, Log!Goto
                <4> QED
                    BY <3>1, <4>1, <4>2
            <3> QED
                BY <3>2, <3>3, <3>4
        <2>2. PICK c : c = [request[s] EXCEPT !.pc = pc, !.linked = l]
            OBVIOUS
        <2>3. c \in Log!Callback /\ c.pc = pc /\ c.user = i /\ c.new = request[s].new
            BY <1>2, <2>2 DEF Log!Callback, Log!Steps
        <2> QED
            BY <2>1, <2>2, <2>3 DEF KnowsUser
    <1>5. c.pc \notin Early /\ c # Log!Idle
        BY <1>4 DEF Early, KnowsUser, Log!Idle
    <1>6. c.new => \A r \in Slots \ {s} : ~MakesUser(r)
        BY <1>2, <1>4 DEF LoginsInv, OneMaker, MakesUser
    <1>7. c.new => user = None /\ c.user \in keyOf' \cup mishap'
        BY <1>2, <1>3, <1>4
    <1>8. ~c.new => c.user = user
        BY <1>2, <1>4
    <1>9. \A j \in (keyOf' \cup sessionOf') \ (keyOf \cup sessionOf) : c.user = j
        BY <1>3, <1>4
    <1>10. /\ used' \subseteq UserIds /\ keyOf' \subseteq UserIds /\ sessionOf' \subseteq UserIds /\ mishap' \subseteq UserIds
           /\ calls' \in 0..AreaCalls["logins"] /\ faults' \in 0..AreaFaults["logins"]
        BY <1>1, <1>2, <1>3 DEF Log!TypeOK
    <1> HIDE DEF i
    <1>11. c.user \in UserIds /\ c.user = request[s].user
        BY <1>2, <1>4 DEF i
    <1> QED
        BY <1>3, <1>4, <1>5, <1>6, <1>7, <1>8, <1>9, <1>10, <1>11, CallbackGoesOn

\* The commit makes the user whom the callback knows; whoever else knows one, knows
\* the same.
LEMMA LoginCommits ==
    ASSUME LoginsInv, NEW s \in Slots, Log!Commit(s)
    PROVE  LoginsInv'
    <1> DEFINE c == request[s]
    <1>1. Log!TypeOK
        BY DEF LoginsInv
    <1>2. /\ c \in Log!Callback /\ c.pc = "social.commit" /\ c.pc \in KnowsUser /\ c.user \in UserIds
          /\ c.new => user = None /\ c.user \in keyOf \cup mishap
          /\ ~c.new => c.user = user
        BY <1>1, CallbackShape DEF Log!Commit, Log!At, KnowsUser, LoginsInv, CallsFit, CallFits
    <1>3. c.user # None /\ c.by \in Providers /\ c.new \in BOOLEAN
        BY <1>2, LoginBounds DEF Log!Callback
    <1>4. user' = c.user /\ user' \in UserIds
        BY <1>2 DEF Log!Commit
    <1>5. user \in {None, user'}
        BY <1>2, <1>3, <1>4
    <1>6. link' \in [Providers -> {user', None}]
        BY <1>1, <1>3, <1>4, <1>5 DEF Log!Commit, LoginsInv, Log!OnePerson, Log!TypeOK
    <1>7. request' = [request EXCEPT ![s] = Log!Idle] /\ UNCHANGED <<used, keyOf, sessionOf, mishap, calls, faults>>
        BY DEF Log!Commit, Log!Counters
    <1>8. /\ request' \in [Slots -> Log!Callback \cup {Log!Idle}]
          /\ request'[s] = Log!Idle /\ \A r \in Slots \ {s} : request'[r] = request[r]
        BY <1>1, <1>7, CallbackMoves
    <1>9. Log!TypeOK'
        BY <1>1, <1>4, <1>6, <1>7, <1>8 DEF Log!TypeOK
    <1>10. Log!OnePerson'
        <2>1. user' \in keyOf \cup mishap
            BY <1>2, <1>3, <1>4 DEF LoginsInv, Log!OnePerson
        <2> QED
            BY <1>6, <1>7, <2>1 DEF Log!OnePerson
    <1>11. CallsFit'
        <2>1. ASSUME NEW r \in Slots \ {s}, request[r].pc \in KnowsUser
              PROVE  ~request[r].new /\ request[r].user = user'
            <3>1. CallFits(request[r]) /\ request[r] \in Log!Callback
                BY <1>1, <2>1, CallbackShape DEF LoginsInv, CallsFit
            <3>2. request[r].new \in BOOLEAN
                BY <3>1 DEF Log!Callback
            <3>3. CASE c.new
                <4>1. ~request[r].new
                    BY <1>2, <2>1, <3>3 DEF LoginsInv, OneMaker, MakesUser
                <4> QED
                    BY <1>2, <2>1, <3>1, <3>3, <4>1, LoginBounds DEF CallFits
            <3>4. CASE ~c.new
                BY <1>2, <1>3, <1>4, <2>1, <3>1, <3>4 DEF CallFits
            <3> QED
                BY <1>3, <3>3, <3>4
        <2>2. ASSUME NEW r \in Slots \ {s} PROVE CallFits(request[r])'
            <3>1. CallFits(request[r])
                BY DEF LoginsInv, CallsFit
            <3> QED
                BY <1>8, <2>1, <3>1 DEF CallFits
        <2>3. CallFits(request[s])'
            BY <1>8 DEF CallFits, Log!Idle, Early, KnowsUser
        <2> QED
            BY <2>2, <2>3 DEF CallsFit
    <1>12. OneMaker'
        BY <1>8 DEF LoginsInv, OneMaker, MakesUser, Log!Idle, KnowsUser
    <1>13. Log!StraysExplained'
        <2> SUFFICES ASSUME NEW i \in keyOf \cup sessionOf, i # user', i \notin mishap
                     PROVE  \E r \in Slots : request'[r] # Log!Idle /\ request'[r].user = i
            BY <1>7 DEF Log!StraysExplained
        <2>1. i # user
            <3>1. i # None
                BY <1>1, LoginBounds DEF Log!TypeOK
            <3> QED
                BY <1>5, <3>1
        <2>2. PICK r \in Slots : request[r] # Log!Idle /\ request[r].user = i
            BY <2>1 DEF LoginsInv, Log!StraysExplained
        <2> QED
            BY <1>4, <1>8, <2>2
    <1> QED
        BY <1>9, <1>10, <1>11, <1>12, <1>13 DEF LoginsInv

\* What fails is known to have failed, at the user it was about.
LEMMA LoginBreaks ==
    ASSUME LoginsInv, NEW s \in Slots, request[s] # Log!Idle, Log!Break(s),
           UNCHANGED <<user, used, link, keyOf, sessionOf>>,
           calls' \in 0..AreaCalls["logins"], faults' \in 0..AreaFaults["logins"]
    PROVE  LoginsInv'
    <1>1. Log!TypeOK
        BY DEF LoginsInv
    <1>2. request[s] \in Log!Callback /\ request[s].user \in UserIds \cup {None}
        BY <1>1, CallbackShape DEF Log!Callback
    <1>3. mishap' = mishap \cup ({request[s].user} \ {None}) /\ mishap' \subseteq UserIds
        BY <1>1, <1>2 DEF Log!Break, Log!TypeOK
    <1>4. request[s].pc \in KnowsUser => request[s].user \in mishap' /\ request[s].user \in UserIds
        BY <1>3, LoginBounds DEF LoginsInv, CallsFit, CallFits
    <1>5. CASE request[s].pc = "social.keys"
        <2>1. PICK c : c = [request[s] EXCEPT !.pc = "social.link"]
            OBVIOUS
        <2>2. c \in Log!Callback /\ c.pc = "social.link" /\ c.user = request[s].user /\ c.new = request[s].new
            BY <1>2, <2>1 DEF Log!Callback, Log!Steps
        <2>3. request' = [request EXCEPT ![s] = c]
            BY <1>5, <2>1 DEF Log!Break, Log!At, Log!Goto
        <2>4. c.pc \notin Early /\ request[s].pc \in KnowsUser
            BY <1>5, <2>2 DEF Early, KnowsUser
        <2>5. /\ c.new => user = None /\ \A r \in Slots \ {s} : ~MakesUser(r)
              /\ ~c.new => c.user = user
            BY <2>2, <2>4 DEF LoginsInv, CallsFit, CallFits, OneMaker, MakesUser
        <2> QED
            BY <1>1, <1>3, <1>4, <2>2, <2>3, <2>4, <2>5, CallbackGoesOn DEF Log!TypeOK
    <1>6. CASE request[s].pc # "social.keys"
        <2>1. request' = [request EXCEPT ![s] = Log!Idle]
            BY <1>6 DEF Log!Break, Log!At
        <2>2. /\ Log!Idle \in Log!Callback \cup {Log!Idle}
              /\ Log!Idle.pc \notin Early /\ Log!Idle.pc \notin KnowsUser
            BY DEF Log!Idle, Early, KnowsUser
        <2> QED
            BY <1>1, <1>3, <1>4, <2>1, <2>2, CallbackGoesOn DEF Log!TypeOK
    <1> QED
        BY <1>5, <1>6

LEMMA LoginsCrash ==
    ASSUME LoginsInv, Log!Crash
    PROVE  LoginsInv'
    <1>1. Log!TypeOK
        BY DEF LoginsInv
    <1>2. /\ mishap' = mishap \cup ({request[s].user : s \in {r \in Slots : request[r] # Log!Idle}} \ {None})
          /\ request' = [s \in Slots |-> Log!Idle] /\ UNCHANGED <<user, used, link, keyOf, sessionOf, calls>>
          /\ faults' \in 0..AreaFaults["logins"]
        BY <1>1, LoginBounds DEF Log!Crash, Log!TypeOK
    <1>3. mishap' \subseteq UserIds
        <2>1. \A s \in Slots : request[s] # Log!Idle => request[s].user \in UserIds \cup {None}
            BY <1>1, CallbackShape DEF Log!Callback
        <2> QED
            BY <1>1, <1>2, <2>1 DEF Log!TypeOK
    <1>4. Log!TypeOK'
        BY <1>1, <1>2, <1>3 DEF Log!TypeOK
    <1>5. Log!OnePerson'
        BY <1>2 DEF LoginsInv, Log!OnePerson
    <1>6. Log!StraysExplained'
        <2> SUFFICES ASSUME NEW i \in keyOf \cup sessionOf, i # user, i \notin mishap PROVE i \in mishap'
            BY <1>2 DEF Log!StraysExplained
        <2>1. PICK r \in Slots : request[r] # Log!Idle /\ request[r].user = i
            BY DEF LoginsInv, Log!StraysExplained
        <2>2. i # None
            BY <1>1, LoginBounds DEF Log!TypeOK
        <2> QED
            BY <1>2, <2>1, <2>2
    <1>7. \A s \in Slots : request'[s].pc = "idle"
        BY <1>2 DEF Log!Idle
    <1>8. CallsFit' /\ OneMaker'
        BY <1>7 DEF CallsFit, CallFits, OneMaker, MakesUser, Early, KnowsUser
    <1> QED
        BY <1>4, <1>5, <1>6, <1>8 DEF LoginsInv

LEMMA LoginsStep == LoginsInv /\ Log!Next => LoginsInv'
    <1> SUFFICES ASSUME LoginsInv, Log!Next PROVE LoginsInv'
        OBVIOUS
    <1>1. ASSUME NEW s \in Slots, Log!StatementFails(s) \/ Log!Timeout(s) \/ Log!Duplicate(s) PROVE LoginsInv'
        <2>1. calls' \in 0..AreaCalls["logins"] /\ faults' \in 0..AreaFaults["logins"]
            BY <1>1, LoginBounds DEF Log!StatementFails, Log!Timeout, Log!Duplicate, Log!Counters, LoginsInv, Log!TypeOK
        <2>2. request[s] # Log!Idle
            BY <1>1 DEF Log!StatementFails, Log!Timeout, Log!Duplicate, Log!At, Log!Idle
        <2> QED
            BY <1>1, <2>1, <2>2, LoginBreaks DEF Log!StatementFails, Log!Timeout, Log!Duplicate
    <1> QED
        BY <1>1, CallbackBegins, AccountLooked, UserInserted, UserServed, LoginCommits, LoginsCrash
        DEF Log!Next, Log!Step

-----------------------------------------------------------------------------
(* The areas together.                                                     *)

AreasInv ==
    /\ area \in Areas
    /\ area = "messages" => MessagesInv
    /\ area = "notifications" => NoticesInv
    /\ area = "onboarding" => OnboardingInv
    /\ area = "logins" => LoginsInv

LEMMA AreasRest == AreasInv /\ UNCHANGED allVars => AreasInv'
    <1> SUFFICES ASSUME AreasInv, UNCHANGED allVars PROVE AreasInv'
        OBVIOUS
    <1> USE DEF allVars, messages, notifications, onboarding, logins
    <1>1. ASSUME MessagesInv PROVE MessagesInv'
        <2>1. Msg!TypeOK'
            BY <1>1 DEF MessagesInv, Msg!TypeOK
        <2>2. Msg!FilesStay'
            BY <1>1 DEF MessagesInv, FilesAgree, Msg!FilesStay, Msg!There
        <2>3. SentOnce'
            BY <1>1 DEF MessagesInv, FilesAgree, SentOnce, Msg!Sending
        <2>4. NotYetSent'
            BY <1>1 DEF MessagesInv, FilesAgree, NotYetSent, Msg!Sending, Msg!There
        <2>5. \A s \in Slots : Underway(s)'
            BY <1>1 DEF MessagesInv, FilesAgree, Underway, Msg!There
        <2> QED
            BY <2>1, <2>2, <2>3, <2>4, <2>5 DEF MessagesInv, FilesAgree
    <1>2. ASSUME NoticesInv PROVE NoticesInv'
        BY <1>2 DEF NoticesInv, Ntf!TypeOK, Ntf!MutesLast, Ntf!MuteHolds, QuietIsMuted, Unsent, JobSound
    <1>3. ASSUME OnboardingInv PROVE OnboardingInv'
        <2>1. Onb!TypeOK' /\ Onb!OnboardedOwns' /\ LockOwned'
            BY <1>3 DEF OnboardingInv, Onb!TypeOK, Onb!OnboardedOwns, LockOwned
        <2>2. TenantsInv'
            BY <1>3 DEF OnboardingInv, TenantsInv, TenantsFit, TenantsApart, TenantsDone, MakesIt
        <2> QED
            BY <2>1, <2>2 DEF OnboardingInv
    <1>4. ASSUME LoginsInv PROVE LoginsInv'
        BY <1>4 DEF LoginsInv, Log!TypeOK, Log!OnePerson, Log!StraysExplained, CallsFit, CallFits, OneMaker, MakesUser
    <1> QED
        BY <1>1, <1>2, <1>3, <1>4 DEF AreasInv

LEMMA AreasStep == AreasInv /\ [AreasNext]_allVars => AreasInv'
    BY AreasRest, MessagesStep, NoticesStep, OnboardingStep, LoginsStep DEF AreasInv, AreasNext

LEMMA AreasAlways == AreasSpec => []AreasInv
    <1>1. AreasInit => AreasInv
        BY MessagesStart, NoticesStart, OnboardingStart, LoginsStart DEF AreasInit, AreasInv
    <1> QED
        BY <1>1, AreasStep, PTL DEF AreasSpec

\* The files of a message are linked to it once the request that links them is over,
\* unless its sender has named them (sendMessage links none); a mute lasts until it
\* ends, and whoever has muted the channel is not notified.
THEOREM ChatStaysConsistent == AreasSpec => []ChatConsistent
    <1>1. AreasInv => ChatConsistent
        BY DEF AreasInv, ChatConsistent, MessagesInv, FilesAgree, NoticesInv
    <1> QED
        BY <1>1, AreasAlways, PTL

\* A user of a kind owns a tenant of that kind, what a rollback left behind is known,
\* and whatever provider vouches for a person, it is one user.
THEOREM SignUpStaysConsistent == AreasSpec => []SignUpConsistent
    <1>1. AreasInv => SignUpConsistent
        BY OnboardingHolds DEF AreasInv, SignUpConsistent, OnboardingInv, LoginsInv
    <1> QED
        BY <1>1, AreasAlways, PTL

\* No message is sent with an attachment that is deleted already, unless it was
\* deleted while the message was being sent, or its sender names the attachment
\* (sendMessage looks at none).
THEOREM DeadFilesStayUnsent == AreasSpec => Msg!SentFilesExist
    <1>1. AreasInv /\ [AreasNext]_allVars =>
              [\A m \in MessageIds : ~Msg!There(m) /\ Msg!There(m)' /\ m \notin unchecked' =>
                   message'[m].files \cap dropped \subseteq contested]_(Msg!vars)
        <2> SUFFICES ASSUME AreasInv, [AreasNext]_allVars PROVE NoDeadFile
            BY DEF NoDeadFile
        <2>1. CASE area = "messages" /\ Msg!Next
            BY <2>1, NoDeadFileSent DEF AreasInv
        <2>2. CASE message' = message
            BY <2>2 DEF NoDeadFile, Msg!There
        <2> QED
            BY <2>1, <2>2 DEF AreasNext, allVars, messages
    <1> QED
        BY <1>1, AreasAlways, PTL DEF AreasSpec, Msg!SentFilesExist
=============================================================================
