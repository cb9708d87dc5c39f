------------------------- MODULE ChannelMembership -------------------------
(***************************************************************************)
(* Membership of one chat channel: the rows of chat_participants, the      *)
(* denormalised chat_channels.member_count and is_archived, and the        *)
(* ChatService handlers that change them.  Every await of a handler is a   *)
(* separate autocommitted SQL statement, so a handler is a little process: *)
(* `req[s]' is the request served in slot s and `pc' the statement it      *)
(* awaits next.  Reads are steps of their own because what they saw is     *)
(* acted on later, when other requests have run.                           *)
(***************************************************************************)
EXTENDS Integers, Sequences, FiniteSets

CONSTANTS
    Users,        \* the users who may ever belong to the channel
    Slots,        \* requests the Node process may have in flight at once
    UserLists,    \* the userIds arrays callers of addMembers pass
    MaxRequests,  \* bound: requests served in a behaviour
    MaxAborts     \* bound: requests that die between two statements

ASSUME UsersAssumption == IsFiniteSet(Users)
ASSUME SlotsAssumption == IsFiniteSet(Slots)
ASSUME UserListsAssumption == UserLists \subseteq Seq(Users)
ASSUME BoundsAssumption == MaxRequests \in Nat /\ MaxAborts \in Nat

VARIABLES
    row,          \* chat_participants.is_active, "none" when there is no row
    role,         \* chat_participants.role; it outlives a deactivation
    memberCount,  \* chat_channels.member_count
    archived,     \* chat_channels.is_archived
    req,          \* the requests in flight
    drift,        \* history: by how much the counter was written amiss
    rivals,       \* history: a transfer began while another was in flight
    stale,        \* history: slots that will act on what is no longer so
    served,       \* requests started so far
    aborts        \* requests lost so far

history == <<drift, rivals, stale>>
vars == <<row, role, memberCount, archived, req, history, served, aborts>>

-----------------------------------------------------------------------------
Roles == {"owner", "admin", "member"}
RowStates == {"none", "active", "inactive"}

Steps == {"leave.others", "leave.deactivate", "leave.count",
          "remove.target", "remove.deactivate", "remove.count",
          "add.next", "add.reactivate", "add.insert",
          "role.demote", "role.set", "archive.write"}

\* actor calls; target, newRole, todo, added and flag are the handler's locals.
InFlight == [pc : Steps, actor : Users, target : Users, newRole : Roles,
             todo : Seq(Users), added : Nat, flag : BOOLEAN]
Idle == [pc |-> "idle"]

\* Mutants: forms of the definition after them that a plausible bug would give it.
IsOwnerOrAdmin(u) == row[u] = "active" /\ role[u] \in {"owner", "admin"}
IsAdminOfAnyRow(u) == role[u] \in {"owner", "admin"}

Active == {u \in Users : row[u] = "active"}
IsOwner(u) == row[u] = "active" /\ role[u] = "owner"
IsAdmin(u) == row[u] = "active" /\ role[u] \in {"owner", "admin"}

TypeOK ==
    /\ row \in [Users -> RowStates]
    /\ role \in [Users -> Roles]
    /\ memberCount \in Int
    /\ archived \in BOOLEAN
    /\ req \in [Slots -> InFlight \cup {Idle}]
    /\ drift \in Int /\ rivals \in BOOLEAN /\ stale \subseteq Slots
    /\ served \in Nat
    /\ aborts \in Nat

-----------------------------------------------------------------------------
\* createChannel: sp_CreateChannel_Fast inserts the creator as owner, everyone
\* else as member, and counts the rows, in one transaction.  A user without a
\* row carries the column default 'member'.
Init ==
    \E creator \in Users, invited \in SUBSET Users :
        /\ row = [u \in Users |-> IF u \in invited \cup {creator} THEN "active" ELSE "none"]
        /\ role = [u \in Users |-> IF u = creator THEN "owner" ELSE "member"]
        /\ memberCount = Cardinality(invited \cup {creator})
        /\ archived = FALSE
        /\ req = [s \in Slots |-> Idle]
        /\ drift = 0 /\ rivals = FALSE /\ stale = {}
        /\ served = 0
        /\ aborts = 0

Begin(s, r) ==
    /\ req[s] = Idle
    /\ served < MaxRequests
    /\ served' = served + 1
    /\ req' = [req EXCEPT ![s] = r]
    /\ stale' = stale \ {s}
    /\ UNCHANGED drift

Call(step, a, t, r, list, f) ==
    [pc |-> step, actor |-> a, target |-> t, newRole |-> r,
     todo |-> list, added |-> 0, flag |-> f]

Goto(s, step) == req' = [req EXCEPT ![s].pc = step] /\ UNCHANGED served
Done(s) == req' = [req EXCEPT ![s] = Idle] /\ UNCHANGED served

Channel == <<row, role, memberCount, archived>>

\* What the counter has yet to be told of by a request.
Owed(r) ==
    CASE r.pc \in {"leave.count", "remove.count"} -> -1
      [] r.pc \in {"add.next", "add.reactivate", "add.insert"} -> r.added
      [] OTHER -> 0

\* Whoever is about to deactivate u, on the strength of what was read of roles and rows.
Deactivating(r, u) ==
    \/ r.pc = "leave.deactivate" /\ r.actor = u
    \/ r.pc = "remove.deactivate" /\ r.target = u

-----------------------------------------------------------------------------
\* leaveChannel.  A caller who is not an active member is refused at once.
LeaveRole(s, u) ==
    /\ row[u] = "active"
    /\ Begin(s, Call(IF role[u] = "owner" THEN "leave.others" ELSE "leave.deactivate",
                     u, u, "member", <<>>, FALSE))
    /\ UNCHANGED <<Channel, rivals, aborts>>

LeaveOthers(s) ==
    /\ req[s].pc = "leave.others"
    /\ IF Active \ {req[s].actor} # {} THEN Done(s) ELSE Goto(s, "leave.deactivate")
    /\ UNCHANGED <<Channel, history, aborts>>

\* An UPDATE of a row that is inactive by now is debited like any other.
Deactivate(u) ==
    /\ row' = [row EXCEPT ![u] = "inactive"]
    /\ drift' = IF row[u] = "active" THEN drift ELSE drift - 1

LeaveDeactivate(s) ==
    /\ req[s].pc = "leave.deactivate"
    /\ Deactivate(req[s].actor)
    /\ Goto(s, "leave.count")
    /\ UNCHANGED <<role, memberCount, archived, rivals, stale, aborts>>

LeaveCount(s) ==
    /\ req[s].pc = "leave.count"
    /\ memberCount' = memberCount - 1
    /\ Done(s)
    /\ UNCHANGED <<row, role, archived, history, aborts>>

-----------------------------------------------------------------------------
\* removeMember.  validateAdminRole is the first statement.
RemoveCheck(s, u, t) ==
    /\ IsAdmin(u)
    /\ Begin(s, Call("remove.target", u, t, "member", <<>>, FALSE))
    /\ UNCHANGED <<Channel, rivals, aborts>>

\* Mutant: the target's role is not looked at.
RemoveAnyTarget(s) ==
    /\ req[s].pc = "remove.target"
    /\ IF row[req[s].target] # "active" THEN Done(s) ELSE Goto(s, "remove.deactivate")
    /\ UNCHANGED <<Channel, history, aborts>>

RemoveTarget(s) ==
    /\ req[s].pc = "remove.target"
    /\ LET t == req[s].target
       IN  IF row[t] # "active" \/ role[t] = "owner" THEN Done(s)
           ELSE Goto(s, "remove.deactivate")
    /\ UNCHANGED <<Channel, history, aborts>>

RemoveDeactivate(s) ==
    /\ req[s].pc = "remove.deactivate"
    /\ Deactivate(req[s].target)
    /\ Goto(s, "remove.count")
    /\ UNCHANGED <<role, memberCount, archived, rivals, stale, aborts>>

RemoveCount(s) ==
    /\ req[s].pc = "remove.count"
    /\ memberCount' = memberCount - 1
    /\ Done(s)
    /\ UNCHANGED <<row, role, archived, history, aborts>>

-----------------------------------------------------------------------------
\* addMembers.  The loop reads each row, then reactivates or inserts it; the
\* counter is credited once, after the loop.
AddCheck(s, u, list) ==
    /\ IsAdmin(u)
    /\ Begin(s, Call("add.next", u, u, "member", list, FALSE))
    /\ UNCHANGED <<Channel, rivals, aborts>>

\* Mutant: a member who is active already counts as added.
AddReadCountingAll(s) ==
    LET uid == Head(req[s].todo)
    IN  /\ req[s].pc = "add.next"
        /\ req[s].todo # <<>>
        /\ \/ row[uid] = "active"   /\ req' = [req EXCEPT ![s].todo = Tail(@), ![s].added = @ + 1]
           \/ row[uid] = "inactive" /\ req' = [req EXCEPT ![s].pc = "add.reactivate"]
           \/ row[uid] = "none"     /\ req' = [req EXCEPT ![s].pc = "add.insert"]
        /\ UNCHANGED <<Channel, history, served, aborts>>

AddRead(s) ==
    LET uid == Head(req[s].todo)
    IN  /\ req[s].pc = "add.next"
        /\ req[s].todo # <<>>
        /\ \/ row[uid] = "active"   /\ req' = [req EXCEPT ![s].todo = Tail(@)]
           \/ row[uid] = "inactive" /\ req' = [req EXCEPT ![s].pc = "add.reactivate"]
           \/ row[uid] = "none"     /\ req' = [req EXCEPT ![s].pc = "add.insert"]
        /\ UNCHANGED <<Channel, history, served, aborts>>

AddPushed(s) ==
    /\ req' = [req EXCEPT ![s].pc = "add.next",
                          ![s].todo = Tail(@),
                          ![s].added = @ + 1]
    /\ UNCHANGED served

\* Another member: an owner who goes for want of any is too late.
Joined(u) ==
    /\ row' = [row EXCEPT ![u] = "active"]
    /\ stale' = stale \cup {t \in Slots : req[t].pc = "leave.deactivate"}

\* The row keeps the role it had when it was deactivated; one that is active by
\* now is credited like any other.
AddReactivate(s) ==
    LET uid == Head(req[s].todo)
    IN  /\ req[s].pc = "add.reactivate"
        /\ Joined(uid)
        /\ drift' = IF row[uid] = "active" THEN drift + 1 ELSE drift
        /\ AddPushed(s)
        /\ UNCHANGED <<role, memberCount, archived, rivals, aborts>>

\* UNIQUE(channel_id, user_id): the INSERT fails when another request has
\* inserted the row since it was read, and the handler throws: whom it has added
\* before is not credited.
AddInsert(s) ==
    LET uid == Head(req[s].todo)
    IN  /\ req[s].pc = "add.insert"
        /\ \/ /\ row[uid] = "none"
              /\ Joined(uid)
              /\ role' = [role EXCEPT ![uid] = "member"]
              /\ AddPushed(s)
              /\ UNCHANGED drift
           \/ /\ row[uid] # "none"
              /\ Done(s)
              /\ drift' = drift - req[s].added
              /\ UNCHANGED <<row, role, stale>>
        /\ UNCHANGED <<memberCount, archived, rivals, aborts>>

AddCount(s) ==
    /\ req[s].pc = "add.next"
    /\ req[s].todo = <<>>
    /\ memberCount' = memberCount + req[s].added
    /\ Done(s)
    /\ UNCHANGED <<row, role, archived, history, aborts>>

-----------------------------------------------------------------------------
\* updateMemberRole.  A transfer demotes the caller first; the target is any
\* user id, and the UPDATE touches no row when it names no participant.
Promoting(r) == r.pc \in {"role.demote", "role.set"} /\ r.newRole = "owner"

\* Mutant: a transfer of ownership does not demote the caller.
RoleCheckKeepingOwner(s, u, t, r) ==
    /\ IsOwner(u)
    /\ Begin(s, Call("role.set", u, t, r, <<>>, FALSE))
    /\ rivals' = (rivals \/ (r = "owner" /\ \E o \in Slots : Promoting(req[o])))
    /\ UNCHANGED <<Channel, aborts>>

RoleCheck(s, u, t, r) ==
    /\ IsOwner(u)
    /\ Begin(s, Call(IF r = "owner" THEN "role.demote" ELSE "role.set",
                     u, t, r, <<>>, FALSE))
    /\ rivals' = (rivals \/ (r = "owner" /\ \E o \in Slots : Promoting(req[o])))
    /\ UNCHANGED <<Channel, aborts>>

RoleDemote(s) ==
    /\ req[s].pc = "role.demote"
    /\ role' = [role EXCEPT ![req[s].actor] = "admin"]
    /\ Goto(s, "role.set")
    /\ UNCHANGED <<row, memberCount, archived, history, aborts>>

RoleSet(s) ==
    /\ req[s].pc = "role.set"
    /\ LET t == req[s].target
       IN  /\ role' = [role EXCEPT ![t] = IF row[t] = "none" THEN @ ELSE req[s].newRole]
           /\ stale' = stale \cup {o \in Slots : Promoting(req[s]) /\ Deactivating(req[o], t)}
    /\ Done(s)
    /\ UNCHANGED <<row, memberCount, archived, drift, rivals, aborts>>

-----------------------------------------------------------------------------
\* archiveChannel and unarchiveChannel need an admin, deleteChannel (which
\* archives) the owner.
ArchiveCheck(s, u, flag) ==
    /\ IsAdmin(u)
    /\ Begin(s, Call("archive.write", u, u, "member", <<>>, flag))
    /\ UNCHANGED <<Channel, rivals, aborts>>

DeleteCheck(s, u) ==
    /\ IsOwner(u)
    /\ Begin(s, Call("archive.write", u, u, "member", <<>>, TRUE))
    /\ UNCHANGED <<Channel, rivals, aborts>>

ArchiveWrite(s) ==
    /\ req[s].pc = "archive.write"
    /\ archived' = req[s].flag
    /\ Done(s)
    /\ UNCHANGED <<row, role, memberCount, history, aborts>>

-----------------------------------------------------------------------------
\* A statement fails, times out, or the process dies between two statements:
\* nothing that was written is undone, nothing that was left is done.
Abort(s) ==
    /\ req[s] # Idle
    /\ aborts < MaxAborts
    /\ aborts' = aborts + 1
    /\ drift' = drift - Owed(req[s])
    /\ Done(s)
    /\ UNCHANGED <<Channel, rivals, stale>>

Arrive(s) ==
    \/ \E u \in Users : LeaveRole(s, u)
    \/ \E u, t \in Users : RemoveCheck(s, u, t)
    \/ \E u \in Users, list \in UserLists : AddCheck(s, u, list)
    \/ \E u, t \in Users, r \in Roles : RoleCheck(s, u, t, r)
    \/ \E u \in Users, flag \in BOOLEAN : ArchiveCheck(s, u, flag)
    \/ \E u \in Users : DeleteCheck(s, u)

Continue(s) ==
    \/ LeaveOthers(s) \/ LeaveDeactivate(s) \/ LeaveCount(s)
    \/ RemoveTarget(s) \/ RemoveDeactivate(s) \/ RemoveCount(s)
    \/ AddRead(s) \/ AddReactivate(s) \/ AddInsert(s) \/ AddCount(s)
    \/ RoleDemote(s) \/ RoleSet(s)
    \/ ArchiveWrite(s)

Next == \E s \in Slots : Arrive(s) \/ Continue(s) \/ Abort(s)

Spec == Init /\ [][Next]_vars

-----------------------------------------------------------------------------
Quiet == \A s \in Slots : req[s] = Idle

\* Between requests member_count is the number of active participants, the
\* definition sp_CreateChannel_Fast gives it (the channel lists report it), but
\* for what `drift' says, however the requests interleave: an UPDATE that found
\* the row written by another, and a request that broke off before its credit or
\* debit, are the only ways to lose count.
CountSettled == Quiet => memberCount = Cardinality(Active) + drift

\* A channel has two owner rows, active or not, only after two transfers that
\* overlapped: updateMemberRole demotes the caller before it promotes the target,
\* so whatever else runs meanwhile, and wherever a request is lost, there is no
\* second owner.
AtMostOneOwner ==
    rivals \/ \A u, v \in Users : role[u] = "owner" /\ role[v] = "owner" => u = v

\* The owner is the last to go: leaveChannel and removeMember deactivate an owner
\* while another member is active only if the member was added, or the owner
\* became one, after they looked.
OwnerLeavesLast ==
    [][\A u \in Users : IsOwner(u) /\ row'[u] = "inactive" =>
           Active = {u} \/ \E s \in stale : Deactivating(req[s], u)]_vars

\* A channel everybody has left is frozen: no former member, whatever role the
\* inactive row still carries, can revive, re-populate or unarchive it.
AbandonedIsFrozen == [][Active = {} /\ Quiet => UNCHANGED Channel /\ Quiet']_vars

Ownerless ==
    /\ \A u \in Users : role[u] # "owner"
    /\ \A s \in Slots : ~Promoting(req[s])

\* Only an owner makes an owner: a channel with no owner row and no transfer
\* in flight never gets an owner again, however the other requests interleave.
OwnerlessForever == [][Ownerless => Ownerless']_vars

=============================================================================
