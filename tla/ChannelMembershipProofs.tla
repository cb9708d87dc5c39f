---------------------- MODULE ChannelMembershipProofs ----------------------
(***************************************************************************)
(* Theorems about ChannelMembership for every set of users, every userIds  *)
(* array, every number of requests in flight and every bound: all of them  *)
(* hold however the statements of the requests interleave.                 *)
(***************************************************************************)
EXTENDS ChannelMembership, FiniteSetTheorems, TLAPS

LEMMA InFlightShape ==
    ASSUME TypeOK, NEW s \in Slots
    PROVE  /\ req[s].pc \in Steps => req[s] \in InFlight
           /\ req[s] # Idle => req[s] \in InFlight /\ req[s].pc \in Steps
           /\ req[s] = Idle => req[s].pc = "idle"
    <1>1. req[s] \in InFlight \/ req[s] = Idle
        BY DEF TypeOK
    <1>2. Idle.pc = "idle" /\ "idle" \notin Steps
        BY DEF Idle, Steps
    <1>3. req[s] \in InFlight => req[s].pc \in Steps
        BY DEF InFlight
    <1> QED
        BY <1>1, <1>2, <1>3

\* A request that goes on to its next statement, or ends.
LEMMA Going ==
    ASSUME TypeOK, NEW s \in Slots, req[s].pc \in Steps, NEW step \in Steps, Goto(s, step)
    PROVE  req' \in [Slots -> InFlight \cup {Idle}] /\ served' = served
    <1>1. [req[s] EXCEPT !.pc = step] \in InFlight
        BY InFlightShape DEF InFlight
    <1>2. req' = [req EXCEPT ![s] = [req[s] EXCEPT !.pc = step]] /\ served' = served
        BY DEF Goto
    <1> QED
        BY <1>1, <1>2 DEF TypeOK

LEMMA Ending ==
    ASSUME TypeOK, NEW s \in Slots, Done(s)
    PROVE  req' \in [Slots -> InFlight \cup {Idle}] /\ served' = served
    BY DEF Done, TypeOK

\* What a request in flight is about.
LEMMA AboutUsers ==
    ASSUME TypeOK, NEW s \in Slots, req[s].pc \in Steps
    PROVE  req[s].actor \in Users /\ req[s].target \in Users /\ req[s].newRole \in Roles
    BY InFlightShape DEF InFlight

LEMMA OwedInt ==
    ASSUME TypeOK, NEW s \in Slots
    PROVE  Owed(req[s]) \in Int
    BY InFlightShape DEF Owed, InFlight, Steps

\* Type correctness: Spec => []TypeOK.
LEMMA TypeInit == Init => TypeOK
    <1> SUFFICES ASSUME Init PROVE TypeOK
        OBVIOUS
    <1>1. PICK creator \in Users, invited \in SUBSET Users :
              /\ row = [u \in Users |-> IF u \in invited \cup {creator} THEN "active" ELSE "none"]
              /\ role = [u \in Users |-> IF u = creator THEN "owner" ELSE "member"]
              /\ memberCount = Cardinality(invited \cup {creator})
              /\ archived = FALSE
              /\ req = [s \in Slots |-> Idle]
              /\ drift = 0 /\ rivals = FALSE /\ stale = {}
              /\ served = 0
              /\ aborts = 0
        BY DEF Init
    <1>2. IsFiniteSet(invited \cup {creator})
        BY FS_Subset, UsersAssumption
    <1>3. memberCount \in Int
        BY <1>1, <1>2, FS_CardinalityType
    <1>4. row \in [Users -> RowStates] /\ role \in [Users -> Roles]
        BY <1>1 DEF RowStates, Roles
    <1>5. req \in [Slots -> InFlight \cup {Idle}]
        BY <1>1
    <1>6. drift \in Int /\ stale \subseteq Slots /\ served \in Nat /\ aborts \in Nat
        BY <1>1
    <1>7. archived \in BOOLEAN /\ rivals \in BOOLEAN
        BY <1>1
    <1> QED
        BY <1>3, <1>4, <1>5, <1>6, <1>7 DEF TypeOK

LEMMA TypeNext == TypeOK /\ [Next]_vars => TypeOK'
    <1> SUFFICES ASSUME TypeOK, [Next]_vars PROVE TypeOK'
        OBVIOUS
    <1>1. CASE UNCHANGED vars
        BY <1>1 DEF vars, history, TypeOK
    <1>2. ASSUME NEW s \in Slots, NEW u \in Users, LeaveRole(s, u) PROVE TypeOK'
        BY <1>2 DEF LeaveRole, Begin, Call, Channel, TypeOK, InFlight, Steps, Roles
    <1>3. ASSUME NEW s \in Slots, NEW u \in Users, NEW t \in Users, RemoveCheck(s, u, t)
          PROVE  TypeOK'
        BY <1>3 DEF RemoveCheck, Begin, Call, Channel, TypeOK, InFlight, Steps, Roles
    <1>4. ASSUME NEW s \in Slots, NEW u \in Users, NEW list \in UserLists, AddCheck(s, u, list)
          PROVE  TypeOK'
        BY <1>4, UserListsAssumption
        DEF AddCheck, Begin, Call, Channel, TypeOK, InFlight, Steps, Roles
    <1>5. ASSUME NEW s \in Slots, NEW u \in Users, NEW t \in Users, NEW r \in Roles,
                 RoleCheck(s, u, t, r)
          PROVE  TypeOK'
        BY <1>5 DEF RoleCheck, Begin, Call, Channel, TypeOK, InFlight, Steps, Roles
    <1>6. ASSUME NEW s \in Slots, NEW u \in Users, NEW flag \in BOOLEAN, ArchiveCheck(s, u, flag)
          PROVE  TypeOK'
        BY <1>6 DEF ArchiveCheck, Begin, Call, Channel, TypeOK, InFlight, Steps, Roles
    <1>7. ASSUME NEW s \in Slots, NEW u \in Users, DeleteCheck(s, u) PROVE TypeOK'
        BY <1>7 DEF DeleteCheck, Begin, Call, Channel, TypeOK, InFlight, Steps, Roles
    <1>8. ASSUME NEW s \in Slots, Abort(s) PROVE TypeOK'
        <2>1. Owed(req[s]) \in Int
            BY <1>8, OwedInt
        <2> QED
            BY <1>8, <2>1 DEF Abort, Done, Channel, TypeOK
    <1>9. ASSUME NEW s \in Slots, Continue(s) PROVE TypeOK'
        <2> USE <1>9, InFlightShape
        <2>1. CASE LeaveOthers(s)
            <3>1. /\ req[s].pc \in Steps
                  /\ Done(s) \/ Goto(s, "leave.deactivate")
                  /\ UNCHANGED <<Channel, history, aborts>>
                BY <2>1 DEF LeaveOthers, Steps
            <3>2. "leave.deactivate" \in Steps
                BY DEF Steps
            <3>3. req' \in [Slots -> InFlight \cup {Idle}] /\ served' = served
                BY <3>1, <3>2, Ending, Going
            <3> QED
                BY <3>1, <3>3 DEF Channel, history, TypeOK
        <2>2. CASE LeaveDeactivate(s)
            <3>1. req[s].pc \in Steps /\ "leave.count" \in Steps /\ Goto(s, "leave.count")
                BY <2>2 DEF LeaveDeactivate, Steps
            <3>2. row' = [row EXCEPT ![req[s].actor] = "inactive"] /\ drift' \in Int
                BY <2>2 DEF LeaveDeactivate, Deactivate, TypeOK
            <3>3. row' \in [Users -> RowStates]
                BY <3>2 DEF TypeOK, RowStates
            <3> QED
                BY <2>2, <3>1, <3>2, <3>3, Going DEF LeaveDeactivate, TypeOK
        <2>3. CASE LeaveCount(s)
            BY <2>3 DEF LeaveCount, Done, history, TypeOK
        <2>4. CASE RemoveTarget(s)
            <3>1. /\ req[s].pc \in Steps
                  /\ Done(s) \/ Goto(s, "remove.deactivate")
                  /\ UNCHANGED <<Channel, history, aborts>>
                BY <2>4 DEF RemoveTarget, Steps
            <3>2. "remove.deactivate" \in Steps
                BY DEF Steps
            <3>3. req' \in [Slots -> InFlight \cup {Idle}] /\ served' = served
                BY <3>1, <3>2, Ending, Going
            <3> QED
                BY <3>1, <3>3 DEF Channel, history, TypeOK
        <2>5. CASE RemoveDeactivate(s)
            <3>1. req[s].pc \in Steps /\ "remove.count" \in Steps /\ Goto(s, "remove.count")
                BY <2>5 DEF RemoveDeactivate, Steps
            <3>2. row' = [row EXCEPT ![req[s].target] = "inactive"] /\ drift' \in Int
                BY <2>5 DEF RemoveDeactivate, Deactivate, TypeOK
            <3>3. row' \in [Users -> RowStates]
                BY <3>2 DEF TypeOK, RowStates
            <3> QED
                BY <2>5, <3>1, <3>2, <3>3, Going DEF RemoveDeactivate, TypeOK
        <2>6. CASE RemoveCount(s)
            BY <2>6 DEF RemoveCount, Done, history, TypeOK
        <2>7. CASE AddRead(s)
            <3>1. req[s] \in InFlight
                BY <2>7 DEF AddRead, Steps
            <3>2. Head(req[s].todo) \in Users /\ Tail(req[s].todo) \in Seq(Users)
                BY <2>7, <3>1 DEF AddRead, InFlight
            <3>3. \/ req' = [req EXCEPT ![s].todo = Tail(@)]
                  \/ req' = [req EXCEPT ![s].pc = "add.reactivate"]
                  \/ req' = [req EXCEPT ![s].pc = "add.insert"]
                BY <2>7 DEF AddRead
            <3>4. [req[s] EXCEPT !.todo = Tail(@)] \in InFlight
                BY <3>1, <3>2 DEF InFlight
            <3>5. /\ [req[s] EXCEPT !.pc = "add.reactivate"] \in InFlight
                  /\ [req[s] EXCEPT !.pc = "add.insert"] \in InFlight
                BY <3>1 DEF InFlight, Steps
            <3>6. req' \in [Slots -> InFlight \cup {Idle}]
                BY <3>3, <3>4, <3>5 DEF TypeOK
            <3> QED
                BY <2>7, <3>6 DEF AddRead, Channel, history, TypeOK
        <2>8. CASE AddReactivate(s)
            BY <2>8 DEF AddReactivate, Joined, AddPushed, TypeOK, InFlight, Steps, RowStates
        <2>9. CASE AddInsert(s)
            BY <2>9 DEF AddInsert, Joined, AddPushed, Done, TypeOK, InFlight, Steps, RowStates, Roles
        <2>10. CASE AddCount(s)
            BY <2>10 DEF AddCount, Done, history, TypeOK, InFlight, Steps
        <2>11. CASE RoleDemote(s)
            <3>1. req[s].pc \in Steps /\ "role.set" \in Steps /\ Goto(s, "role.set")
                BY <2>11 DEF RoleDemote, Steps
            <3>2. role' \in [Users -> Roles]
                BY <2>11 DEF RoleDemote, TypeOK, Roles
            <3> QED
                BY <2>11, <3>1, <3>2, Going DEF RoleDemote, history, TypeOK
        <2>12. CASE RoleSet(s)
            <3>1. req[s].pc \in Steps /\ Done(s)
                BY <2>12 DEF RoleSet, Steps
            <3>2. role' \in [Users -> Roles]
                BY <2>12, <3>1, AboutUsers DEF RoleSet, TypeOK
            <3> QED
                BY <2>12, <3>1, <3>2, Ending DEF RoleSet, TypeOK
        <2>13. CASE ArchiveWrite(s)
            BY <2>13 DEF ArchiveWrite, Done, history, TypeOK, InFlight, Steps
        <2> QED
            BY <2>1, <2>2, <2>3, <2>4, <2>5, <2>6, <2>7, <2>8, <2>9, <2>10, <2>11, <2>12, <2>13
            DEF Continue
    <1> QED
        BY <1>1, <1>2, <1>3, <1>4, <1>5, <1>6, <1>7, <1>8, <1>9 DEF Next, Arrive

THEOREM TypeCorrect == Spec => []TypeOK
    BY TypeInit, TypeNext, PTL DEF Spec

-----------------------------------------------------------------------------
\* AbandonedIsFrozen, however requests interleave and whichever are lost: a
\* request can begin only for an active member, and none is in flight.
LEMMA AbandonedStep ==
    TypeOK /\ [Next]_vars => [Active = {} /\ Quiet => UNCHANGED Channel /\ Quiet']_vars
    <1> SUFFICES ASSUME TypeOK, Next, Active = {}, Quiet PROVE FALSE
        BY DEF vars
    <1>1. PICK s \in Slots : Arrive(s) \/ Continue(s) \/ Abort(s)
        BY DEF Next
    <1>2. req[s] = Idle /\ req[s].pc = "idle"
        BY InFlightShape DEF Quiet
    <1>3. ~Abort(s)
        BY <1>2 DEF Abort
    <1>4. ~Continue(s)
        BY <1>2 DEF Continue, LeaveOthers, LeaveDeactivate, LeaveCount, RemoveTarget,
                    RemoveDeactivate, RemoveCount, AddRead, AddReactivate, AddInsert,
                    AddCount, RoleDemote, RoleSet, ArchiveWrite
    <1>5. \A u \in Users : row[u] # "active"
        BY DEF Active
    <1>6. ~Arrive(s)
        BY <1>5 DEF Arrive, LeaveRole, RemoveCheck, AddCheck, RoleCheck, ArchiveCheck,
                    DeleteCheck, IsAdmin, IsOwner
    <1> QED
        BY <1>1, <1>3, <1>4, <1>6

THEOREM AbandonedFrozen == Spec => AbandonedIsFrozen
    BY TypeCorrect, AbandonedStep, PTL DEF Spec, AbandonedIsFrozen

-----------------------------------------------------------------------------
\* OwnerlessForever, however requests interleave: rows are inserted as
\* 'member', a demotion writes 'admin', and updateMemberRole writes 'owner'
\* only for a caller who passed validateOwnerRole.
LEMMA OwnerlessStep == TypeOK /\ [Next]_vars => [Ownerless => Ownerless']_vars
    <1> SUFFICES ASSUME TypeOK, Next, Ownerless PROVE Ownerless'
        OBVIOUS
    <1>1. PICK s \in Slots : Arrive(s) \/ Continue(s) \/ Abort(s)
        BY DEF Next
    <1>2. \A u \in Users : role[u] # "owner" /\ ~IsOwner(u)
        BY DEF Ownerless, IsOwner
    <1>3. \A t \in Slots : ~Promoting(req[t])
        BY DEF Ownerless
    <1>4. ASSUME \A t \in Slots : ~Promoting(req'[t]),
                 UNCHANGED role \/ \E u \in Users, r \in Roles \ {"owner"} :
                                      role' = [role EXCEPT ![u] = r]
          PROVE  Ownerless'
        BY <1>2, <1>4 DEF Ownerless, TypeOK
    <1>5. ~Promoting(Idle)
        BY DEF Promoting, Idle
    <1>6. CASE Arrive(s)
        <2>1. UNCHANGED role
            BY <1>6 DEF Arrive, LeaveRole, RemoveCheck, AddCheck, RoleCheck, ArchiveCheck,
                        DeleteCheck, Channel
        <2>2. PICK step \in {"leave.others", "leave.deactivate", "remove.target", "add.next",
                             "archive.write"}, a \in Users, t \in Users,
                  list \in UserLists \cup {<<>>}, f \in BOOLEAN :
                  req' = [req EXCEPT ![s] = Call(step, a, t, "member", list, f)]
            BY <1>2, <1>6 DEF Arrive, LeaveRole, RemoveCheck, AddCheck, RoleCheck,
                              ArchiveCheck, DeleteCheck, Begin
        <2>3. ~Promoting(Call(step, a, t, "member", list, f))
            BY DEF Promoting, Call
        <2> QED
            BY <1>3, <1>4, <2>1, <2>2, <2>3 DEF TypeOK
    <1>7. CASE Abort(s)
        BY <1>3, <1>4, <1>5, <1>7 DEF Abort, Done, Channel, TypeOK
    <1>8. CASE Continue(s)
        <2>1. req[s] \in InFlight
            BY <1>8, InFlightShape
            DEF Continue, Steps, LeaveOthers, LeaveDeactivate, LeaveCount, RemoveTarget,
                RemoveDeactivate, RemoveCount, AddRead, AddReactivate, AddInsert,
                AddCount, RoleDemote, RoleSet, ArchiveWrite
        <2> USE <1>3, <1>4, <1>5, <2>1
        <2>2. CASE RoleDemote(s)
            BY <2>2 DEF RoleDemote, Goto, Promoting, TypeOK, InFlight, Roles
        <2>3. CASE RoleSet(s)
            <3>1. req[s].newRole # "owner" /\ req[s].newRole \in Roles /\ req[s].target \in Users
                BY <2>3 DEF RoleSet, Promoting, InFlight
            <3>2. \/ UNCHANGED role
                  \/ role' = [role EXCEPT ![req[s].target] = req[s].newRole]
                BY <2>3 DEF RoleSet, TypeOK
            <3> QED
                BY <2>3, <3>1, <3>2 DEF RoleSet, Done, TypeOK
        <2>4. CASE AddInsert(s)
            <3>1. CASE AddPushed(s)
                BY <2>4, <3>1 DEF AddInsert, AddPushed, Ownerless, Promoting, TypeOK, InFlight
            <3>2. CASE Done(s)
                BY <2>4, <3>2 DEF AddInsert, Done, Ownerless, TypeOK
            <3> QED
                BY <2>4, <3>1, <3>2 DEF AddInsert
        <2>5. CASE \/ LeaveCount(s) \/ RemoveCount(s) \/ AddCount(s) \/ ArchiveWrite(s)
            BY <2>5 DEF LeaveCount, RemoveCount, AddCount, ArchiveWrite, Done, TypeOK
        <2>6. CASE LeaveOthers(s) \/ RemoveTarget(s)
            <3>1. UNCHANGED role
                BY <2>6 DEF LeaveOthers, RemoveTarget, Channel
            <3>2. \/ req' = [req EXCEPT ![s] = Idle]
                  \/ \E step \in {"leave.deactivate", "remove.deactivate"} :
                        req' = [req EXCEPT ![s].pc = step]
                BY <2>6 DEF LeaveOthers, RemoveTarget, Done, Goto
            <3> QED
                BY <3>1, <3>2 DEF Promoting, TypeOK, InFlight
        <2>7. CASE LeaveDeactivate(s) \/ RemoveDeactivate(s)
            <3>1. UNCHANGED role
                BY <2>7 DEF LeaveDeactivate, RemoveDeactivate
            <3>2. \E step \in {"leave.count", "remove.count"} :
                      req' = [req EXCEPT ![s].pc = step]
                BY <2>7 DEF LeaveDeactivate, RemoveDeactivate, Goto
            <3> QED
                BY <3>1, <3>2 DEF Promoting, TypeOK, InFlight
        <2>8. CASE AddRead(s)
            BY <2>8 DEF AddRead, Promoting, TypeOK, InFlight, Channel
        <2>9. CASE AddReactivate(s)
            BY <2>9 DEF AddReactivate, AddPushed, Promoting, TypeOK, InFlight
        <2> QED
            BY <1>8, <2>2, <2>3, <2>4, <2>5, <2>6, <2>7, <2>8, <2>9 DEF Continue
    <1> QED
        BY <1>1, <1>6, <1>7, <1>8

THEOREM NoOwnerFromNowhere == Spec => OwnerlessForever
    BY TypeCorrect, OwnerlessStep, PTL DEF Spec, OwnerlessForever

-----------------------------------------------------------------------------
\* The only steps of a slot that write a role are those of updateMemberRole and the
\* INSERT of addMembers.
NoOwnerMade == \A u \in Users : role'[u] = "owner" => role[u] = "owner"

\* One step is taken in one slot.
LEMMA OneAtATime ==
    ASSUME TypeOK, NEW s \in Slots, Arrive(s) \/ Continue(s) \/ Abort(s)
    PROVE  \A t \in Slots \ {s} : req'[t] = req[t]
    <1>1. CASE Arrive(s)
        BY <1>1 DEF Arrive, LeaveRole, RemoveCheck, AddCheck, RoleCheck, ArchiveCheck, DeleteCheck,
                    Begin, TypeOK
    <1>2. CASE Abort(s)
        BY <1>2 DEF Abort, Done, TypeOK
    <1>3. CASE Continue(s)
        BY <1>3 DEF Continue, LeaveOthers, LeaveDeactivate, LeaveCount, RemoveTarget, RemoveDeactivate,
                    RemoveCount, AddRead, AddReactivate, AddInsert, AddCount, RoleDemote, RoleSet,
                    ArchiveWrite, AddPushed, Done, Goto, TypeOK
    <1> QED
        BY <1>1, <1>2, <1>3

\* A step that is no RoleCheck, RoleDemote or RoleSet makes no owner, and its slot
\* transfers nothing.
LEMMA OtherSteps ==
    ASSUME TypeOK, NEW s \in Slots, Arrive(s) \/ Continue(s) \/ Abort(s),
           ~RoleDemote(s), ~RoleSet(s),
           \A u, t \in Users, r \in Roles : ~RoleCheck(s, u, t, r)
    PROVE  NoOwnerMade /\ ~Promoting(req'[s]) /\ rivals' = rivals
    <1>1. ASSUME req'[s].pc \notin {"role.demote", "role.set"} PROVE ~Promoting(req'[s])
        BY <1>1 DEF Promoting
    <1>2. CASE Arrive(s)
        <2>1. UNCHANGED <<role, rivals>>
            BY <1>2 DEF Arrive, LeaveRole, RemoveCheck, AddCheck, ArchiveCheck, DeleteCheck, Channel
        <2>2. PICK step \in {"leave.others", "leave.deactivate", "remove.target", "add.next",
                             "archive.write"}, a \in Users, t \in Users,
                   list \in UserLists \cup {<<>>}, f \in BOOLEAN :
                  req' = [req EXCEPT ![s] = Call(step, a, t, "member", list, f)]
            BY <1>2 DEF Arrive, LeaveRole, RemoveCheck, AddCheck, ArchiveCheck, DeleteCheck, Begin
        <2>3. req'[s].pc = step
            BY <2>2 DEF Call, TypeOK
        <2> QED
            BY <1>1, <2>1, <2>3 DEF NoOwnerMade
    <1>3. CASE Abort(s)
        BY <1>1, <1>3 DEF Abort, Done, Channel, NoOwnerMade, TypeOK, Idle
    <1>4. CASE Continue(s)
        <2>1. req[s] \in InFlight
            BY <1>4, InFlightShape
            DEF Continue, Steps, LeaveOthers, LeaveDeactivate, LeaveCount, RemoveTarget,
                RemoveDeactivate, RemoveCount, AddRead, AddReactivate, AddInsert,
                AddCount, RoleDemote, RoleSet, ArchiveWrite
        <2>2. NoOwnerMade /\ rivals' = rivals
            BY <1>4 DEF Continue, LeaveOthers, LeaveDeactivate, LeaveCount, RemoveTarget,
                RemoveDeactivate, RemoveCount, AddRead, AddReactivate, AddInsert, AddCount,
                ArchiveWrite, Channel, history, NoOwnerMade, TypeOK
        <2>3. req'[s].pc \notin {"role.demote", "role.set"}
            <3>1. CASE req' = [req EXCEPT ![s] = Idle]
                BY <3>1 DEF Idle, TypeOK
            <3>2. CASE AddPushed(s)
                BY <2>1, <3>2 DEF AddPushed, InFlight, TypeOK
            <3>3. CASE AddRead(s)
                BY <2>1, <3>3 DEF AddRead, InFlight, TypeOK
            <3>4. ASSUME NEW step \in Steps \ {"role.demote", "role.set"}, Goto(s, step)
                  PROVE  req'[s].pc \notin {"role.demote", "role.set"}
                BY <2>1, <3>4 DEF Goto, InFlight, TypeOK
            <3> QED
                BY <1>4, <3>1, <3>2, <3>3, <3>4
                DEF Continue, LeaveOthers, LeaveDeactivate, LeaveCount, RemoveTarget, RemoveDeactivate,
                    RemoveCount, AddReactivate, AddInsert, AddCount, ArchiveWrite, Done, Steps
        <2> QED
            BY <1>1, <2>2, <2>3
    <1> QED
        BY <1>2, <1>3, <1>4

-----------------------------------------------------------------------------
\* AtMostOneOwner.  As long as no two transfers overlap there is one at most, the
\* owner it is about to demote is the only one, and none is left when it promotes.
TransferAlone ==
    rivals \/
        /\ AtMostOneOwner
        /\ \A s, t \in Slots : Promoting(req[s]) /\ Promoting(req[t]) => s = t
        /\ \A s \in Slots, u \in Users :
               Promoting(req[s]) /\ role[u] = "owner" => req[s].pc = "role.demote" /\ u = req[s].actor

LEMMA TransferInit == Init => TransferAlone
    <1> SUFFICES ASSUME Init PROVE TransferAlone
        OBVIOUS
    <1>1. \A s \in Slots : ~Promoting(req[s])
        BY DEF Init, Promoting, Idle
    <1>2. AtMostOneOwner
        BY DEF Init, AtMostOneOwner
    <1> QED
        BY <1>1, <1>2 DEF TransferAlone

LEMMA TransferStep == TypeOK /\ TransferAlone /\ [Next]_vars => TransferAlone'
    <1> SUFFICES ASSUME TypeOK, TransferAlone, [Next]_vars PROVE TransferAlone'
        OBVIOUS
    <1>1. CASE UNCHANGED vars
        BY <1>1 DEF vars, history, TransferAlone, AtMostOneOwner
    <1>2. ASSUME NEW s \in Slots, Arrive(s) \/ Continue(s) \/ Abort(s) PROVE TransferAlone'
        <2>1. \A t \in Slots \ {s} : req'[t] = req[t]
            BY <1>2, OneAtATime
        <2>2. ASSUME NEW u \in Users, NEW t \in Users, NEW r \in Roles, RoleCheck(s, u, t, r)
              PROVE  TransferAlone'
            <3>1. /\ role' = role /\ role[u] = "owner" /\ req[s] = Idle
                  /\ rivals' = (rivals \/ (r = "owner" /\ \E o \in Slots : Promoting(req[o])))
                BY <2>2 DEF RoleCheck, IsOwner, Begin, Channel
            <3>2. /\ req'[s].actor = u /\ req'[s].newRole = r
                  /\ req'[s].pc = IF r = "owner" THEN "role.demote" ELSE "role.set"
                BY <2>2 DEF RoleCheck, Begin, Call, TypeOK
            <3>3. ~Promoting(req[s])
                BY <3>1 DEF Idle, Promoting
            <3>4. CASE r = "owner"
                <4>1. Promoting(req'[s]) /\ req'[s].pc = "role.demote"
                    BY <3>2, <3>4 DEF Promoting
                <4> QED
                    BY <2>1, <3>1, <3>2, <3>4, <4>1 DEF TransferAlone, AtMostOneOwner
            <3>5. CASE r # "owner"
                <4>1. ~Promoting(req'[s])
                    BY <3>2, <3>5 DEF Promoting
                <4> QED
                    BY <2>1, <3>1, <3>5, <4>1 DEF TransferAlone, AtMostOneOwner
            <3> QED
                BY <3>4, <3>5
        <2>3. CASE RoleDemote(s)
            <3>1. req[s] \in InFlight /\ req[s].pc = "role.demote" /\ req[s].actor \in Users
                BY <2>3, InFlightShape, AboutUsers DEF RoleDemote, Steps
            <3>2. /\ role' = [role EXCEPT ![req[s].actor] = "admin"] /\ rivals' = rivals
                  /\ req' = [req EXCEPT ![s] = [req[s] EXCEPT !.pc = "role.set"]]
                BY <2>3 DEF RoleDemote, Goto, history
            <3>3. req'[s] = [req[s] EXCEPT !.pc = "role.set"]
                BY <3>2 DEF TypeOK
            <3>4. Promoting(req'[s]) <=> Promoting(req[s])
                BY <3>1, <3>3 DEF Promoting, InFlight
            <3>5. NoOwnerMade /\ role'[req[s].actor] = "admin"
                BY <3>1, <3>2 DEF NoOwnerMade, TypeOK
            <3>6. \A t \in Slots : Promoting(req'[t]) <=> Promoting(req[t])
                BY <2>1, <3>4
            <3>7. CASE Promoting(req[s])
                BY <2>1, <3>2, <3>5, <3>6, <3>7 DEF TransferAlone, AtMostOneOwner, NoOwnerMade
            <3>8. CASE ~Promoting(req[s])
                BY <2>1, <3>2, <3>5, <3>6, <3>8 DEF TransferAlone, AtMostOneOwner, NoOwnerMade
            <3> QED
                BY <3>7, <3>8
        <2>4. CASE RoleSet(s)
            <3>1. /\ req[s] \in InFlight /\ req[s].pc = "role.set"
                  /\ req[s].target \in Users /\ req[s].newRole \in Roles
                BY <2>4, InFlightShape, AboutUsers DEF RoleSet, Steps
            <3>2. rivals' = rivals /\ ~Promoting(req'[s])
                BY <2>4 DEF RoleSet, Done, TypeOK, Idle, Promoting
            <3>3. /\ \A u \in Users \ {req[s].target} : role'[u] = role[u]
                  /\ role'[req[s].target] \in {role[req[s].target], req[s].newRole}
                BY <2>4, <3>1 DEF RoleSet, TypeOK
            <3>4. CASE req[s].newRole = "owner"
                <4>1. Promoting(req[s])
                    BY <3>1, <3>4 DEF Promoting
                <4> QED
                    BY <2>1, <3>1, <3>2, <3>3, <4>1 DEF TransferAlone, AtMostOneOwner
            <3>5. CASE req[s].newRole # "owner"
                <4>1. NoOwnerMade
                    BY <3>1, <3>3, <3>5 DEF NoOwnerMade
                <4> QED
                    BY <2>1, <3>2, <4>1 DEF TransferAlone, AtMostOneOwner, NoOwnerMade
            <3> QED
                BY <3>4, <3>5
        <2>5. CASE /\ ~RoleDemote(s) /\ ~RoleSet(s)
                   /\ \A u, t \in Users, r \in Roles : ~RoleCheck(s, u, t, r)
            <3>1. NoOwnerMade /\ ~Promoting(req'[s]) /\ rivals' = rivals
                BY <1>2, <2>5, OtherSteps
            <3> QED
                BY <2>1, <3>1 DEF TransferAlone, AtMostOneOwner, NoOwnerMade
        <2> QED
            BY <2>2, <2>3, <2>4, <2>5
    <1> QED
        BY <1>1, <1>2 DEF Next

\* AtMostOneOwner, however requests interleave and whichever are lost: unless two
\* transfers overlapped, no channel has two owner rows (updateMemberRole).
THEOREM SingleOwner == Spec => []AtMostOneOwner
    <1>1. TransferAlone => AtMostOneOwner
        BY DEF TransferAlone, AtMostOneOwner
    <1> QED
        BY <1>1, TypeCorrect, TransferInit, TransferStep, PTL DEF Spec

-----------------------------------------------------------------------------
\* OwnerLeavesLast.  Whoever is about to deactivate a row and is not stale knows
\* what it relies on: an owner who leaves is alone, a member who is removed no
\* owner.
Knows(s) ==
    /\ req[s].pc = "leave.deactivate" /\ role[req[s].actor] = "owner" => Active \subseteq {req[s].actor}
    /\ req[s].pc = "remove.deactivate" => role[req[s].target] # "owner"

KnowsWell == \A s \in Slots \ stale : Knows(s)

LEMMA KnowsInit == Init => KnowsWell
    BY DEF Init, KnowsWell, Knows, Idle

\* A slot whose own step it is not keeps what it knows, if nobody joins and nobody
\* is made an owner.
LEMMA KnowsOn ==
    ASSUME TypeOK, NEW t \in Slots, Knows(t), req'[t] = req[t], NoOwnerMade,
           req[t].pc = "leave.deactivate" => Active' \subseteq Active
    PROVE  Knows(t)'
    <1>1. req[t].pc \in {"leave.deactivate", "remove.deactivate"} =>
              req[t].actor \in Users /\ req[t].target \in Users
        BY AboutUsers DEF Steps
    <1> QED
        BY <1>1 DEF Knows, NoOwnerMade

LEMMA KnowsStep == TypeOK /\ KnowsWell /\ [Next]_vars => KnowsWell'
    <1> SUFFICES ASSUME TypeOK, KnowsWell, [Next]_vars PROVE KnowsWell'
        OBVIOUS
    <1>1. CASE UNCHANGED vars
        BY <1>1 DEF vars, history, KnowsWell, Knows, Active
    <1>2. ASSUME NEW s \in Slots, Arrive(s) \/ Continue(s) \/ Abort(s) PROVE KnowsWell'
        <2>1. \A t \in Slots \ {s} : req'[t] = req[t]
            BY <1>2, OneAtATime
        <2>2. ASSUME stale \ {s} \subseteq stale', NoOwnerMade, Active' \subseteq Active, Knows(s)'
              PROVE  KnowsWell'
            BY <2>1, <2>2, KnowsOn DEF KnowsWell
        <2>3. ASSUME req'[s].pc \notin {"leave.deactivate", "remove.deactivate"} PROVE Knows(s)'
            BY <2>3 DEF Knows
        <2>4. ASSUME UNCHANGED role PROVE NoOwnerMade
            BY <2>4 DEF NoOwnerMade
        <2>5. ASSUME UNCHANGED row PROVE Active' = Active
            BY <2>5 DEF Active
        <2>6. CASE Arrive(s)
            <3>1. UNCHANGED Channel /\ stale' = stale \ {s}
                BY <2>6 DEF Arrive, LeaveRole, RemoveCheck, AddCheck, RoleCheck, ArchiveCheck,
                            DeleteCheck, Begin
            <3>2. ASSUME NEW u \in Users, LeaveRole(s, u) PROVE Knows(s)'
                <4>1. /\ req'[s].actor = u /\ role' = role
                      /\ req'[s].pc = IF role[u] = "owner" THEN "leave.others" ELSE "leave.deactivate"
                    BY <3>2 DEF LeaveRole, Begin, Call, Channel, TypeOK
                <4> QED
                    BY <4>1 DEF Knows
            <3>3. ASSUME \A u \in Users : ~LeaveRole(s, u) PROVE Knows(s)'
                <4>1. req'[s].pc \in {"remove.target", "add.next", "role.demote", "role.set", "archive.write"}
                    BY <2>6, <3>3 DEF Arrive, RemoveCheck, AddCheck, RoleCheck, ArchiveCheck, DeleteCheck,
                                      Begin, Call, TypeOK
                <4> QED
                    BY <2>3, <4>1
            <3> QED
                BY <2>2, <2>4, <2>5, <3>1, <3>2, <3>3 DEF Channel
        <2>7. CASE Abort(s)
            <3>1. UNCHANGED <<Channel, stale>> /\ req'[s].pc = "idle"
                BY <2>7 DEF Abort, Done, Idle, TypeOK
            <3> QED
                BY <2>2, <2>3, <2>4, <2>5, <3>1 DEF Channel
        <2>8. CASE Continue(s)
            <3>1. req[s] \in InFlight
                BY <2>8, InFlightShape
                DEF Continue, Steps, LeaveOthers, LeaveDeactivate, LeaveCount, RemoveTarget,
                    RemoveDeactivate, RemoveCount, AddRead, AddReactivate, AddInsert,
                    AddCount, RoleDemote, RoleSet, ArchiveWrite
            <3>2. ASSUME Done(s) PROVE Knows(s)'
                BY <2>3, <3>2 DEF Done, Idle, TypeOK
            <3>3. ASSUME NEW step \in Steps, Goto(s, step) PROVE req'[s] = [req[s] EXCEPT !.pc = step]
                BY <3>3 DEF Goto, TypeOK
            <3>4. CASE LeaveOthers(s)
                <4>1. UNCHANGED <<Channel, stale>>
                    BY <3>4 DEF LeaveOthers, history
                <4>2. CASE Active \ {req[s].actor} = {}
                    <5>1. req'[s] = [req[s] EXCEPT !.pc = "leave.deactivate"]
                        BY <3>3, <3>4, <4>2 DEF LeaveOthers, Steps
                    <5>2. req'[s].actor = req[s].actor /\ req'[s].pc = "leave.deactivate"
                        BY <3>1, <5>1 DEF InFlight
                    <5>3. Active' \subseteq {req'[s].actor}
                        BY <2>5, <4>1, <4>2, <5>2 DEF Channel
                    <5> QED
                        BY <2>2, <2>4, <2>5, <4>1, <5>2, <5>3 DEF Channel, Knows
                <4>3. CASE Active \ {req[s].actor} # {}
                    BY <2>2, <2>4, <2>5, <3>2, <3>4, <4>1, <4>3 DEF LeaveOthers, Channel
                <4> QED
                    BY <4>2, <4>3
            <3>5. CASE RemoveTarget(s)
                <4>1. UNCHANGED <<Channel, stale>>
                    BY <3>5 DEF RemoveTarget, history
                <4>2. CASE Done(s)
                    BY <2>2, <2>4, <2>5, <3>2, <4>1, <4>2 DEF Channel
                <4>3. CASE ~Done(s)
                    <5>1. role[req[s].target] # "owner" /\ req'[s] = [req[s] EXCEPT !.pc = "remove.deactivate"]
                        BY <3>3, <3>5, <4>3 DEF RemoveTarget, Steps
                    <5>2. req'[s].target = req[s].target /\ req'[s].pc = "remove.deactivate"
                        BY <3>1, <5>1 DEF InFlight
                    <5> QED
                        BY <2>2, <2>4, <2>5, <4>1, <5>1, <5>2 DEF Channel, Knows
                <4> QED
                    BY <4>2, <4>3
            <3>6. CASE LeaveDeactivate(s) \/ RemoveDeactivate(s)
                <4>1. UNCHANGED <<role, stale>> /\ Active' \subseteq Active
                    BY <3>6 DEF LeaveDeactivate, RemoveDeactivate, Deactivate, Active, TypeOK
                <4>2. req'[s] = [req[s] EXCEPT !.pc = "leave.count"] \/ req'[s] = [req[s] EXCEPT !.pc = "remove.count"]
                    BY <3>3, <3>6 DEF LeaveDeactivate, RemoveDeactivate, Steps
                <4>3. req'[s].pc \in {"leave.count", "remove.count"}
                    BY <3>1, <4>2 DEF InFlight
                <4> QED
                    BY <2>2, <2>3, <2>4, <4>1, <4>3
            <3>7. CASE LeaveCount(s) \/ RemoveCount(s) \/ AddCount(s) \/ ArchiveWrite(s)
                <4>1. UNCHANGED <<row, role, stale>> /\ Done(s)
                    BY <3>7 DEF LeaveCount, RemoveCount, AddCount, ArchiveWrite, history
                <4> QED
                    BY <2>2, <2>4, <2>5, <3>2, <4>1
            <3>8. CASE AddRead(s)
                <4>1. UNCHANGED <<row, role, stale>>
                    BY <3>8 DEF AddRead, Channel, history
                <4>2. req'[s].pc \in {"add.next", "add.reactivate", "add.insert"}
                    BY <3>1, <3>8 DEF AddRead, InFlight, TypeOK
                <4> QED
                    BY <2>2, <2>3, <2>4, <2>5, <4>1, <4>2
            <3>9. CASE AddReactivate(s) \/ AddInsert(s)
                <4>1. NoOwnerMade
                    BY <3>9 DEF AddReactivate, AddInsert, NoOwnerMade, TypeOK
                <4>2. req'[s].pc \in {"add.next", "idle"}
                    BY <3>1, <3>9 DEF AddReactivate, AddInsert, AddPushed, Done, Idle, InFlight, TypeOK
                <4>3. \/ stale' = stale /\ UNCHANGED row
                      \/ stale' = stale \cup {t \in Slots : req[t].pc = "leave.deactivate"}
                    BY <3>9 DEF AddReactivate, AddInsert, Joined
                <4>4. CASE stale' = stale /\ UNCHANGED row
                    BY <2>2, <2>3, <2>5, <4>1, <4>2, <4>4
                <4>5. CASE stale' = stale \cup {t \in Slots : req[t].pc = "leave.deactivate"}
                    <5>1. ASSUME NEW t \in Slots \ stale', t # s PROVE Knows(t)'
                        BY <2>1, <4>1, <4>5, <5>1, KnowsOn DEF KnowsWell
                    <5> QED
                        BY <2>3, <4>2, <5>1 DEF KnowsWell
                <4> QED
                    BY <4>3, <4>4, <4>5
            <3>10. CASE RoleDemote(s)
                <4>1. NoOwnerMade /\ UNCHANGED <<row, stale>>
                    BY <3>10 DEF RoleDemote, NoOwnerMade, history, TypeOK
                <4>2. req'[s] = [req[s] EXCEPT !.pc = "role.set"]
                    BY <3>3, <3>10 DEF RoleDemote, Steps
                <4>3. req'[s].pc = "role.set"
                    BY <3>1, <4>2 DEF InFlight
                <4> QED
                    BY <2>2, <2>3, <2>5, <4>1, <4>3
            <3>11. CASE RoleSet(s)
                <4> DEFINE u == req[s].target
                <4>1. /\ UNCHANGED row /\ Knows(s)' /\ u \in Users /\ req[s].pc = "role.set"
                      /\ stale' = stale \cup {o \in Slots : Promoting(req[s]) /\ Deactivating(req[o], u)}
                    BY <3>1, <3>2, <3>11 DEF RoleSet, InFlight
                <4>2. /\ \A v \in Users \ {u} : role'[v] = role[v]
                      /\ role'[u] \in {role[u], req[s].newRole}
                    BY <3>11, <4>1 DEF RoleSet, TypeOK
                <4>3. CASE req[s].newRole # "owner"
                    <5>1. NoOwnerMade
                        BY <4>1, <4>2, <4>3 DEF NoOwnerMade
                    <5> QED
                        BY <2>2, <2>5, <4>1, <5>1
                <4>4. CASE req[s].newRole = "owner"
                    <5>1. Promoting(req[s])
                        BY <4>1, <4>4 DEF Promoting
                    <5>2. ASSUME NEW t \in Slots \ stale', t # s PROVE Knows(t)'
                        <6>1. Knows(t) /\ ~Deactivating(req[t], u) /\ req'[t] = req[t]
                            BY <2>1, <4>1, <5>1, <5>2 DEF KnowsWell
                        <6>2. req[t].pc \in {"leave.deactivate", "remove.deactivate"} =>
                                  req[t].actor \in Users /\ req[t].target \in Users
                            BY AboutUsers DEF Steps
                        <6>3. Active' = Active
                            BY <2>5, <4>1
                        <6> QED
                            BY <4>2, <6>1, <6>2, <6>3 DEF Knows, Deactivating
                    <5> QED
                        BY <4>1, <5>2 DEF KnowsWell
                <4> QED
                    BY <4>3, <4>4
            <3> QED
                BY <2>8, <3>4, <3>5, <3>6, <3>7, <3>8, <3>9, <3>10, <3>11 DEF Continue
        <2> QED
            BY <1>2, <2>6, <2>7, <2>8
    <1> QED
        BY <1>1, <1>2 DEF Next

LEMMA OwnerLeavesLastStep ==
    ASSUME TypeOK, KnowsWell, Next, NEW u \in Users, IsOwner(u), row'[u] = "inactive"
    PROVE  Active = {u} \/ \E s \in stale : Deactivating(req[s], u)
    <1>1. PICK s \in Slots : Arrive(s) \/ Continue(s) \/ Abort(s)
        BY DEF Next
    <1>2. row' # row /\ u \in Active
        BY DEF IsOwner, Active
    <1>3. Continue(s)
        BY <1>1, <1>2 DEF Arrive, LeaveRole, RemoveCheck, AddCheck, RoleCheck, ArchiveCheck,
                          DeleteCheck, Abort, Channel
    <1>4. LeaveDeactivate(s) \/ RemoveDeactivate(s) \/ AddReactivate(s) \/ AddInsert(s)
        BY <1>2, <1>3 DEF Continue, LeaveOthers, LeaveCount, RemoveTarget, RemoveCount,
                          AddRead, AddCount, RoleDemote, RoleSet, ArchiveWrite, Channel
    <1>5. ~AddReactivate(s) /\ ~AddInsert(s)
        BY DEF AddReactivate, AddInsert, Joined, IsOwner, TypeOK
    <1>6. CASE LeaveDeactivate(s)
        <2>1. u = req[s].actor /\ req[s].pc = "leave.deactivate"
            BY <1>6 DEF LeaveDeactivate, Deactivate, IsOwner, TypeOK
        <2> QED
            BY <1>2, <2>1 DEF KnowsWell, Knows, Deactivating, IsOwner
    <1>7. CASE RemoveDeactivate(s)
        <2>1. u = req[s].target /\ req[s].pc = "remove.deactivate"
            BY <1>7 DEF RemoveDeactivate, Deactivate, IsOwner, TypeOK
        <2> QED
            BY <2>1 DEF KnowsWell, Knows, Deactivating, IsOwner
    <1> QED
        BY <1>4, <1>5, <1>6, <1>7

\* OwnerLeavesLast, however requests interleave: an owner goes while another member
\* is active only if the member was added, or the owner became one, after
\* leaveChannel or removeMember had looked.
THEOREM OwnerGoesLast == Spec => OwnerLeavesLast
    <1>1. TypeOK /\ KnowsWell /\ [Next]_vars =>
              [\A u \in Users : IsOwner(u) /\ row'[u] = "inactive" =>
                   Active = {u} \/ \E s \in stale : Deactivating(req[s], u)]_vars
        BY OwnerLeavesLastStep
    <1> QED
        BY <1>1, TypeCorrect, KnowsInit, KnowsStep, PTL DEF Spec, OwnerLeavesLast

-----------------------------------------------------------------------------
\* CountSettled.  The counter, with the additions that are not credited yet and
\* without the deactivations that are not debited, is the number of active rows,
\* but for the drift.
Adding == {"add.next", "add.reactivate", "add.insert"}
Counting == {"leave.count", "remove.count"}
Credit(r) == IF r.pc \in Adding THEN r.added ELSE 0
Credits == {p \in Slots \X Nat : 1 <= p[2] /\ p[2] <= Credit(req[p[1]])}
Debits == {s \in Slots : req[s].pc \in Counting}
Outstanding == Cardinality(Credits) - Cardinality(Debits)

CountExact ==
    /\ IsFiniteSet(Credits)
    /\ memberCount + Outstanding = Cardinality(Active) + drift
    /\ \A s \in Slots : req[s].pc \in {"add.reactivate", "add.insert"} => req[s].todo # <<>>

\* The credits of one slot, as many as it has added.
Mine(s, n) == {<<s, i>> : i \in 1..n}

LEMMA MineCounts ==
    ASSUME NEW s, NEW n \in Nat
    PROVE  IsFiniteSet(Mine(s, n)) /\ Cardinality(Mine(s, n)) = n
    <1> DEFINE f == [i \in 1..n |-> <<s, i>>]
    <1>1. f \in Bijection(1..n, Mine(s, n))
        <2>1. f \in [1..n -> Mine(s, n)]
            BY DEF Mine
        <2>2. \A i, j \in 1..n : f[i] = f[j] => i = j
            OBVIOUS
        <2>3. \A p \in Mine(s, n) : \E i \in 1..n : f[i] = p
            BY DEF Mine
        <2> HIDE DEF f
        <2> QED
            BY <2>1, <2>2, <2>3 DEF Bijection, Injection, Surjection, IsInjective
    <1>2. ExistsBijection(1..n, Mine(s, n))
        BY <1>1 DEF ExistsBijection
    <1>3. IsFiniteSet(1..n) /\ Cardinality(1..n) = n
        BY FS_Interval
    <1> QED
        BY <1>2, <1>3, FS_Bijection

LEMMA CreditType == ASSUME TypeOK, NEW s \in Slots PROVE Credit(req[s]) \in Nat
    BY InFlightShape DEF Credit, Adding, Steps, InFlight

LEMMA DebitsFinite == IsFiniteSet(Debits) /\ Cardinality(Debits) \in Nat
    <1>1. IsFiniteSet(Debits)
        BY FS_Subset, SlotsAssumption DEF Debits
    <1> QED
        BY <1>1, FS_CardinalityType

LEMMA OwedSplit ==
    ASSUME NEW r
    PROVE  /\ Owed(r) = IF r.pc \in Counting THEN -1 ELSE Credit(r)
           /\ r.pc \in Counting => Credit(r) = 0
    BY DEF Owed, Credit, Adding, Counting

\* A step of one slot changes what is outstanding by what that slot owes.
LEMMA CreditsMove ==
    ASSUME TypeOK, TypeOK', IsFiniteSet(Credits), NEW s \in Slots,
           \A t \in Slots \ {s} : req'[t] = req[t]
    PROVE  /\ IsFiniteSet(Credits')
           /\ Cardinality(Credits) \in Nat /\ Cardinality(Credits') \in Nat
           /\ Cardinality(Credits') - Credit(req'[s]) = Cardinality(Credits) - Credit(req[s])
    <1> DEFINE n == Credit(req[s])
               m == Credit(req'[s])
               Rest == {p \in Credits : p[1] # s}
    <1>1. n \in Nat /\ m \in Nat
        BY CreditType DEF Credit, Adding, TypeOK, InFlight, Idle
    <1>2. Credits = Rest \cup Mine(s, n)
        BY <1>1 DEF Credits, Mine
    <1>3. Credits' = Rest \cup Mine(s, m)
        <2>1. \A t \in Slots \ {s} : Credit(req'[t]) = Credit(req[t])
            OBVIOUS
        <2> QED
            BY <1>1, <2>1 DEF Credits, Mine
    <1>4. Rest \cap Mine(s, n) = {} /\ Rest \cap Mine(s, m) = {}
        BY DEF Mine
    <1>5. IsFiniteSet(Rest) /\ Cardinality(Rest) \in Nat
        BY FS_Subset, FS_CardinalityType
    <1> HIDE DEF n, m, Rest
    <1>6. ASSUME NEW k \in Nat, Rest \cap Mine(s, k) = {}
          PROVE  /\ IsFiniteSet(Rest \cup Mine(s, k))
                 /\ Cardinality(Rest \cup Mine(s, k)) = Cardinality(Rest) + k
        <2>1. IsFiniteSet(Mine(s, k)) /\ Cardinality(Mine(s, k)) = k
            BY MineCounts
        <2>2. Cardinality(Rest \cap Mine(s, k)) = 0
            BY <1>6, FS_EmptySet
        <2> QED
            BY <1>5, <2>1, <2>2, FS_Union
    <1>7. IsFiniteSet(Credits') /\ Cardinality(Credits') = Cardinality(Rest) + m
        BY <1>1, <1>3, <1>4, <1>6
    <1>8. Cardinality(Credits) = Cardinality(Rest) + n
        BY <1>1, <1>2, <1>4, <1>6
    <1>9. Cardinality(Credits') - m = Cardinality(Credits) - n
        BY <1>1, <1>5, <1>7, <1>8
    <1>10. Cardinality(Credits) \in Nat /\ Cardinality(Credits') \in Nat
        BY <1>1, <1>5, <1>7, <1>8
    <1> QED
        BY <1>7, <1>9, <1>10 DEF n, m

LEMMA DebitsMove ==
    ASSUME TypeOK, TypeOK', NEW s \in Slots, \A t \in Slots \ {s} : req'[t] = req[t]
    PROVE  /\ Cardinality(Debits) \in Nat /\ Cardinality(Debits') \in Nat
           /\ Cardinality(Debits') - (IF req'[s].pc \in Counting THEN 1 ELSE 0)
                = Cardinality(Debits) - (IF req[s].pc \in Counting THEN 1 ELSE 0)
    <1> DEFINE Rest == Debits \ {s}
    <1>1. IsFiniteSet(Rest) /\ Cardinality(Rest) \in Nat /\ s \notin Rest
        BY DebitsFinite, FS_Subset, FS_CardinalityType
    <1>2. Debits = IF req[s].pc \in Counting THEN Rest \cup {s} ELSE Rest
        BY DEF Debits
    <1>3. Debits' = IF req'[s].pc \in Counting THEN Rest \cup {s} ELSE Rest
        BY DEF Debits
    <1>4. Cardinality(Rest \cup {s}) = Cardinality(Rest) + 1
        BY <1>1, FS_AddElement
    <1> HIDE DEF Rest
    <1> QED
        BY <1>1, <1>2, <1>3, <1>4

LEMMA OutstandingMoves ==
    ASSUME TypeOK, TypeOK', IsFiniteSet(Credits), NEW s \in Slots,
           \A t \in Slots \ {s} : req'[t] = req[t]
    PROVE  /\ IsFiniteSet(Credits')
           /\ Outstanding \in Int /\ Outstanding' \in Int
           /\ Owed(req[s]) \in Int /\ Owed(req'[s]) \in Int
           /\ Outstanding' - Owed(req'[s]) = Outstanding - Owed(req[s])
    <1>1. /\ Owed(req[s]) = Credit(req[s]) - (IF req[s].pc \in Counting THEN 1 ELSE 0)
          /\ Owed(req'[s]) = Credit(req'[s]) - (IF req'[s].pc \in Counting THEN 1 ELSE 0)
        <2>1. Credit(req[s]) \in Nat /\ Credit(req'[s]) \in Nat
            BY CreditType DEF Credit, Adding, TypeOK, InFlight, Idle
        <2> QED
            BY <2>1, OwedSplit
    <1>2. Credit(req[s]) \in Nat /\ Credit(req'[s]) \in Nat
        BY CreditType DEF Credit, Adding, TypeOK, InFlight, Idle
    <1> QED
        BY <1>1, <1>2, CreditsMove, DebitsMove DEF Outstanding

LEMMA OwedIdle == Owed(Idle) = 0
    BY DEF Owed, Idle

LEMMA ActiveFinite == IsFiniteSet(Active) /\ Cardinality(Active) \in Nat
    <1>1. IsFiniteSet(Active)
        BY FS_Subset, UsersAssumption DEF Active
    <1> QED
        BY <1>1, FS_CardinalityType

LEMMA ActiveGains ==
    ASSUME TypeOK, NEW u \in Users, row' = [row EXCEPT ![u] = "active"]
    PROVE  Cardinality(Active') = IF row[u] = "active" THEN Cardinality(Active) ELSE Cardinality(Active) + 1
    <1>1. Active' = Active \cup {u} /\ (u \in Active <=> row[u] = "active")
        BY DEF Active, TypeOK
    <1> QED
        BY <1>1, ActiveFinite, FS_AddElement

LEMMA ActiveLoses ==
    ASSUME TypeOK, NEW u \in Users, row' = [row EXCEPT ![u] = "inactive"]
    PROVE  Cardinality(Active') = IF row[u] = "active" THEN Cardinality(Active) - 1 ELSE Cardinality(Active)
    <1>1. Active' = Active \ {u} /\ (u \in Active <=> row[u] = "active")
        BY DEF Active, TypeOK
    <1> QED
        BY <1>1, ActiveFinite, FS_RemoveElement

LEMMA CountInit == Init => CountExact
    <1> SUFFICES ASSUME Init PROVE CountExact
        OBVIOUS
    <1>1. PICK creator \in Users, invited \in SUBSET Users :
              /\ row = [u \in Users |-> IF u \in invited \cup {creator} THEN "active" ELSE "none"]
              /\ memberCount = Cardinality(invited \cup {creator})
        BY DEF Init
    <1>2. Active = invited \cup {creator} /\ drift = 0
        BY <1>1 DEF Active, Init
    <1>3. \A s \in Slots : req[s].pc = "idle"
        BY DEF Init, Idle
    <1>4. Credits = {} /\ Debits = {}
        BY <1>3 DEF Credits, Debits, Credit, Adding, Counting
    <1>5. IsFiniteSet(Credits) /\ Outstanding = 0
        BY <1>4, FS_EmptySet DEF Outstanding
    <1> QED
        BY <1>1, <1>2, <1>3, <1>5, ActiveFinite DEF CountExact

\* What a step writes to the counter and the rows it makes up for in what its slot
\* owes, or in the drift.
Balanced(s) ==
    memberCount' + Owed(req'[s]) - Cardinality(Active') - drift'
        = memberCount + Owed(req[s]) - Cardinality(Active) - drift

LEMMA StepBalances ==
    ASSUME TypeOK, TypeOK', CountExact, NEW s \in Slots, Arrive(s) \/ Continue(s) \/ Abort(s)
    PROVE  /\ Balanced(s)
           /\ req'[s].pc \in {"add.reactivate", "add.insert"} => req'[s].todo # <<>>
    <1>1. /\ memberCount \in Int /\ memberCount' \in Int /\ drift \in Int /\ drift' \in Int
          /\ Cardinality(Active) \in Nat
        BY ActiveFinite DEF TypeOK
    <1> DEFINE Kept == req'[s].pc \in {"add.reactivate", "add.insert"} => req'[s].todo # <<>>
    <1>2. ASSUME req'[s] = Idle PROVE Owed(req'[s]) = 0 /\ Kept
        BY <1>2, OwedIdle DEF Idle
    <1>3. ASSUME UNCHANGED <<row, memberCount, drift>>, Owed(req[s]) = 0, Owed(req'[s]) = 0 PROVE Balanced(s)
        BY <1>1, <1>3 DEF Active, Balanced
    <1>4. CASE Arrive(s)
        <2>1. req[s] = Idle /\ UNCHANGED <<row, memberCount, drift>>
            BY <1>4 DEF Arrive, LeaveRole, RemoveCheck, AddCheck, RoleCheck, ArchiveCheck,
                        DeleteCheck, Begin, Channel
        <2> DEFINE Firsts == {"leave.others", "leave.deactivate", "remove.target", "add.next",
                              "role.demote", "role.set", "archive.write"}
        <2>2. ASSUME NEW step \in Firsts, NEW a, NEW t, NEW r, NEW list, NEW f,
                     Begin(s, Call(step, a, t, r, list, f))
              PROVE  req'[s].pc \in Firsts /\ req'[s].added = 0
            BY <2>2 DEF Begin, Call, TypeOK
        <2>3. req'[s].pc \in Firsts /\ req'[s].added = 0
            <3>1. CASE \E u \in Users : LeaveRole(s, u)
                <4>1. PICK u \in Users : LeaveRole(s, u)
                    BY <3>1
                <4> DEFINE step == IF role[u] = "owner" THEN "leave.others" ELSE "leave.deactivate"
                <4>2. step \in Firsts
                    OBVIOUS
                <4>3. Begin(s, Call(step, u, u, "member", <<>>, FALSE))
                    BY <4>1 DEF LeaveRole
                <4> HIDE DEF step
                <4> QED
                    BY <2>2, <4>2, <4>3
            <3>2. CASE \E u, t \in Users, r \in Roles : RoleCheck(s, u, t, r)
                <4>1. PICK u, t \in Users, r \in Roles : RoleCheck(s, u, t, r)
                    BY <3>2
                <4> DEFINE step == IF r = "owner" THEN "role.demote" ELSE "role.set"
                <4>2. step \in Firsts
                    OBVIOUS
                <4>3. Begin(s, Call(step, u, t, r, <<>>, FALSE))
                    BY <4>1 DEF RoleCheck
                <4> HIDE DEF step
                <4> QED
                    BY <2>2, <4>2, <4>3
            <3>3. CASE \E u, t \in Users : RemoveCheck(s, u, t)
                BY <2>2, <3>3 DEF RemoveCheck
            <3>4. CASE \E u \in Users, list \in UserLists : AddCheck(s, u, list)
                BY <2>2, <3>4 DEF AddCheck
            <3>5. CASE \E u \in Users, flag \in BOOLEAN : ArchiveCheck(s, u, flag)
                BY <2>2, <3>5 DEF ArchiveCheck
            <3>6. CASE \E u \in Users : DeleteCheck(s, u)
                BY <2>2, <3>6 DEF DeleteCheck
            <3> QED
                BY <1>4, <3>1, <3>2, <3>3, <3>4, <3>5, <3>6 DEF Arrive
        <2>4. Owed(req'[s]) = 0 /\ Kept
            BY <2>3 DEF Owed
        <2> QED
            BY <1>3, <2>1, <2>4, OwedIdle
    <1>5. CASE Abort(s)
        <2>1. UNCHANGED <<row, memberCount>> /\ req'[s] = Idle /\ drift' = drift - Owed(req[s])
            BY <1>5 DEF Abort, Done, Channel, TypeOK
        <2>2. Owed(req[s]) \in Int
            BY OwedInt
        <2>3. Owed(req'[s]) = 0 /\ Kept /\ Active' = Active
            BY <1>2, <2>1 DEF Active
        <2>4. Balanced(s)
            BY <1>1, <2>1, <2>2, <2>3 DEF Balanced
        <2> QED
            BY <2>3, <2>4
    <1>6. CASE Continue(s)
        <2>1. req[s] \in InFlight
            BY <1>6, InFlightShape
            DEF Continue, Steps, LeaveOthers, LeaveDeactivate, LeaveCount, RemoveTarget,
                RemoveDeactivate, RemoveCount, AddRead, AddReactivate, AddInsert,
                AddCount, RoleDemote, RoleSet, ArchiveWrite
        <2>2. ASSUME Done(s) PROVE Owed(req'[s]) = 0 /\ Kept
            BY <1>2, <2>2 DEF Done, TypeOK
        <2>3. ASSUME NEW step \in Steps, Goto(s, step) PROVE req'[s].pc = step /\ req'[s].added = req[s].added
            BY <2>1, <2>3 DEF Goto, TypeOK, InFlight
        <2>4. CASE LeaveOthers(s) \/ RemoveTarget(s)
            <3>1. UNCHANGED <<row, memberCount, drift>> /\ Owed(req[s]) = 0
                BY <2>4 DEF LeaveOthers, RemoveTarget, Channel, history, Owed
            <3>2. Done(s) \/ Goto(s, "leave.deactivate") \/ Goto(s, "remove.deactivate")
                BY <2>4 DEF LeaveOthers, RemoveTarget
            <3>3. Owed(req'[s]) = 0 /\ Kept
                BY <2>2, <2>3, <3>2 DEF Owed, Steps
            <3> QED
                BY <1>3, <3>1, <3>3
        <2>5. CASE LeaveDeactivate(s) \/ RemoveDeactivate(s)
            <3>1. PICK u \in Users : Deactivate(u)
                BY <2>1, <2>5 DEF LeaveDeactivate, RemoveDeactivate, InFlight
            <3>2. Cardinality(Active') = IF row[u] = "active" THEN Cardinality(Active) - 1 ELSE Cardinality(Active)
                BY <3>1, ActiveLoses DEF Deactivate
            <3>3. Owed(req[s]) = 0 /\ UNCHANGED memberCount
                BY <2>5 DEF LeaveDeactivate, RemoveDeactivate, Owed
            <3>4. req'[s].pc \in {"leave.count", "remove.count"}
                BY <2>3, <2>5 DEF LeaveDeactivate, RemoveDeactivate, Steps
            <3>5. Owed(req'[s]) = -1
                BY <3>4 DEF Owed
            <3>6. \/ Cardinality(Active') = Cardinality(Active) - 1 /\ drift' = drift
                  \/ Cardinality(Active') = Cardinality(Active) /\ drift' = drift - 1
                BY <3>1, <3>2 DEF Deactivate
            <3>7. Balanced(s)
                BY <1>1, <3>3, <3>5, <3>6 DEF Balanced
            <3> QED
                BY <3>4, <3>7
        <2>6. CASE LeaveCount(s) \/ RemoveCount(s)
            <3>1. /\ Owed(req[s]) = -1 /\ memberCount' = memberCount - 1
                  /\ UNCHANGED <<row, drift>> /\ Done(s)
                BY <2>6 DEF LeaveCount, RemoveCount, Owed, history
            <3>2. Owed(req'[s]) = 0 /\ Kept /\ Active' = Active
                BY <2>2, <3>1 DEF Active
            <3>3. Balanced(s)
                BY <1>1, <3>1, <3>2 DEF Balanced
            <3> QED
                BY <3>2, <3>3
        <2>7. CASE AddRead(s)
            <3>1. /\ Owed(req[s]) = req[s].added /\ UNCHANGED <<row, memberCount, drift>>
                  /\ req[s].pc = "add.next" /\ req[s].todo # <<>>
                BY <2>7 DEF AddRead, Channel, history, Owed
            <3>2. \/ req' = [req EXCEPT ![s] = [req[s] EXCEPT !.todo = Tail(req[s].todo)]]
                  \/ req' = [req EXCEPT ![s] = [req[s] EXCEPT !.pc = "add.reactivate"]]
                  \/ req' = [req EXCEPT ![s] = [req[s] EXCEPT !.pc = "add.insert"]]
                BY <2>7 DEF AddRead
            <3>3. /\ req'[s].pc \in {"add.next", "add.reactivate", "add.insert"}
                  /\ req'[s].added = req[s].added /\ Kept
                BY <2>1, <3>1, <3>2 DEF TypeOK, InFlight
            <3>4. Owed(req'[s]) = req[s].added
                BY <3>3 DEF Owed
            <3> QED
                BY <3>1, <3>3, <3>4 DEF Balanced, Active
        <2>8. CASE AddReactivate(s)
            <3> DEFINE u == Head(req[s].todo)
            <3>1. u \in Users /\ req[s].added \in Nat
                BY <2>1, <2>8 DEF AddReactivate, CountExact, InFlight
            <3>2. Joined(u) /\ AddPushed(s) /\ drift' = IF row[u] = "active" THEN drift + 1 ELSE drift
                BY <2>8 DEF AddReactivate
            <3>3. memberCount' = memberCount /\ Owed(req[s]) = req[s].added /\ req[s].added \in Nat
                BY <2>8, <3>1 DEF AddReactivate, Owed
            <3>4. Cardinality(Active') = IF row[u] = "active" THEN Cardinality(Active) ELSE Cardinality(Active) + 1
                BY <3>1, <3>2, ActiveGains DEF Joined
            <3>5. req'[s].pc = "add.next" /\ req'[s].added = req[s].added + 1
                BY <2>1, <3>2 DEF AddPushed, TypeOK, InFlight
            <3>6. Owed(req'[s]) = req[s].added + 1
                BY <3>5 DEF Owed
            <3>7. Balanced(s)
                <4>1. \/ Cardinality(Active') = Cardinality(Active) /\ drift' = drift + 1
                      \/ Cardinality(Active') = Cardinality(Active) + 1 /\ drift' = drift
                    BY <3>2, <3>4
                <4> QED
                    BY <1>1, <3>3, <3>6, <4>1 DEF Balanced
            <3> QED
                BY <3>5, <3>7
        <2>9. CASE AddInsert(s)
            <3> DEFINE u == Head(req[s].todo)
            <3>1. u \in Users /\ req[s].added \in Nat /\ Owed(req[s]) = req[s].added /\ UNCHANGED memberCount
                BY <2>1, <2>9 DEF AddInsert, CountExact, InFlight, Owed
            <3>2. CASE row[u] = "none"
                <4>1. Joined(u) /\ AddPushed(s) /\ drift' = drift
                    BY <2>9, <3>2 DEF AddInsert
                <4>2. Cardinality(Active') = Cardinality(Active) + 1
                    BY <3>1, <3>2, <4>1, ActiveGains DEF Joined
                <4>3. req'[s].pc = "add.next" /\ req'[s].added = req[s].added + 1
                    BY <2>1, <4>1 DEF AddPushed, TypeOK, InFlight
                <4>4. Owed(req'[s]) = req[s].added + 1
                    BY <4>3 DEF Owed
                <4>5. Balanced(s)
                    BY <1>1, <3>1, <4>1, <4>2, <4>4 DEF Balanced
                <4> QED
                    BY <4>3, <4>5
            <3>3. CASE row[u] # "none"
                <4>1. Done(s) /\ drift' = drift - req[s].added /\ UNCHANGED row
                    BY <2>9, <3>3 DEF AddInsert
                <4>2. Owed(req'[s]) = 0 /\ Kept /\ Active' = Active
                    BY <2>2, <4>1 DEF Active
                <4>3. Balanced(s)
                    BY <1>1, <3>1, <4>1, <4>2 DEF Balanced
                <4> QED
                    BY <4>2, <4>3
            <3> QED
                BY <3>2, <3>3
        <2>10. CASE AddCount(s)
            <3>1. /\ Owed(req[s]) = req[s].added /\ memberCount' = memberCount + req[s].added
                  /\ UNCHANGED <<row, drift>> /\ Done(s) /\ req[s].added \in Nat
                BY <2>1, <2>10 DEF AddCount, Owed, history, InFlight
            <3>2. Owed(req'[s]) = 0 /\ Kept /\ Active' = Active
                BY <2>2, <3>1 DEF Active
            <3>3. Balanced(s)
                BY <1>1, <3>1, <3>2 DEF Balanced
            <3> QED
                BY <3>2, <3>3
        <2>11. CASE RoleDemote(s) \/ RoleSet(s) \/ ArchiveWrite(s)
            <3>1. UNCHANGED <<row, memberCount, drift>> /\ Owed(req[s]) = 0
                BY <2>11 DEF RoleDemote, RoleSet, ArchiveWrite, history, Owed
            <3>2. Done(s) \/ Goto(s, "role.set")
                BY <2>11 DEF RoleDemote, RoleSet, ArchiveWrite
            <3>3. Owed(req'[s]) = 0 /\ Kept
                BY <2>2, <2>3, <3>2 DEF Owed, Steps
            <3> QED
                BY <1>3, <3>1, <3>3
        <2> QED
            BY <1>6, <2>4, <2>5, <2>6, <2>7, <2>8, <2>9, <2>10, <2>11 DEF Continue
    <1> QED
        BY <1>4, <1>5, <1>6

LEMMA Telescope ==
    ASSUME NEW m \in Int, NEW n \in Int, NEW x \in Int, NEW y \in Int, NEW o \in Int, NEW p \in Int,
           NEW c \in Int, NEW d \in Int, NEW e \in Int, NEW f \in Int,
           n + p - d - f = m + o - c - e, y - p = x - o, m + x = c + e
    PROVE  n + y = d + f
    OBVIOUS

LEMMA CountStep == TypeOK /\ TypeOK' /\ CountExact /\ [Next]_vars => CountExact'
    <1> SUFFICES ASSUME TypeOK, TypeOK', CountExact, [Next]_vars PROVE CountExact'
        OBVIOUS
    <1>1. CASE UNCHANGED vars
        BY <1>1 DEF vars, history, CountExact, Credits, Debits, Outstanding, Active
    <1>2. ASSUME NEW s \in Slots, Arrive(s) \/ Continue(s) \/ Abort(s) PROVE CountExact'
        <2>1. \A t \in Slots \ {s} : req'[t] = req[t]
            BY <1>2, OneAtATime
        <2>2. /\ Balanced(s)
              /\ req'[s].pc \in {"add.reactivate", "add.insert"} => req'[s].todo # <<>>
            BY <1>2, StepBalances
        <2>3. /\ IsFiniteSet(Credits')
              /\ Outstanding \in Int /\ Outstanding' \in Int
              /\ Owed(req[s]) \in Int /\ Owed(req'[s]) \in Int
              /\ Outstanding' - Owed(req'[s]) = Outstanding - Owed(req[s])
            BY <2>1, OutstandingMoves DEF CountExact
        <2>4. /\ memberCount \in Int /\ memberCount' \in Int /\ drift \in Int /\ drift' \in Int
              /\ Cardinality(Active) \in Nat /\ Cardinality(Active') \in Nat
            <3>1. IsFiniteSet(Active')
                BY FS_Subset, UsersAssumption DEF Active
            <3>2. Cardinality(Active') \in Nat
                BY <3>1, FS_CardinalityType
            <3> QED
                BY <3>2, ActiveFinite DEF TypeOK
        <2>5. memberCount + Outstanding = Cardinality(Active) + drift
            BY DEF CountExact
        <2>6. memberCount' + Outstanding' = Cardinality(Active') + drift'
            <3>1. memberCount' + Owed(req'[s]) - Cardinality(Active') - drift'
                      = memberCount + Owed(req[s]) - Cardinality(Active) - drift
                BY <2>2 DEF Balanced
            <3> QED
                BY <2>3, <2>4, <2>5, <3>1, Telescope
        <2> QED
            BY <2>1, <2>2, <2>3, <2>6 DEF CountExact
    <1> QED
        BY <1>1, <1>2 DEF Next

\* CountSettled, however requests interleave and whichever are lost: whenever none
\* is in flight, member_count is the number of active participants, but for the
\* drift.
THEOREM CountMatchesRows == Spec => []CountSettled
    <1>1. TypeOK /\ CountExact => CountSettled
        <2> SUFFICES ASSUME TypeOK, CountExact, Quiet PROVE memberCount = Cardinality(Active) + drift
            BY DEF CountSettled
        <2>1. \A s \in Slots : req[s].pc = "idle"
            BY DEF Quiet, Idle
        <2>2. Credits = {} /\ Debits = {}
            BY <2>1 DEF Credits, Debits, Credit, Adding, Counting
        <2>3. Outstanding = 0
            BY <2>2, FS_EmptySet DEF Outstanding
        <2> QED
            BY <2>3, ActiveFinite DEF CountExact, TypeOK
    <1> QED
        BY <1>1, TypeCorrect, CountInit, CountStep, PTL DEF Spec
=============================================================================
