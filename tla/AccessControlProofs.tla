------------------------- MODULE AccessControlProofs -------------------------
(***************************************************************************)
(* Who may do what, for any finite sets of users, roles, permissions and   *)
(* requests in flight: the roles keep to the ceiling and to their rows     *)
(* (RbacService), the three queries for the menus agree, a deleted feature *)
(* is empty, and a link is viewed within its limit.  The proof follows     *)
(* each multi-statement request from the row it read to its last write.    *)
(***************************************************************************)
EXTENDS AccessControl, FiniteSetTheorems, WellFoundedInduction, TLAPS

USE DEF Joining

Calls == Assign \cup NextRole \cup Share \cup Remove \cup Join \cup Delete \cup Grant \cup Clone \cup {Idle}

OnRole == Assigning \cup Sharing \cup Joining \cup {"delete.grants", "delete.row", "grant.change"}
Copying == {"clone.read", "clone.copy"}

\* Requests, holders and grants speak of roles that were there once.
Named(s) ==
    /\ call[s].pc \in OnRole => call[s].role \in used
    /\ call[s].pc \in Assigning \cup {"assign.next"} => call[s].rest \subseteq used
HeldAreNamed == \A h \in holds : h[2] \in used

\* A request to assign knows no level above the ceiling, and has found its role
\* below it once it is past the comparison, unless an administrator made it.
Passed == {"assign.role", "assign.insert", "users.insert"}
Measured(s) ==
    /\ call[s].pc \in Assigning \cup Sharing => call[s].max <= ceiling
    /\ call[s].pc \in Passed /\ call[s].by \notin Admins /\ call[s].role \in exists
           => level[call[s].role] <= ceiling

\* Whoever is about to insert a row for a role has seen that it is there.
Seen(s) ==
    /\ call[s].pc \in {"assign.insert", "join.insert", "grant.change"} \cup Sharing
           => call[s].role \in exists \cup raced
    /\ call[s].pc \in Copying => call[s].copy \in exists \cup raced
Fit(s) == Named(s) /\ Measured(s) /\ Seen(s)

\* A role that is being deleted is held by nobody and no request is about it,
\* unless it is raced; once its grants are deleted, it grants nothing.
Vacated(s) ==
    call[s].pc \in {"delete.grants", "delete.row"} /\ call[s].role \notin raced =>
        /\ \A h \in holds : h[2] # call[s].role
        /\ \A t \in Slots : ~Uses(t, call[s].role)
        /\ At(s, "delete.row") => \A g \in grants : g[1] # call[s].role

RolesInv ==
    /\ RolesTypeOK /\ HeldAreNamed
    /\ \A s \in Slots : Fit(s) /\ Vacated(s)
    /\ RolesConsistent

Edits == MenuEdit \cup FeatureEdit \cup Visit \cup {Idle}

\* How far a request for menu m has brought what it asked.
Linking(s, m) ==
    In(s, "link.update") =>
        \E p \in needs[m] \cup offers[m] :
            edit[s].need = {p} /\ asked[m] = <<needs[m] \cup {p}, offers[m] \ {p}>>
Clearing(s, m) ==
    In(s, "bulk.delete") =>
        edit[s].need \cap edit[s].may = {} /\ asked[m] = <<edit[s].need, edit[s].may>>
Filling(s, m) ==
    In(s, "bulk.insert") =>
        /\ edit[s].need \cap edit[s].may = {}
        /\ (edit[s].need \cup edit[s].may) \cap (needs[m] \cup offers[m]) = {}
        /\ asked[m] = <<needs[m] \cup edit[s].need, offers[m] \cup edit[s].may>>

\* A menu that is not muddled is linked to what was asked, or one request at
\* most is on the way to that.
MenuInv ==
    \A m \in Menus \ muddled :
        /\ (\A s \in Slots : ~EditsMenu(s, m)) => <<needs[m], offers[m]>> = asked[m]
        /\ \A s, t \in Slots : EditsMenu(s, m) /\ EditsMenu(t, m) => s = t
        /\ \A s \in Slots : EditsMenu(s, m) => Linking(s, m) /\ Clearing(s, m) /\ Filling(s, m)

\* Whoever is to include permissions in a feature knows it is there and nobody
\* deletes it, unless it is strayed.
FeatureInv ==
    /\ DeletedFeaturesAreEmpty
    /\ \A s \in Slots, f \in Features \ strayed :
           Includes(s, f) => f \in live /\ \A t \in Slots : ~DeletesFeature(t, f)

\* The visits under way are among those the limit allows for.
Under(k) == {s \in Slots : Visits(s, k)}
LinkInv ==
    \A k \in Links :
        /\ link[k].max > 0 => link[k].views + Cardinality(Under(k)) <= link[k].max + late[k]
        /\ ~link[k].made => link[k].views = 0 /\ Under(k) = {}

AccessInv == AccessTypeOK /\ RolesInv /\ MenuInv /\ FeatureInv /\ LinkInv

-----------------------------------------------------------------------------
\* Every non-empty set of levels has a highest one: among the sets of what is
\* above one of them there is a smallest, and it is empty.
LEMMA HighestExists ==
    ASSUME NEW S, S \subseteq Nat, IsFiniteSet(S), S # {}
    PROVE  Highest(S) \in S /\ \A m \in S : m <= Highest(S)
    <1> DEFINE Above(j) == {k \in S : k > j}
               T == {Above(j) : j \in S}
    <1>1. IsWellFoundedOn(StrictSubsetOrdering(S), FiniteSubsetsOf(S))
        BY FS_StrictSubsetOrderingWellFounded
    <1>2. T \subseteq FiniteSubsetsOf(S) /\ T # {}
        <2>1. \A n \in S : IsFiniteSet(Above(n)) /\ Above(n) \subseteq S
            BY FS_Subset
        <2> QED
            BY <2>1 DEF FiniteSubsetsOf
    <1>3. PICK A \in T : \A B \in T : <<B, A>> \notin StrictSubsetOrdering(S)
        BY <1>1, <1>2, WFMin, Zenon
    <1>4. PICK n \in S : A = Above(n)
        OBVIOUS
    <1>5. \A m \in S : m <= n
        <2> SUFFICES ASSUME NEW m \in S, m > n PROVE FALSE
            OBVIOUS
        <2>0. A = {k \in S : k > n} /\ Above(m) = {k \in S : k > m} /\ m \in Nat /\ n \in Nat
            BY <1>4
        <2>1. m \in A
            BY <2>0
        <2>2. m \notin Above(m)
            BY <2>0
        <2>3. Above(m) \subseteq A
            <3>1. ASSUME NEW k \in S, k > m PROVE k > n
                <4>1. k \in Nat /\ m \in Nat /\ n \in Nat
                    BY <2>0
                <4> HIDE DEF Above, T
                <4> QED
                    BY <4>1, <3>1
            <3> QED
                BY <2>0, <3>1
        <2>4. <<Above(m), A>> \in StrictSubsetOrdering(S)
            BY <2>0, <2>1, <2>2, <2>3 DEF StrictSubsetOrdering
        <2> QED
            BY <2>4, <1>3
    <1> QED
        BY <1>5 DEF Highest

LEMMA HighestOfTwo ==
    ASSUME NEW a \in Levels, NEW b \in Levels
    PROVE  /\ Highest({a, b}) \in Levels
           /\ a <= Highest({a, b}) /\ b <= Highest({a, b})
    <1>1. Highest({a, b}) \in {a, b} /\ \A m \in {a, b} : m <= Highest({a, b})
        <2>1. {a, b} \subseteq Nat /\ {a, b} # {}
            BY DEF Levels
        <2>2. IsFiniteSet({a, b})
            <3>1. {a, b} = {a} \cup {b}
                OBVIOUS
            <3>2. IsFiniteSet({a})
                BY FS_Singleton
            <3> QED
                BY <3>1, <3>2, FS_AddElement
        <2> QED
            BY <2>1, <2>2, HighestExists
    <1> QED
        BY <1>1

\* The level a user has is 0 or that of a role it holds.
LEMMA LevelOfIs ==
    ASSUME RolesTypeOK, NEW u
    PROVE  /\ LevelOf(u) \in Levels
           /\ LevelOf(u) = 0 \/ \E r \in exists : <<u, r>> \in holds /\ LevelOf(u) = level[r]
    <1> DEFINE S == {0} \cup {level[r] : r \in {q \in exists : <<u, q>> \in holds}}
    <1>1. S \subseteq Levels /\ S # {}
        <2>1. 0 \in Levels
            BY BoundsAssumption DEF Levels
        <2>2. \A r \in exists : level[r] \in Levels
            BY DEF RolesTypeOK
        <2> QED
            BY <2>1, <2>2
    <1>2. S \subseteq Nat /\ IsFiniteSet(S)
        <2>1. IsFiniteSet(Levels)
            BY FS_Interval, BoundsAssumption DEF Levels
        <2>2. Levels \subseteq Nat
            BY DEF Levels
        <2>3. S \in SUBSET Levels
            BY <1>1
        <2> HIDE DEF S
        <2> QED
            BY <2>1, <2>2, <2>3, FS_Subset
    <1>3. Highest(S) \in S
        BY <1>1, <1>2, HighestExists
    <1> QED
        BY <1>1, <1>3 DEF LevelOf

-----------------------------------------------------------------------------
\* What a request knows at each of its steps.
LEMMA Shape ==
    ASSUME RolesTypeOK, NEW s \in Slots
    PROVE  /\ call[s] \in Calls
           /\ call[s].pc \in Assigning => call[s] \in Assign
           /\ At(s, "assign.next") => call[s] \in NextRole
           /\ call[s].pc \in Sharing => call[s] \in Share
           /\ At(s, "remove.next") => call[s] \in Remove
           /\ call[s].pc \in Joining => call[s] \in Join
           /\ call[s].pc \in {"delete.grants", "delete.row"} => call[s] \in Delete
           /\ At(s, "grant.change") => call[s] \in Grant
           /\ call[s].pc \in {"clone.insert", "clone.read", "clone.copy"} => call[s] \in Clone
    <1>1. call[s] \in Calls
        BY DEF RolesTypeOK, Calls
    <1> QED
        BY <1>1 DEF Calls, At, Assigning, Sharing, Joining, Assign, NextRole, Share, Remove,
                    Join, Delete, Grant, Clone, Idle

\* What one slot's step makes of the requests.
LEMMA Assigned ==
    ASSUME RolesTypeOK, NEW s \in Slots, NEW c \in Calls, call' = [call EXCEPT ![s] = c]
    PROVE  /\ call' \in [Slots -> Calls] /\ call'[s] = c
           /\ \A t \in Slots \ {s} : call'[t] = call[t]
    BY DEF RolesTypeOK, Calls

\* A request is begun: it is counted, and is the new one of its slot.
LEMMA Begun ==
    ASSUME RolesTypeOK, NEW s \in Slots, NEW c \in Calls, NEW n \in Nat, BeginMany(s, c, n)
    PROVE  /\ call' \in [Slots -> Calls] /\ call'[s] = c /\ call[s] = Idle
           /\ \A t \in Slots \ {s} : call'[t] = call[t]
           /\ calls' \in 0..MaxCalls /\ faults' = faults
    <1>1. call' = [call EXCEPT ![s] = c] /\ calls + n <= MaxCalls /\ calls' = calls + n
          /\ faults' = faults /\ call[s] = Idle
        BY DEF BeginMany
    <1>2. calls' \in 0..MaxCalls
        BY <1>1, BoundsAssumption DEF RolesTypeOK
    <1> QED
        BY <1>1, <1>2, Assigned

LEMMA Over ==
    ASSUME RolesTypeOK, NEW s \in Slots, Done(s)
    PROVE  /\ call' \in [Slots -> Calls] /\ call'[s] = Idle
           /\ \A t \in Slots \ {s} : call'[t] = call[t]
    <1>1. Idle \in Calls
        BY DEF Calls
    <1> QED
        BY <1>1, Assigned DEF Done

LEMMA Typed ==
    ASSUME exists' \subseteq used', used' \subseteq RoleIds, level' \in [RoleIds -> Levels],
           holds' \subseteq Users \X RoleIds, perms' \subseteq known', known' \subseteq Perms,
           grants' \subseteq RoleIds \X Perms, call' \in [Slots -> Calls],
           raced' \subseteq RoleIds, ceiling' \in Levels,
           calls' \in 0..MaxCalls, faults' \in 0..MaxFaults
    PROVE  RolesTypeOK'
    BY DEF RolesTypeOK, Calls

\* The requests as they are begun.
LEMMA Beginnings ==
    ASSUME RolesTypeOK
    PROVE  /\ Idle \in Calls /\ Idle.pc = "idle"
           /\ \A r \in RoleIds : [pc |-> "delete.grants", role |-> r] \in Calls
           /\ \A r \in RoleIds, add \in SUBSET Perms, drop \in SUBSET Perms :
                  [pc |-> "grant.change", role |-> r, todo |-> add, drop |-> drop] \in Calls
           /\ \A by \in Users, u \in Users, r \in RoleIds, rest \in SUBSET RoleIds :
                  Checked(by, u, r, rest) \in Assign
           /\ \A by \in Users, u \in Users, rs \in SUBSET RoleIds :
                  [pc |-> "assign.next", by |-> by, user |-> u, rest |-> rs] \in Calls
           /\ \A by \in Users, us \in SUBSET Users, r \in RoleIds, pc \in Sharing :
                  [pc |-> pc, by |-> by, todo |-> us, role |-> r, max |-> 0] \in Calls
           /\ \A u \in Users, rs \in SUBSET RoleIds :
                  [pc |-> "remove.next", user |-> u, rest |-> rs] \in Calls
           /\ \A u \in Users, r \in RoleIds, pc \in Joining :
                  [pc |-> pc, user |-> u, role |-> r] \in Calls
           /\ \A r \in RoleIds :
                  [pc |-> "clone.insert", role |-> r, level |-> level[r], copy |-> None,
                   todo |-> {}] \in Calls
    <1>1. \A by \in Users, u \in Users, r \in RoleIds, rest \in SUBSET RoleIds :
              Checked(by, u, r, rest) \in Assign
        BY LevelOfIs DEF Checked, Assign, Assigning
    <1>2. 0 \in Levels
        BY BoundsAssumption DEF Levels
    <1>3. \A r \in RoleIds :
              [pc |-> "clone.insert", role |-> r, level |-> level[r], copy |-> None,
               todo |-> {}] \in Clone
        BY DEF RolesTypeOK, Clone
    <1> QED
        BY <1>1, <1>2, <1>3 DEF Calls, Idle, Delete, Grant, NextRole, Share, Remove, Join

LEMMA TypeBegin ==
    ASSUME RolesTypeOK, NEW s \in Slots, RolesBegin(s)
    PROVE  RolesTypeOK'
    <1> USE DEF Begin, Catalogue, Tables
    <1>a. 1 \in Nat
        OBVIOUS
    <1>b. \A S : S \in SUBSET Users \/ S \in SUBSET RoleIds => Cardinality(S) \in Nat
        BY FiniteAssumption, FS_Subset, FS_CardinalityType
    <1>1. ASSUME NEW r \in RoleIds, NEW l \in Levels, CreateRole(s, r, l) PROVE RolesTypeOK'
        BY <1>1, <1>a, Beginnings, Begun, Typed DEF CreateRole, RolesTypeOK
    <1>2. ASSUME NEW r \in RoleIds, NEW l \in Levels, UpdateRole(s, r, l) PROVE RolesTypeOK'
        BY <1>2, <1>a, Beginnings, Begun, Typed, HighestOfTwo DEF UpdateRole, RolesTypeOK
    <1>3. ASSUME NEW r \in RoleIds, DeleteCount(s, r) PROVE RolesTypeOK'
        BY <1>3, <1>a, Beginnings, Begun, Typed DEF DeleteCount, RolesTypeOK
    <1>4. ASSUME NEW r \in RoleIds, CloneStart(s, r) PROVE RolesTypeOK'
        BY <1>4, <1>a, Beginnings, Begun, Typed DEF CloneStart, RolesTypeOK
    <1>5. ASSUME NEW r \in RoleIds, NEW add \in SUBSET Perms, NEW drop \in SUBSET Perms,
                 GrantStart(s, r, add, drop)
          PROVE  RolesTypeOK'
        BY <1>5, <1>a, Beginnings, Begun, Typed DEF GrantStart, Race, RolesTypeOK
    <1>6. ASSUME NEW by \in Users, NEW u \in Users, NEW r \in RoleIds,
                 AssignRoleToUser(s, by, u, r)
          PROVE  RolesTypeOK'
        <2>1. Checked(by, u, r, {}) \in Calls
            BY Beginnings DEF Calls
        <2> QED
            BY <1>6, <2>1, <1>a, Begun, Typed DEF AssignRoleToUser, Race, RolesTypeOK
    <1>7. ASSUME NEW by \in Users, NEW us \in SUBSET Users, NEW r \in RoleIds,
                 BulkAssignUsersToRole(s, by, us, r)
          PROVE  RolesTypeOK'
        <2>1. [pc |-> IF by \in Admins THEN "users.insert" ELSE "users.level",
               by |-> by, todo |-> us, role |-> r, max |-> 0] \in Calls
            BY Beginnings DEF Sharing
        <2> QED
            BY <1>7, <2>1, <1>b, Begun, Typed DEF BulkAssignUsersToRole, Race, RolesTypeOK
    <1>8. ASSUME NEW u \in Users, NEW r \in RoleIds, RemoveRole(s, u, r) PROVE RolesTypeOK'
        BY <1>8, <1>a, Beginnings, Begun, Typed DEF RemoveRole, RolesTypeOK
    <1>9. ASSUME NEW u \in Users, NEW rs \in SUBSET RoleIds, BulkRemove(s, u, rs)
          PROVE  RolesTypeOK'
        BY <1>9, <1>b, Beginnings, Begun, Typed DEF BulkRemove, RolesTypeOK
    <1>10. ASSUME NEW by \in Users, NEW u \in Users, NEW rs \in SUBSET RoleIds,
                  BulkAssignRolesToUser(s, by, u, rs)
           PROVE  RolesTypeOK'
        BY <1>10, <1>b, Beginnings, Begun, Typed DEF BulkAssignRolesToUser, RolesTypeOK
    <1>11. ASSUME NEW p \in Perms, CreatePermission(s, p) PROVE RolesTypeOK'
        BY <1>11, <1>a, Beginnings, Begun, Typed DEF CreatePermission, RolesTypeOK
    <1>12. ASSUME NEW p \in Perms, DeletePermission(s, p) PROVE RolesTypeOK'
        BY <1>12, <1>a, Beginnings, Begun, Typed DEF DeletePermission, RolesTypeOK
    <1>13. ASSUME NEW u \in Users, NEW r \in RoleIds,
                  AcceptInvitation(s, u, r) \/ CreateTenant(s, u, r)
           PROVE  RolesTypeOK'
        <2>1. PICK pc \in Joining : BeginMany(s, [pc |-> pc, user |-> u, role |-> r], 1)
            BY <1>13 DEF AcceptInvitation, CreateTenant, Joining
        <2> QED
            BY <1>13, <1>a, <2>1, Beginnings, Begun, Typed
            DEF AcceptInvitation, CreateTenant, Race, RolesTypeOK
    <1> QED
        BY <1>1, <1>2, <1>3, <1>4, <1>5, <1>6, <1>7, <1>8, <1>9, <1>10, <1>11, <1>12, <1>13
        DEF RolesBegin

\* A request that goes on to another step.
LEMMA Advanced ==
    ASSUME RolesTypeOK, NEW s \in Slots, NEW pc, Goto(s, pc),
           \/ call[s] \in Assign /\ pc \in Assigning
           \/ call[s] \in Share /\ pc \in Sharing
           \/ call[s] \in Join /\ pc \in Joining
           \/ call[s] \in Delete /\ pc \in {"delete.grants", "delete.row"}
    PROVE  /\ call' \in [Slots -> Calls] /\ call'[s] = [call[s] EXCEPT !.pc = pc]
           /\ \A t \in Slots \ {s} : call'[t] = call[t]
    <1>1. [call[s] EXCEPT !.pc = pc] \in Calls
        BY DEF Calls, Assign, Share, Join, Delete
    <1>2. call' = [call EXCEPT ![s] = [call[s] EXCEPT !.pc = pc]]
        BY DEF Goto, RolesTypeOK
    <1> QED
        BY <1>1, <1>2, Assigned

\* What is left of a request to assign.
LEMMA NextIs ==
    ASSUME RolesTypeOK, NEW s \in Slots, call[s] \in Assign
    PROVE  /\ NextOf(call[s], call[s].rest) \in NextRole \cup {Idle}
           /\ NextOf(call[s], call[s].rest).pc \in {"idle", "assign.next"}
           /\ NextOf(call[s], call[s].rest).pc = "assign.next"
                  => NextOf(call[s], call[s].rest).rest = call[s].rest
    BY DEF NextOf, NextRole, Assign, Idle

LEMMA TypeStep ==
    ASSUME RolesTypeOK, NEW s \in Slots, RolesStep(s)
    PROVE  RolesTypeOK'
    <1> USE DEF Catalogue, Tables, Counters
    <1>a. calls \in 0..MaxCalls /\ faults \in 0..MaxFaults
        BY DEF RolesTypeOK
    <1>1. CASE DeleteGrants(s)
        <2>1. call[s] \in Delete
            BY <1>1, Shape DEF DeleteGrants, At
        <2>2. call' \in [Slots -> Calls]
            BY <1>1, <2>1, Advanced DEF DeleteGrants
        <2> QED
            BY <1>1, <2>2, Typed DEF DeleteGrants, RolesTypeOK
    <1>2. CASE DeleteRow(s)
        BY <1>2, Over, Typed DEF DeleteRow, RolesTypeOK
    <1>3. CASE GrantOne(s)
        <2>1. call[s] \in Grant
            BY <1>3, Shape DEF GrantOne
        <2>2. CASE \E p \in call[s].todo :
                       /\ grants' = grants \cup {<<call[s].role, p>>}
                       /\ call' = [call EXCEPT ![s].todo = @ \ {p}]
            <3>1. PICK p \in call[s].todo :
                       /\ grants' = grants \cup {<<call[s].role, p>>}
                       /\ call' = [call EXCEPT ![s].todo = @ \ {p}]
                BY <2>2
            <3>2. [call[s] EXCEPT !.todo = call[s].todo \ {p}] \in Calls
                BY <2>1 DEF Grant, Calls
            <3>3. call' = [call EXCEPT ![s] = [call[s] EXCEPT !.todo = call[s].todo \ {p}]]
                BY <3>1 DEF RolesTypeOK
            <3>4. grants' \subseteq RoleIds \X Perms
                BY <2>1, <3>1 DEF Grant, RolesTypeOK
            <3> QED
                BY <1>3, <3>2, <3>3, <3>4, Assigned, Typed DEF GrantOne, RolesTypeOK
        <2>3. CASE \E p \in call[s].drop :
                       /\ grants' = grants \ {<<call[s].role, p>>}
                       /\ call' = [call EXCEPT ![s].drop = @ \ {p}]
            <3>1. PICK p \in call[s].drop :
                       /\ grants' = grants \ {<<call[s].role, p>>}
                       /\ call' = [call EXCEPT ![s].drop = @ \ {p}]
                BY <2>3
            <3>2. [call[s] EXCEPT !.drop = call[s].drop \ {p}] \in Calls
                BY <2>1 DEF Grant, Calls
            <3>3. call' = [call EXCEPT ![s] = [call[s] EXCEPT !.drop = call[s].drop \ {p}]]
                BY <3>1 DEF RolesTypeOK
            <3> QED
                BY <1>3, <3>1, <3>2, <3>3, Assigned, Typed DEF GrantOne, RolesTypeOK
        <2>4. CASE Done(s) /\ UNCHANGED grants
            BY <1>3, <2>4, Over, Typed DEF GrantOne, RolesTypeOK
        <2> QED
            BY <1>3, <2>2, <2>3, <2>4 DEF GrantOne
    <1>4. CASE AssignNext(s)
        <2>1. PICK r \in call[s].rest :
                  /\ call' = [call EXCEPT ![s] = Checked(call[s].by, call[s].user, r,
                                                         call[s].rest \ {r})]
                  /\ Race(r)
            BY <1>4 DEF AssignNext
        <2>2. call[s] \in NextRole
            BY <1>4, Shape DEF AssignNext
        <2>3. /\ call[s].by \in Users /\ call[s].user \in Users /\ r \in RoleIds
              /\ call[s].rest \ {r} \in SUBSET RoleIds
            BY <2>2 DEF NextRole
        <2>4. Checked(call[s].by, call[s].user, r, call[s].rest \ {r}) \in Calls
            BY <2>3, Beginnings DEF Calls
        <2> QED
            BY <1>4, <2>1, <2>3, <2>4, Assigned, Typed DEF AssignNext, Race, RolesTypeOK
    <1>5. CASE AssignTarget(s)
        <2>1. call[s] \in Assign
            BY <1>5, Shape DEF AssignTarget, At, Assigning
        <2>2. call' \in [Slots -> Calls]
            <3>1. CASE Goto(s, "assign.role")
                BY <2>1, <3>1, Advanced DEF Assigning
            <3>2. CASE call' = [call EXCEPT ![s] = NextOf(@, @.rest)]
                <4>1. NextOf(call[s], call[s].rest) \in Calls
                    BY <2>1, NextIs DEF Calls
                <4>2. call' = [call EXCEPT ![s] = NextOf(call[s], call[s].rest)]
                    BY <3>2 DEF RolesTypeOK
                <4> QED
                    BY <4>1, <4>2, Assigned
            <3> QED
                BY <1>5, <3>1, <3>2 DEF AssignTarget
        <2> QED
            BY <1>5, <2>2, Typed DEF AssignTarget, RolesTypeOK
    <1>6. CASE AssignRole(s)
        <2>1. call[s] \in Assign
            BY <1>6, Shape DEF AssignRole, At, Assigning
        <2>2. call' \in [Slots -> Calls]
            <3>1. CASE Goto(s, "assign.insert")
                BY <2>1, <3>1, Advanced DEF Assigning
            <3>2. CASE call' = [call EXCEPT ![s] = NextOf(@, @.rest)]
                <4>1. NextOf(call[s], call[s].rest) \in Calls
                    BY <2>1, NextIs DEF Calls
                <4>2. call' = [call EXCEPT ![s] = NextOf(call[s], call[s].rest)]
                    BY <3>2 DEF RolesTypeOK
                <4> QED
                    BY <4>1, <4>2, Assigned
            <3> QED
                BY <1>6, <3>1, <3>2 DEF AssignRole
        <2> QED
            BY <1>6, <2>2, Typed DEF AssignRole, RolesTypeOK
    <1>7. CASE AssignInsert(s)
        <2>1. call[s] \in Assign
            BY <1>7, Shape DEF AssignInsert, At, Assigning
        <2>2. NextOf(call[s], call[s].rest) \in Calls
            BY <2>1, NextIs DEF Calls
        <2>3. call' \in [Slots -> Calls]
            BY <1>7, <2>2, Assigned DEF AssignInsert
        <2>4. call[s].user \in Users /\ call[s].role \in RoleIds
            BY <2>1 DEF Assign
        <2>5. ceiling' \in Levels
            BY <1>7, <2>4, HighestOfTwo DEF AssignInsert, Authority, RolesTypeOK
        <2> QED
            BY <1>7, <2>3, <2>4, <2>5, Typed DEF AssignInsert, RolesTypeOK
    <1>8. CASE ShareLevel(s)
        <2>1. call[s] \in Share
            BY <1>8, Shape DEF ShareLevel, At, Sharing
        <2>2. [call[s] EXCEPT !.pc = "users.target", !.max = LevelOf(call[s].by)] \in Calls
            BY <2>1, LevelOfIs DEF Calls, Share, Sharing
        <2>3. call' = [call EXCEPT ![s] = [call[s] EXCEPT !.pc = "users.target",
                                                          !.max = LevelOf(call[s].by)]]
            BY <1>8 DEF ShareLevel, RolesTypeOK
        <2> QED
            BY <1>8, <2>2, <2>3, Assigned, Typed DEF ShareLevel, RolesTypeOK
    <1>9. CASE ShareTarget(s)
        <2>1. call[s] \in Share
            BY <1>9, Shape DEF ShareTarget, At, Sharing
        <2>2. call' \in [Slots -> Calls]
            BY <1>9, <2>1, Over, Advanced DEF ShareTarget, Sharing
        <2> QED
            BY <1>9, <2>2, Typed DEF ShareTarget, RolesTypeOK
    <1>10. CASE ShareInsert(s)
        <2>1. call[s] \in Share
            BY <1>10, Shape DEF ShareInsert, At, Sharing
        <2>2. PICK u \in call[s].todo :
                  /\ holds' = holds \cup {<<u, call[s].role>>}
                  /\ call' = [call EXCEPT ![s] = IF call[s].todo = {u} THEN Idle
                                                 ELSE [call[s] EXCEPT !.todo = @ \ {u}]]
            BY <1>10 DEF ShareInsert
        <2>3. (IF call[s].todo = {u} THEN Idle ELSE [call[s] EXCEPT !.todo = @ \ {u}]) \in Calls
            BY <2>1 DEF Share, Calls
        <2>4. call' \in [Slots -> Calls]
            BY <2>2, <2>3, Assigned
        <2>5. u \in Users /\ call[s].role \in RoleIds
            BY <2>1, <2>2 DEF Share
        <2>6. ceiling' \in Levels
            BY <1>10, <2>5, HighestOfTwo DEF ShareInsert, Authority, RolesTypeOK
        <2> QED
            BY <1>10, <2>2, <2>4, <2>5, <2>6, Typed DEF ShareInsert, RolesTypeOK
    <1>11. CASE RemoveNext(s)
        <2>1. call[s] \in Remove
            BY <1>11, Shape DEF RemoveNext
        <2>2. PICK r \in call[s].rest :
                  /\ holds' = holds \ {<<call[s].user, r>>}
                  /\ call' = [call EXCEPT ![s] = IF call[s].rest = {r} THEN Idle
                                                 ELSE [call[s] EXCEPT !.rest = @ \ {r}]]
            BY <1>11 DEF RemoveNext
        <2>3. (IF call[s].rest = {r} THEN Idle ELSE [call[s] EXCEPT !.rest = @ \ {r}]) \in Calls
            BY <2>1 DEF Remove, Calls
        <2> QED
            BY <1>11, <2>2, <2>3, Assigned, Typed DEF RemoveNext, RolesTypeOK
    <1>12. CASE CloneInsert(s)
        <2>1. call[s] \in Clone /\ call[s].pc = "clone.insert"
            BY <1>12, Shape DEF CloneInsert, At
        <2>2. PICK r \in RoleIds \ used :
                  /\ exists' = exists \cup {r} /\ used' = used \cup {r}
                  /\ level' = [level EXCEPT ![r] = call[s].level]
                  /\ call' = [call EXCEPT ![s].pc = "clone.read", ![s].copy = r]
            BY <1>12 DEF CloneInsert
        <2>3. [call[s] EXCEPT !.pc = "clone.read", !.copy = r] \in Calls
            BY <2>1 DEF Clone, Calls
        <2>4. call' = [call EXCEPT ![s] = [call[s] EXCEPT !.pc = "clone.read", !.copy = r]]
            BY <2>2 DEF RolesTypeOK
        <2>5. level' \in [RoleIds -> Levels]
            BY <2>1, <2>2 DEF Clone, RolesTypeOK
        <2> QED
            BY <1>12, <2>2, <2>3, <2>4, <2>5, Assigned, Typed DEF CloneInsert, RolesTypeOK
    <1>13. CASE CloneRead(s)
        <2>1. call[s] \in Clone /\ call[s].pc = "clone.read"
            BY <1>13, Shape DEF CloneRead, At
        <2> DEFINE found == {p \in Perms : <<call[s].role, p>> \in grants}
        <2>2. [call[s] EXCEPT !.pc = "clone.copy", !.todo = found] \in Calls
            BY <2>1 DEF Clone, Calls
        <2>3. call' = [call EXCEPT ![s] = [call[s] EXCEPT !.pc = "clone.copy", !.todo = found]]
            BY <1>13 DEF CloneRead, RolesTypeOK
        <2> QED
            BY <1>13, <2>2, <2>3, Assigned, Typed DEF CloneRead, RolesTypeOK
    <1>14. CASE CloneCopy(s)
        <2>1. call[s] \in Clone /\ call[s].pc = "clone.copy"
            BY <1>14, Shape DEF CloneCopy, At
        <2>2. CASE \E p \in call[s].todo :
                       /\ grants' \in {grants, grants \cup {<<call[s].copy, p>>}}
                       /\ call' = [call EXCEPT ![s].todo = @ \ {p}]
            <3>1. PICK p \in call[s].todo :
                       /\ grants' \in {grants, grants \cup {<<call[s].copy, p>>}}
                       /\ call' = [call EXCEPT ![s].todo = @ \ {p}]
                BY <2>2
            <3>2. [call[s] EXCEPT !.todo = call[s].todo \ {p}] \in Calls
                BY <2>1 DEF Clone, Calls
            <3>3. call' = [call EXCEPT ![s] = [call[s] EXCEPT !.todo = call[s].todo \ {p}]]
                BY <3>1 DEF RolesTypeOK
            <3>4. grants' \subseteq RoleIds \X Perms
                BY <2>1, <3>1 DEF Clone, RolesTypeOK
            <3> QED
                BY <1>14, <3>2, <3>3, <3>4, Assigned, Typed DEF CloneCopy, RolesTypeOK
        <2>3. CASE Done(s) /\ UNCHANGED grants
            BY <1>14, <2>3, Over, Typed DEF CloneCopy, RolesTypeOK
        <2> QED
            BY <1>14, <2>2, <2>3 DEF CloneCopy
    <1>15. CASE JoinRole(s)
        <2>1. call[s] \in Join
            BY <1>15, Shape DEF JoinRole, At, Joining
        <2>2. call' \in [Slots -> Calls]
            BY <1>15, <2>1, Over, Advanced DEF JoinRole, Joining
        <2> QED
            BY <1>15, <2>2, Typed DEF JoinRole, RolesTypeOK
    <1>16. CASE JoinInsert(s)
        <2>1. call[s] \in Join
            BY <1>16, Shape DEF JoinInsert, At, Joining
        <2>2. call[s].user \in Users /\ call[s].role \in RoleIds
            BY <2>1 DEF Join
        <2>3. ceiling' \in Levels
            BY <1>16, <2>2, HighestOfTwo DEF JoinInsert, RolesTypeOK
        <2> QED
            BY <1>16, <2>2, <2>3, Over, Typed DEF JoinInsert, RolesTypeOK
    <1> QED
        BY <1>1, <1>2, <1>3, <1>4, <1>5, <1>6, <1>7, <1>8, <1>9, <1>10, <1>11, <1>12, <1>13,
           <1>14, <1>15, <1>16
        DEF RolesStep

LEMMA TypeFault ==
    ASSUME RolesTypeOK, NEW s \in Slots, PassOver(s) \/ Abort(s)
    PROVE  RolesTypeOK'
    <1> USE DEF Catalogue, Tables
    <1>a. faults' \in 0..MaxFaults
        BY BoundsAssumption DEF PassOver, Abort, RolesTypeOK
    <1>1. CASE Abort(s)
        BY <1>1, <1>a, Over, Typed DEF Abort, RolesTypeOK
    <1>2. CASE PassOver(s)
        <2>1. call' \in [Slots -> Calls]
            <3>1. CASE /\ call[s].pc \in Assigning
                       /\ call' = [call EXCEPT ![s] = NextOf(call[s], call[s].rest)]
                <4>1. NextOf(call[s], call[s].rest) \in Calls
                    BY <3>1, Shape, NextIs DEF Calls
                <4> QED
                    BY <3>1, <4>1, Assigned
            <3>2. ASSUME At(s, "users.insert"), NEW u \in call[s].todo,
                         call' = [call EXCEPT ![s].todo = @ \ {u}]
                  PROVE  call' \in [Slots -> Calls]
                <4>1. [call[s] EXCEPT !.todo = call[s].todo \ {u}] \in Calls
                    BY <3>2, Shape DEF At, Sharing, Share, Calls
                <4>2. call' = [call EXCEPT ![s] = [call[s] EXCEPT !.todo = call[s].todo \ {u}]]
                    BY <3>2 DEF RolesTypeOK
                <4> QED
                    BY <4>1, <4>2, Assigned
            <3>3. ASSUME At(s, "remove.next"), NEW r \in call[s].rest,
                         call' = [call EXCEPT ![s].rest = @ \ {r}]
                  PROVE  call' \in [Slots -> Calls]
                <4>1. [call[s] EXCEPT !.rest = call[s].rest \ {r}] \in Calls
                    BY <3>3, Shape DEF Remove, Calls
                <4>2. call' = [call EXCEPT ![s] = [call[s] EXCEPT !.rest = call[s].rest \ {r}]]
                    BY <3>3 DEF RolesTypeOK
                <4> QED
                    BY <4>1, <4>2, Assigned
            <3> QED
                BY <1>2, <3>1, <3>2, <3>3 DEF PassOver
        <2> QED
            BY <1>2, <1>a, <2>1, Typed DEF PassOver, RolesTypeOK
    <1> QED
        BY <1>1, <1>2

\* The variables keep their types, whatever request does its next step.
LEMMA RolesTypeKept ==
    ASSUME RolesTypeOK, NEW s \in Slots,
           RolesBegin(s) \/ RolesStep(s) \/ PassOver(s) \/ Abort(s)
    PROVE  RolesTypeOK'
    BY TypeBegin, TypeStep, TypeFault

-----------------------------------------------------------------------------
\* What a step of slot s has to leave alone, and what it has to see to.
LEMMA StepKeeps ==
    ASSUME RolesInv, RolesTypeOK', NEW s \in Slots, \A t \in Slots \ {s} : call'[t] = call[t],
           used \subseteq used', ceiling <= ceiling', raced \subseteq raced',
           exists' \cap used \subseteq exists,
           \A r \in exists' \cap used : level'[r] = level[r] \/ level'[r] <= ceiling',
           Fit(s)', Vacated(s)',
           \A h \in holds' \ holds : /\ Uses(s, h[2]) /\ h[2] \in exists \cup raced /\ h[2] \in used
                                     /\ h[2] \in exists' => level'[h[2]] <= ceiling',
           \A g \in grants' \ grants : Uses(s, g[1]) /\ g[1] \in exists \cup raced,
           \A r : Uses(s, r)' /\ ~Uses(s, r) => \A t \in Slots \ {s} : Deletes(t, r) => r \in raced',
           \A r \in exists \ (exists' \cup raced') :
               /\ \A t \in Slots \ {s} : ~Uses(t, r)
               /\ \A h \in holds' : h[2] # r
               /\ \A g \in grants' : g[1] # r
    PROVE  RolesInv'
    <1>1. HeldAreNamed'
        BY DEF RolesInv, HeldAreNamed
    <1>2. ASSUME NEW t \in Slots \ {s} PROVE Fit(t)'
        <2>1. Fit(t) /\ call'[t] = call[t] /\ t \in Slots
            BY DEF RolesInv
        <2>2. Named(t)'
            BY <2>1 DEF Fit, Named
        <2>3. Measured(t)'
            <3>1. call[t].pc \in Passed => call[t].role \in used
                BY <2>1 DEF Fit, Named, Passed, OnRole, Assigning, Sharing
            <3>2. /\ ceiling \in Nat /\ ceiling' \in Nat
                  /\ call[t].pc \in Assigning \cup Sharing => call[t].max \in Nat
                  /\ \A r \in exists : level[r] \in Nat
                BY <2>1, Shape DEF RolesInv, RolesTypeOK, Levels, Assign, Share
            <3>3. call[t].pc \in Assigning \cup Sharing => call[t].max <= ceiling'
                BY <2>1, <3>2 DEF Fit, Measured
            <3>4. ASSUME call[t].pc \in Passed, call[t].by \notin Admins, call[t].role \in exists'
                  PROVE  level'[call[t].role] <= ceiling'
                <4>1. call[t].role \in exists /\ level[call[t].role] <= ceiling
                    BY <2>1, <3>1, <3>4 DEF Fit, Measured
                <4> QED
                    BY <3>1, <3>2, <3>4, <4>1
            <3> QED
                BY <2>1, <3>3, <3>4 DEF Measured
        <2>4. Seen(t)'
            <3>1. ASSUME NEW r, Uses(t, r), r \in exists \cup raced PROVE r \in exists' \cup raced'
                BY <3>1
            <3> QED
                BY <2>1, <3>1 DEF Fit, Seen, Uses, Assigning, Copying
        <2> QED
            BY <2>2, <2>3, <2>4 DEF Fit
    <1>3. ASSUME NEW t \in Slots \ {s} PROVE Vacated(t)'
        <2>1. Vacated(t) /\ call'[t] = call[t] /\ t \in Slots
            BY DEF RolesInv
        <2> SUFFICES ASSUME call[t].pc \in {"delete.grants", "delete.row"},
                            call[t].role \notin raced'
                     PROVE  /\ \A h \in holds' : h[2] # call[t].role
                            /\ \A q \in Slots : ~Uses(q, call[t].role)'
                            /\ At(t, "delete.row") => \A g \in grants' : g[1] # call[t].role
            <3>1. \A q \in Slots : \A r : ~Uses(q, r)' <=> ~(Uses(q, r)')
                OBVIOUS
            <3> QED
                BY <2>1 DEF Vacated, At, Uses
        <2> DEFINE r == call[t].role
        <2>2. /\ \A h \in holds : h[2] # r
              /\ \A q \in Slots : ~Uses(q, r)
              /\ At(t, "delete.row") => \A g \in grants : g[1] # r
            BY <2>1 DEF Vacated
        <2>3. Deletes(t, r)
            BY DEF Deletes
        <2>4. ~Uses(s, r)
            BY <2>2
        <2>5. ~(call'[s].pc \in Assigning \cup Sharing \cup Joining \cup {"grant.change"} /\ call'[s].role = r)
              /\ ~(call'[s].pc \in {"clone.read", "clone.copy"} /\ call'[s].copy = r)
            <3>1. PICK q : q = r
                OBVIOUS
            <3>2. ~Uses(s, q) /\ Deletes(t, q) /\ q \notin raced'
                BY <2>3, <2>4, <3>1
            <3>3. ~Uses(s, q)'
                BY <3>2
            <3> QED
                BY <3>1, <3>3 DEF Uses
        <2>6. \A q \in Slots \ {s} : call'[q] = call[q]
            OBVIOUS
        <2>7. \A q \in Slots : ~(\/ /\ call'[q].pc \in Assigning \cup Sharing \cup Joining \cup {"grant.change"}
                                    /\ call'[q].role = r
                                 \/ call'[q].pc \in {"clone.read", "clone.copy"} /\ call'[q].copy = r)
            BY <2>2, <2>5, <2>6 DEF Uses
        <2>8. \A h \in holds' : h[2] # r
            BY <2>2, <2>4
        <2>9. At(t, "delete.row") => \A g \in grants' : g[1] # r
            BY <2>2, <2>4
        <2> QED
            BY <2>1, <2>7, <2>8, <2>9 DEF Uses
    <1>4. NoClimb'
        <2>1. \A r \in exists : level[r] \in Nat /\ ceiling \in Nat /\ ceiling' \in Nat
            BY DEF RolesInv, RolesTypeOK, Levels
        <2>2. ASSUME NEW h \in holds', h[2] \in exists', h \in holds PROVE level'[h[2]] <= ceiling'
            <3>1. h[2] \in exists /\ h[2] \in used
                BY <2>2 DEF RolesInv, HeldAreNamed
            <3>2. level[h[2]] <= ceiling
                BY <2>2, <3>1 DEF RolesInv, RolesConsistent, NoClimb
            <3> QED
                BY <2>1, <2>2, <3>1, <3>2
        <2> QED
            BY <2>2 DEF NoClimb
    <1>5. HeldRolesExist'
        BY DEF RolesInv, RolesConsistent, HeldRolesExist
    <1>6. DeletedRolesGrantNothing'
        BY DEF RolesInv, RolesConsistent, DeletedRolesGrantNothing
    <1> QED
        BY <1>1, <1>2, <1>3, <1>4, <1>5, <1>6 DEF RolesInv, RolesConsistent

Quiet == {"idle", "assign.next", "remove.next", "clone.insert"}

\* A request that has no role in hand.
LEMMA Unburdened ==
    ASSUME NEW s \in Slots, call'[s].pc \in Quiet,
           call'[s].pc = "assign.next" => call'[s].rest \subseteq used'
    PROVE  Fit(s)' /\ Vacated(s)' /\ \A r : ~Uses(s, r)'
    BY DEF Quiet, Fit, Named, Measured, Seen, Vacated, Uses, Assigning, Sharing, OnRole, Passed,
           Copying

\* A step that leaves the tables alone.
LEMMA TablesKept ==
    ASSUME RolesInv, RolesTypeOK', NEW s \in Slots, \A t \in Slots \ {s} : call'[t] = call[t],
           UNCHANGED <<Tables, ceiling>>, raced \subseteq raced', Fit(s)', Vacated(s)',
           \A r : Uses(s, r)' /\ ~Uses(s, r) => \A t \in Slots \ {s} : Deletes(t, r) => r \in raced'
    PROVE  RolesInv'
    <1>1. ceiling <= ceiling'
        BY DEF RolesInv, RolesTypeOK, Levels
    <1> QED
        BY <1>1, StepKeeps DEF Tables

\* Nobody's level is above the ceiling.
LEMMA LevelsBelow ==
    ASSUME RolesInv, NEW u
    PROVE  LevelOf(u) <= ceiling
    <1>1. RolesTypeOK /\ NoClimb
        BY DEF RolesInv, RolesConsistent
    <1>2. ceiling \in Nat
        BY <1>1 DEF RolesTypeOK, Levels
    <1>3. CASE LevelOf(u) = 0
        BY <1>2, <1>3
    <1>4. ASSUME NEW r \in exists, <<u, r>> \in holds, LevelOf(u) = level[r]
          PROVE  LevelOf(u) <= ceiling
        <2>1. <<u, r>>[2] = r
            OBVIOUS
        <2> QED
            BY <1>1, <1>4, <2>1 DEF NoClimb
    <1> QED
        BY <1>1, <1>3, <1>4, LevelOfIs

\* A request that is about to be checked.
LEMMA CheckedFits ==
    ASSUME RolesInv, NEW s \in Slots, NEW by \in Users, NEW u \in Users, NEW r \in used,
           NEW rest \in SUBSET used, call'[s] = Checked(by, u, r, rest),
           UNCHANGED <<used, ceiling>>
    PROVE  Fit(s)' /\ Vacated(s)' /\ \A q : Uses(s, q)' => q = r
    <1>1. /\ call'[s].pc \in {"assign.role", "assign.target"} /\ call'[s].role = r
          /\ call'[s].rest = rest /\ call'[s].max = LevelOf(by) /\ call'[s].by = by
          /\ call'[s].pc = "assign.role" => by \in Admins
        BY DEF Checked
    <1>2. LevelOf(by) <= ceiling
        BY LevelsBelow
    <1> QED
        BY <1>1, <1>2 DEF Fit, Named, Measured, Seen, Vacated, Uses, OnRole, Assigning, Sharing,
                          Passed, Copying

LEMMA InvBegin ==
    ASSUME RolesInv, NEW s \in Slots, RolesBegin(s)
    PROVE  RolesInv'
    <1> USE DEF Begin, Catalogue, Tables
    <1>t. RolesTypeOK /\ RolesTypeOK'
        BY RolesTypeKept DEF RolesInv
    <1>a. 1 \in Nat
        OBVIOUS
    <1>b. \A S : S \in SUBSET Users \/ S \in SUBSET RoleIds => Cardinality(S) \in Nat
        BY FiniteAssumption, FS_Subset, FS_CardinalityType
    <1>c. ceiling <= ceiling' \/ ceiling' # ceiling
        BY <1>t DEF RolesTypeOK, Levels
    <1>d. used \subseteq RoleIds /\ exists \subseteq used /\ level \in [RoleIds -> Levels]
          /\ ceiling \in Levels
        BY <1>t DEF RolesTypeOK
    <1>1. ASSUME NEW r \in RoleIds, NEW l \in Levels, CreateRole(s, r, l) PROVE RolesInv'
        <2>1. call'[s] = Idle /\ \A t \in Slots \ {s} : call'[t] = call[t]
            BY <1>1, <1>a, <1>t, Beginnings, Begun DEF CreateRole
        <2>2. Fit(s)' /\ Vacated(s)' /\ \A q : ~Uses(s, q)'
            BY <2>1, Unburdened DEF Idle, Quiet
        <2>3. \A q \in exists' \cap used : level'[q] = level[q]
            BY <1>1, <1>d DEF CreateRole
        <2> QED
            BY <1>1, <1>t, <1>c, <1>d, <2>1, <2>2, <2>3, StepKeeps DEF CreateRole
    <1>2. ASSUME NEW r \in RoleIds, NEW l \in Levels, UpdateRole(s, r, l) PROVE RolesInv'
        <2>1. call'[s] = Idle /\ \A t \in Slots \ {s} : call'[t] = call[t]
            BY <1>2, <1>a, <1>t, Beginnings, Begun DEF UpdateRole
        <2>2. Fit(s)' /\ Vacated(s)' /\ \A q : ~Uses(s, q)'
            BY <2>1, Unburdened DEF Idle, Quiet
        <2>3. ceiling <= ceiling' /\ l <= ceiling'
            BY <1>2, <1>d, HighestOfTwo DEF UpdateRole
        <2>4. \A q \in exists' \cap used : level'[q] = level[q] \/ level'[q] <= ceiling'
            BY <1>2, <1>d, <2>3 DEF UpdateRole
        <2> QED
            BY <1>2, <1>t, <1>d, <2>1, <2>2, <2>3, <2>4, StepKeeps DEF UpdateRole
    <1>3. ASSUME NEW r \in RoleIds, DeleteCount(s, r) PROVE RolesInv'
        <2>1. /\ call'[s] = [pc |-> "delete.grants", role |-> r] /\ call[s] = Idle
              /\ \A t \in Slots \ {s} : call'[t] = call[t]
            BY <1>3, <1>a, <1>t, Beginnings, Begun DEF DeleteCount
        <2>2. Fit(s)'
            BY <1>3, <1>d, <2>1
            DEF Fit, Named, Measured, Seen, DeleteCount, OnRole, Assigning, Sharing, Passed, Copying
        <2>3. Vacated(s)'
            <3>1. ASSUME r \notin raced' PROVE \A t \in Slots : ~Uses(t, r)
                BY <1>3, <3>1 DEF DeleteCount
            <3>2. ASSUME r \notin raced' PROVE \A h \in holds' : h[2] # r
                BY <1>3, <1>t DEF DeleteCount, RolesTypeOK
            <3>3. \A t \in Slots : ~Uses(t, r) => ~(Uses(t, r)')
                BY <2>1 DEF Uses, Idle, Assigning, Sharing
            <3> QED
                BY <2>1, <3>1, <3>2, <3>3 DEF Vacated, At, Uses
        <2>4. \A q : ~Uses(s, q)'
            BY <2>1 DEF Uses, Assigning, Sharing
        <2> QED
            BY <1>3, <1>t, <2>1, <2>2, <2>3, <2>4, TablesKept DEF DeleteCount
    <1>4. ASSUME NEW r \in RoleIds, CloneStart(s, r) PROVE RolesInv'
        <2>1. call'[s].pc = "clone.insert" /\ \A t \in Slots \ {s} : call'[t] = call[t]
            BY <1>4, <1>a, <1>t, Beginnings, Begun DEF CloneStart
        <2>2. Fit(s)' /\ Vacated(s)' /\ \A q : ~Uses(s, q)'
            BY <2>1, Unburdened DEF Quiet
        <2> QED
            BY <1>4, <1>t, <2>1, <2>2, TablesKept DEF CloneStart
    <1>5. ASSUME NEW r \in RoleIds, NEW add \in SUBSET Perms, NEW drop \in SUBSET Perms,
                 GrantStart(s, r, add, drop)
          PROVE  RolesInv'
        <2>1. /\ call'[s] = [pc |-> "grant.change", role |-> r, todo |-> add, drop |-> drop]
              /\ \A t \in Slots \ {s} : call'[t] = call[t]
            BY <1>5, <1>a, <1>t, Beginnings, Begun DEF GrantStart
        <2>2. Fit(s)' /\ Vacated(s)'
            BY <1>5, <1>d, <2>1 DEF GrantStart, Fit, Named, Measured, Seen, Vacated, OnRole,
               Assigning, Sharing, Passed, Copying
        <2>3. \A q : Uses(s, q)' => q = r
            BY <2>1 DEF Uses
        <2>4. \A t \in Slots : Deletes(t, r) => r \in raced'
            BY <1>5 DEF GrantStart, Race
        <2> QED
            BY <1>5, <1>t, <2>1, <2>2, <2>3, <2>4, TablesKept DEF GrantStart, Race
    <1>6. ASSUME NEW by \in Users, NEW u \in Users, NEW r \in RoleIds,
                 AssignRoleToUser(s, by, u, r)
          PROVE  RolesInv'
        <2>0. Checked(by, u, r, {}) \in Calls
            BY <1>t, Beginnings DEF Calls
        <2>1. call'[s] = Checked(by, u, r, {}) /\ \A t \in Slots \ {s} : call'[t] = call[t]
            BY <1>6, <1>a, <1>t, <2>0, Begun DEF AssignRoleToUser
        <2>2. Fit(s)' /\ Vacated(s)' /\ \A q : Uses(s, q)' => q = r
            BY <1>6, <2>1, CheckedFits DEF AssignRoleToUser
        <2>3. \A t \in Slots : Deletes(t, r) => r \in raced'
            BY <1>6 DEF AssignRoleToUser, Race
        <2> QED
            BY <1>6, <1>t, <2>1, <2>2, <2>3, TablesKept DEF AssignRoleToUser, Race
    <1>7. ASSUME NEW by \in Users, NEW us \in SUBSET Users, NEW r \in RoleIds,
                 BulkAssignUsersToRole(s, by, us, r)
          PROVE  RolesInv'
        <2> DEFINE pc == IF by \in Admins THEN "users.insert" ELSE "users.level"
                   c == [pc |-> pc, by |-> by, todo |-> us, role |-> r, max |-> 0]
        <2>1. c \in Calls
            BY <1>t, Beginnings DEF Sharing
        <2>2. call'[s] = c /\ \A t \in Slots \ {s} : call'[t] = call[t]
            BY <1>7, <1>b, <1>t, <2>1, Begun DEF BulkAssignUsersToRole
        <2>3. /\ call'[s].pc \in Sharing /\ call'[s].role = r /\ call'[s].max = 0
              /\ call'[s].by = by
              /\ call'[s].pc \in Passed => by \in Admins
            BY <2>2 DEF Sharing, Passed
        <2>4. 0 <= ceiling
            BY <1>d DEF Levels
        <2>5. Fit(s)' /\ Vacated(s)' /\ \A q : Uses(s, q)' => q = r
            BY <1>7, <1>d, <2>3, <2>4
            DEF BulkAssignUsersToRole, Fit, Named, Measured, Seen, Vacated, Uses, OnRole,
                Assigning, Sharing, Copying
        <2>6. \A t \in Slots : Deletes(t, r) => r \in raced'
            BY <1>7 DEF BulkAssignUsersToRole, Race
        <2> QED
            BY <1>7, <1>t, <2>2, <2>5, <2>6, TablesKept DEF BulkAssignUsersToRole, Race
    <1>8. ASSUME NEW u \in Users, NEW r \in RoleIds, RemoveRole(s, u, r) PROVE RolesInv'
        <2>1. call'[s] = Idle /\ \A t \in Slots \ {s} : call'[t] = call[t]
            BY <1>8, <1>a, <1>t, Beginnings, Begun DEF RemoveRole
        <2>2. Fit(s)' /\ Vacated(s)' /\ \A q : ~Uses(s, q)'
            BY <2>1, Unburdened DEF Idle, Quiet
        <2> QED
            BY <1>8, <1>t, <1>c, <1>d, <2>1, <2>2, StepKeeps DEF RemoveRole
    <1>9. ASSUME NEW u \in Users, NEW rs \in SUBSET RoleIds, BulkRemove(s, u, rs)
          PROVE  RolesInv'
        <2>1. call'[s].pc = "remove.next" /\ \A t \in Slots \ {s} : call'[t] = call[t]
            BY <1>9, <1>b, <1>t, Beginnings, Begun DEF BulkRemove
        <2>2. Fit(s)' /\ Vacated(s)' /\ \A q : ~Uses(s, q)'
            BY <2>1, Unburdened DEF Quiet
        <2> QED
            BY <1>9, <1>t, <2>1, <2>2, TablesKept DEF BulkRemove
    <1>10. ASSUME NEW by \in Users, NEW u \in Users, NEW rs \in SUBSET RoleIds,
                  BulkAssignRolesToUser(s, by, u, rs)
           PROVE  RolesInv'
        <2>1. /\ call'[s].pc = "assign.next" /\ call'[s].rest = rs
              /\ \A t \in Slots \ {s} : call'[t] = call[t]
            BY <1>10, <1>b, <1>t, Beginnings, Begun DEF BulkAssignRolesToUser
        <2>2. Fit(s)' /\ Vacated(s)' /\ \A q : ~Uses(s, q)'
            BY <1>10, <2>1, Unburdened DEF Quiet, BulkAssignRolesToUser
        <2> QED
            BY <1>10, <1>t, <2>1, <2>2, TablesKept DEF BulkAssignRolesToUser
    <1>11. ASSUME NEW p \in Perms, CreatePermission(s, p) \/ DeletePermission(s, p)
           PROVE  RolesInv'
        <2>1. call'[s] = Idle /\ \A t \in Slots \ {s} : call'[t] = call[t]
            BY <1>11, <1>a, <1>t, Beginnings, Begun DEF CreatePermission, DeletePermission
        <2>2. Fit(s)' /\ Vacated(s)' /\ \A q : ~Uses(s, q)'
            BY <2>1, Unburdened DEF Idle, Quiet
        <2>3. UNCHANGED <<exists, used, level, holds, grants, raced, ceiling>>
            BY <1>11 DEF CreatePermission, DeletePermission
        <2> QED
            BY <1>t, <1>c, <1>d, <2>1, <2>2, <2>3, StepKeeps
    <1>12. ASSUME NEW u \in Users, NEW r \in RoleIds,
                  AcceptInvitation(s, u, r) \/ CreateTenant(s, u, r)
           PROVE  RolesInv'
        <2>0. PICK pc \in Joining : /\ BeginMany(s, [pc |-> pc, user |-> u, role |-> r], 1)
                                    /\ pc = "join.insert" => r \in exists
            BY <1>12 DEF AcceptInvitation, CreateTenant, Joining
        <2>1. /\ call'[s] = [pc |-> pc, user |-> u, role |-> r]
              /\ \A t \in Slots \ {s} : call'[t] = call[t]
            BY <1>a, <1>t, <2>0, Beginnings, Begun
        <2>2. r \in used /\ Race(r) /\ UNCHANGED <<Tables, ceiling>>
            BY <1>12, <1>d DEF AcceptInvitation, CreateTenant
        <2>3. Fit(s)' /\ Vacated(s)' /\ \A q : Uses(s, q)' => q = r
            BY <2>0, <2>1, <2>2 DEF Fit, Named, Measured, Seen, Vacated, Uses, OnRole,
               Assigning, Sharing, Joining, Passed, Copying
        <2>4. \A t \in Slots : Deletes(t, r) => r \in raced'
            BY <2>2 DEF Race
        <2> QED
            BY <1>t, <2>1, <2>2, <2>3, <2>4, TablesKept DEF Race
    <1> QED
        BY <1>1, <1>2, <1>3, <1>4, <1>5, <1>6, <1>7, <1>8, <1>9, <1>10, <1>11, <1>12
        DEF RolesBegin

LEMMA InvFault ==
    ASSUME RolesInv, NEW s \in Slots, PassOver(s) \/ Abort(s)
    PROVE  RolesInv'
    <1>t. RolesTypeOK /\ RolesTypeOK' /\ Fit(s)
        BY RolesTypeKept DEF RolesInv
    <1>1. CASE Abort(s)
        <2>1. call'[s] = Idle /\ \A t \in Slots \ {s} : call'[t] = call[t]
            BY <1>1, <1>t, Over DEF Abort
        <2>2. Fit(s)' /\ Vacated(s)' /\ \A q : ~Uses(s, q)'
            BY <2>1, Unburdened DEF Idle, Quiet
        <2> QED
            BY <1>1, <1>t, <2>1, <2>2, TablesKept DEF Abort
    <1>2. CASE PassOver(s)
        <2>1. \A t \in Slots \ {s} : call'[t] = call[t]
            BY <1>2, <1>t DEF PassOver, RolesTypeOK
        <2>2. CASE /\ call[s].pc \in Assigning
                   /\ call' = [call EXCEPT ![s] = NextOf(call[s], call[s].rest)]
            <3>1. call'[s] = NextOf(call[s], call[s].rest)
                BY <1>t, <2>2 DEF RolesTypeOK
            <3>2. /\ call'[s].pc \in Quiet
                  /\ call'[s].pc = "assign.next" => call'[s].rest \subseteq used'
                BY <1>2, <1>t, <2>2, <3>1, Shape, NextIs DEF PassOver, Tables, Quiet, Fit, Named
            <3>3. Fit(s)' /\ Vacated(s)' /\ \A q : ~Uses(s, q)'
                BY <3>2, Unburdened
            <3> QED
                BY <1>2, <1>t, <2>1, <3>3, TablesKept DEF PassOver
        <2>3. ASSUME At(s, "users.insert"), NEW u \in call[s].todo,
                     call' = [call EXCEPT ![s].todo = @ \ {u}]
              PROVE  RolesInv'
            <3>1. call[s] \in Share
                BY <1>t, <2>3, Shape DEF At, Sharing
            <3>2. /\ call'[s].pc = call[s].pc /\ call'[s].role = call[s].role
                  /\ call'[s].max = call[s].max /\ call'[s].by = call[s].by
                BY <1>t, <2>3, <3>1 DEF Share, RolesTypeOK
            <3>3. /\ Fit(s)' /\ Vacated(s)'
                  /\ \A q : Uses(s, q)' => Uses(s, q)
                BY <1>2, <1>t, <2>3, <3>2
                DEF PassOver, Tables, At, Fit, Named, Measured, Seen, Vacated, Uses, OnRole,
                    Assigning, Sharing, Copying, Passed
            <3> QED
                BY <1>2, <1>t, <2>1, <3>3, TablesKept DEF PassOver
        <2>4. ASSUME At(s, "remove.next"), NEW r \in call[s].rest,
                     call' = [call EXCEPT ![s].rest = @ \ {r}]
              PROVE  RolesInv'
            <3>1. call'[s].pc = "remove.next"
                BY <1>t, <2>4, Shape DEF At, Remove, RolesTypeOK
            <3>2. Fit(s)' /\ Vacated(s)' /\ \A q : ~Uses(s, q)'
                BY <3>1, Unburdened DEF Quiet
            <3> QED
                BY <1>2, <1>t, <2>1, <3>2, TablesKept DEF PassOver
        <2> QED
            BY <1>2, <2>2, <2>3, <2>4 DEF PassOver
    <1> QED
        BY <1>1, <1>2

\* A request that looks at its role once more and may go on to another step.
LEMMA InvStep ==
    ASSUME RolesInv, NEW s \in Slots, RolesStep(s)
    PROVE  RolesInv'
    <1> USE DEF Catalogue, Tables, Counters
    <1>t. RolesTypeOK /\ RolesTypeOK' /\ Fit(s) /\ Vacated(s)
        BY RolesTypeKept DEF RolesInv
    <1>d. used \subseteq RoleIds /\ exists \subseteq used /\ level \in [RoleIds -> Levels]
          /\ ceiling \in Levels
        BY <1>t DEF RolesTypeOK
    <1>c. ceiling <= ceiling' \/ ceiling' # ceiling
        BY <1>d DEF Levels
    <1>o. \A t \in Slots \ {s} : call'[t] = call[t]
        BY <1>t DEF RolesTypeOK, RolesStep, DeleteGrants, DeleteRow, GrantOne, AssignNext,
           AssignTarget, AssignRole, AssignInsert, ShareLevel, ShareTarget, ShareInsert,
           RemoveNext, JoinRole, JoinInsert, CloneInsert, CloneRead, CloneCopy, Goto, Done
    <1>1. CASE DeleteGrants(s)
        <2>1. call[s] \in Delete /\ call[s].pc = "delete.grants"
            BY <1>1, <1>t, Shape DEF DeleteGrants, At
        <2>2. call'[s].pc = "delete.row" /\ call'[s].role = call[s].role
            <3>1. call'[s] = [call[s] EXCEPT !.pc = "delete.row"]
                BY <1>1, <1>t, <2>1, Advanced DEF DeleteGrants
            <3> QED
                BY <2>1, <3>1 DEF Delete
        <2>3. Fit(s)'
            BY <1>1, <1>t, <2>1, <2>2 DEF DeleteGrants, Fit, Named, Measured, Seen, OnRole,
               Assigning, Sharing, Passed, Copying
        <2>4. \A t \in Slots : \A q : Uses(t, q)' => Uses(t, q)
            BY <1>o, <2>1, <2>2 DEF Uses, Assigning, Sharing
        <2>5. Vacated(s)'
            <3>1. \A t \in Slots : ~Uses(t, call[s].role) => ~(Uses(t, call[s].role)')
                BY <1>o, <2>1, <2>2 DEF Uses, Assigning, Sharing
            <3>2. ASSUME call[s].role \notin raced
                  PROVE  /\ \A h \in holds : h[2] # call[s].role
                         /\ \A t \in Slots : ~(Uses(t, call[s].role)')
                BY <1>t, <2>1, <3>1, <3>2 DEF Vacated
            <3>3. /\ UNCHANGED <<holds, raced>>
                  /\ \A g \in grants' : g[1] # call[s].role
                BY <1>1 DEF DeleteGrants
            <3> QED
                BY <2>2, <3>2, <3>3 DEF Vacated
        <2> QED
            BY <1>1, <1>t, <1>c, <1>d, <1>o, <2>3, <2>4, <2>5, StepKeeps DEF DeleteGrants
    <1>2. CASE DeleteRow(s)
        <2>1. call[s] \in Delete /\ call[s].pc = "delete.row"
            BY <1>2, <1>t, Shape DEF DeleteRow, At
        <2>2. call'[s] = Idle
            BY <1>2, <1>t, Over DEF DeleteRow
        <2>3. Fit(s)' /\ Vacated(s)' /\ \A q : ~Uses(s, q)'
            BY <2>2, Unburdened DEF Idle, Quiet
        <2>4. \A q \in exists \ (exists' \cup raced') :
                  /\ \A t \in Slots \ {s} : ~Uses(t, q)
                  /\ \A h \in holds' : h[2] # q
                  /\ \A g \in grants' : g[1] # q
            BY <1>2, <1>t, <2>1 DEF DeleteRow, Vacated, At
        <2> QED
            BY <1>2, <1>t, <1>c, <1>d, <1>o, <2>3, <2>4, StepKeeps DEF DeleteRow
    <1>3. CASE GrantOne(s)
        <2>1. call[s] \in Grant /\ call[s].pc = "grant.change"
            BY <1>3, <1>t, Shape DEF GrantOne, At
        <2>2. \/ /\ call'[s].pc = "grant.change" /\ call'[s].role = call[s].role
              \/ call'[s] = Idle
            BY <1>3, <1>t, <2>1 DEF GrantOne, Done, Grant, RolesTypeOK
        <2>3. Fit(s)' /\ Vacated(s)' /\ \A q : Uses(s, q)' => Uses(s, q)
            BY <1>3, <1>t, <2>1, <2>2
            DEF GrantOne, Fit, Named, Measured, Seen, Vacated, Uses, OnRole, Assigning, Sharing,
                Passed, Copying, Idle
        <2>4. \A g \in grants' \ grants : Uses(s, g[1]) /\ g[1] \in exists \cup raced
            <3>1. call[s].role \in exists \cup raced /\ Uses(s, call[s].role)
                BY <1>t, <2>1 DEF Fit, Seen, Uses
            <3> QED
                BY <1>3, <3>1 DEF GrantOne
        <2> QED
            BY <1>3, <1>t, <1>c, <1>d, <1>o, <2>3, <2>4, StepKeeps DEF GrantOne
    <1>4. CASE AssignNext(s)
        <2>1. PICK r \in call[s].rest :
                  /\ call' = [call EXCEPT ![s] = Checked(call[s].by, call[s].user, r,
                                                         call[s].rest \ {r})]
                  /\ Race(r)
            BY <1>4 DEF AssignNext
        <2>2. call[s] \in NextRole /\ call[s].pc = "assign.next"
            BY <1>4, <1>t, Shape DEF AssignNext, At
        <2>3. PICK by, u, rest : by = call[s].by /\ u = call[s].user /\ rest = call[s].rest \ {r}
            OBVIOUS
        <2>4. /\ by \in Users /\ u \in Users /\ r \in used /\ rest \in SUBSET used
              /\ call'[s] = Checked(by, u, r, rest)
            BY <1>t, <2>1, <2>2, <2>3 DEF NextRole, Fit, Named, RolesTypeOK
        <2>5. Fit(s)' /\ Vacated(s)' /\ \A q : Uses(s, q)' => q = r
            BY <1>4, <2>4, CheckedFits DEF AssignNext
        <2>6. \A t \in Slots : Deletes(t, r) => r \in raced'
            BY <2>1 DEF Race
        <2> QED
            BY <1>4, <1>t, <1>o, <2>1, <2>5, <2>6, TablesKept DEF AssignNext, Race
    <1>5. ASSUME call[s] \in Assign, call'[s] = NextOf(call[s], call[s].rest),
                 UNCHANGED used
          PROVE  Fit(s)' /\ Vacated(s)' /\ \A q : ~Uses(s, q)'
        <2>1. call[s].pc \in Assigning
            BY <1>5 DEF Assign
        <2>2. /\ call'[s].pc \in Quiet
              /\ call'[s].pc = "assign.next" => call'[s].rest \subseteq used'
            BY <1>5, <1>t, <2>1, NextIs DEF Quiet, Fit, Named
        <2> QED
            BY <2>2, Unburdened
    <1>6. CASE AssignTarget(s)
        <2>1. call[s] \in Assign /\ call[s].pc = "assign.target"
            BY <1>6, <1>t, Shape DEF AssignTarget, At, Assigning
        <2>2. CASE call' = [call EXCEPT ![s] = NextOf(@, @.rest)]
            <3>1. call'[s] = NextOf(call[s], call[s].rest)
                BY <1>t, <2>2 DEF RolesTypeOK
            <3>2. Fit(s)' /\ Vacated(s)' /\ \A q : ~Uses(s, q)'
                BY <1>5, <1>6, <2>1, <3>1 DEF AssignTarget
            <3> QED
                BY <1>6, <1>t, <1>o, <3>2, TablesKept DEF AssignTarget
        <2>3. CASE ~(LevelOfRole(call[s].role) > call[s].max) /\ Goto(s, "assign.role")
            <3>1. call'[s] = [call[s] EXCEPT !.pc = "assign.role"]
                BY <1>t, <2>1, <2>3, Advanced DEF Assigning
            <3>2. /\ call'[s].pc = "assign.role" /\ call'[s].role = call[s].role
                  /\ call'[s].max = call[s].max /\ call'[s].rest = call[s].rest
                  /\ call'[s].by = call[s].by
                BY <2>1, <3>1 DEF Assign
            <3>3. call[s].max <= ceiling /\ call[s].max \in Nat /\ ceiling \in Nat
                BY <1>t, <1>d, <2>1 DEF Fit, Measured, Assigning, Assign, Levels
            <3>4. call[s].role \in exists => level[call[s].role] <= ceiling
                <4>1. call[s].role \in exists => LevelOfRole(call[s].role) = level[call[s].role]
                                                 /\ level[call[s].role] \in Nat
                    BY <1>d DEF LevelOfRole, Levels
                <4> QED
                    BY <2>3, <3>3, <4>1
            <3>5. Fit(s)' /\ Vacated(s)' /\ \A q : Uses(s, q)' => Uses(s, q)
                BY <1>6, <1>t, <2>1, <3>2, <3>4
                DEF AssignTarget, Fit, Named, Measured, Seen, Vacated, Uses, OnRole, Assigning,
                    Sharing, Passed, Copying
            <3> QED
                BY <1>6, <1>t, <1>o, <3>5, TablesKept DEF AssignTarget
        <2> QED
            BY <1>6, <2>2, <2>3 DEF AssignTarget
    <1>7. CASE AssignRole(s)
        <2>1. call[s] \in Assign /\ call[s].pc = "assign.role"
            BY <1>7, <1>t, Shape DEF AssignRole, At, Assigning
        <2>2. CASE call' = [call EXCEPT ![s] = NextOf(@, @.rest)]
            <3>1. call'[s] = NextOf(call[s], call[s].rest)
                BY <1>t, <2>2 DEF RolesTypeOK
            <3>2. Fit(s)' /\ Vacated(s)' /\ \A q : ~Uses(s, q)'
                BY <1>5, <1>7, <2>1, <3>1 DEF AssignRole
            <3> QED
                BY <1>7, <1>t, <1>o, <3>2, TablesKept DEF AssignRole
        <2>3. CASE call[s].role \in exists /\ Goto(s, "assign.insert")
            <3>1. call'[s] = [call[s] EXCEPT !.pc = "assign.insert"]
                BY <1>t, <2>1, <2>3, Advanced DEF Assigning
            <3>2. /\ call'[s].pc = "assign.insert" /\ call'[s].role = call[s].role
                  /\ call'[s].max = call[s].max /\ call'[s].rest = call[s].rest
                  /\ call'[s].by = call[s].by
                BY <2>1, <3>1 DEF Assign
            <3>3. Fit(s)' /\ Vacated(s)' /\ \A q : Uses(s, q)' => Uses(s, q)
                BY <1>7, <1>t, <2>1, <2>3, <3>2
                DEF AssignRole, Fit, Named, Measured, Seen, Vacated, Uses, OnRole, Assigning,
                    Sharing, Passed, Copying
            <3> QED
                BY <1>7, <1>t, <1>o, <3>3, TablesKept DEF AssignRole
        <2> QED
            BY <1>7, <2>2, <2>3 DEF AssignRole
    <1>8. ASSUME call[s].pc \in {"assign.insert", "users.insert"},
                 UNCHANGED <<exists, level>>,
                 call[s].by \in Users, call[s].role \in RoleIds, Authority(call[s].by, call[s].role)
          PROVE  /\ ceiling <= ceiling'
                 /\ Uses(s, call[s].role) /\ call[s].role \in exists \cup raced
                 /\ call[s].role \in used
                 /\ call[s].role \in exists' => level'[call[s].role] <= ceiling'
        <2>1. Uses(s, call[s].role) /\ call[s].role \in exists \cup raced /\ call[s].role \in used
            BY <1>8, <1>t DEF Fit, Named, Seen, Uses, OnRole, Assigning, Sharing
        <2>2. level[call[s].role] \in Levels
            BY <1>8, <1>d
        <2>3. CASE call[s].by \in Admins
            BY <1>8, <1>d, <2>1, <2>2, <2>3, HighestOfTwo DEF Authority
        <2>4. CASE call[s].by \notin Admins
            <3>1. call[s].role \in exists => level[call[s].role] <= ceiling
                BY <1>8, <1>t, <2>4 DEF Fit, Measured, Passed
            <3> QED
                BY <1>8, <1>c, <2>1, <2>4, <3>1 DEF Authority
        <2> QED
            BY <2>3, <2>4
    <1>9. CASE AssignInsert(s)
        <2>1. call[s] \in Assign /\ call[s].pc = "assign.insert"
            BY <1>9, <1>t, Shape DEF AssignInsert, At, Assigning
        <2>2. call'[s] = NextOf(call[s], call[s].rest)
            BY <1>9, <1>t DEF AssignInsert, RolesTypeOK
        <2>3. Fit(s)' /\ Vacated(s)' /\ \A q : ~Uses(s, q)'
            BY <1>5, <1>9, <2>1, <2>2 DEF AssignInsert
        <2>4. call[s].by \in Users /\ call[s].role \in RoleIds
            BY <2>1 DEF Assign
        <2>5. /\ ceiling <= ceiling'
              /\ Uses(s, call[s].role) /\ call[s].role \in exists \cup raced
              /\ call[s].role \in used
              /\ call[s].role \in exists' => level'[call[s].role] <= ceiling'
            BY <1>8, <1>9, <2>1, <2>4 DEF AssignInsert
        <2>6. \A h \in holds' \ holds : h[2] = call[s].role
            BY <1>9 DEF AssignInsert
        <2> QED
            BY <1>9, <1>t, <1>d, <1>o, <2>3, <2>5, <2>6, StepKeeps DEF AssignInsert
    <1>10. CASE ShareLevel(s)
        <2>1. call[s] \in Share /\ call[s].pc = "users.level"
            BY <1>10, <1>t, Shape DEF ShareLevel, At, Sharing
        <2>2. /\ call'[s].pc = "users.target" /\ call'[s].role = call[s].role
              /\ call'[s].max = LevelOf(call[s].by)
            BY <1>10, <1>t, <2>1 DEF ShareLevel, Share, RolesTypeOK
        <2>3. LevelOf(call[s].by) <= ceiling
            BY LevelsBelow
        <2>4. /\ call[s].role \in used /\ call[s].role \in exists \cup raced
              /\ UNCHANGED <<used, exists, raced, ceiling>>
            BY <1>10, <1>t, <2>1 DEF ShareLevel, Fit, Named, Seen, OnRole, Sharing
        <2>5. Fit(s)'
            BY <2>2, <2>3, <2>4 DEF Fit, Named, Measured, Seen, OnRole, Assigning, Sharing, Passed,
               Copying
        <2>6. Vacated(s)' /\ \A q : Uses(s, q)' => Uses(s, q)
            BY <2>1, <2>2 DEF Vacated, Uses, Assigning, Sharing
        <2> QED
            BY <1>10, <1>t, <1>o, <2>5, <2>6, TablesKept DEF ShareLevel
    <1>11. CASE ShareTarget(s)
        <2>1. call[s] \in Share /\ call[s].pc = "users.target"
            BY <1>11, <1>t, Shape DEF ShareTarget, At, Sharing
        <2>2. CASE Done(s)
            <3>1. call'[s] = Idle
                BY <1>t, <2>2, Over
            <3>2. Fit(s)' /\ Vacated(s)' /\ \A q : ~Uses(s, q)'
                BY <3>1, Unburdened DEF Idle, Quiet
            <3> QED
                BY <1>11, <1>t, <1>o, <3>2, TablesKept DEF ShareTarget
        <2>3. CASE ~(LevelOfRole(call[s].role) > call[s].max) /\ Goto(s, "users.insert")
            <3>1. call'[s] = [call[s] EXCEPT !.pc = "users.insert"]
                BY <1>t, <2>1, <2>3, Advanced DEF Sharing
            <3>2. /\ call'[s].pc = "users.insert" /\ call'[s].role = call[s].role
                  /\ call'[s].max = call[s].max /\ call'[s].by = call[s].by
                BY <2>1, <3>1 DEF Share
            <3>3. call[s].max <= ceiling /\ call[s].max \in Nat /\ ceiling \in Nat
                BY <1>t, <1>d, <2>1 DEF Fit, Measured, Sharing, Share, Levels
            <3>4. call[s].role \in exists => level[call[s].role] <= ceiling
                <4>1. call[s].role \in exists => LevelOfRole(call[s].role) = level[call[s].role]
                                                 /\ level[call[s].role] \in Nat
                    BY <1>d DEF LevelOfRole, Levels
                <4> QED
                    BY <2>3, <3>3, <4>1
            <3>5. Fit(s)' /\ Vacated(s)' /\ \A q : Uses(s, q)' => Uses(s, q)
                BY <1>11, <1>t, <2>1, <3>2, <3>4
                DEF ShareTarget, Fit, Named, Measured, Seen, Vacated, Uses, OnRole, Assigning,
                    Sharing, Passed, Copying
            <3> QED
                BY <1>11, <1>t, <1>o, <3>5, TablesKept DEF ShareTarget
        <2> QED
            BY <1>11, <2>2, <2>3 DEF ShareTarget
    <1>12. CASE ShareInsert(s)
        <2>1. call[s] \in Share /\ call[s].pc = "users.insert"
            BY <1>12, <1>t, Shape DEF ShareInsert, At, Sharing
        <2>2. PICK u \in call[s].todo :
                  /\ holds' = holds \cup {<<u, call[s].role>>}
                  /\ call' = [call EXCEPT ![s] = IF call[s].todo = {u} THEN Idle
                                                 ELSE [call[s] EXCEPT !.todo = @ \ {u}]]
            BY <1>12 DEF ShareInsert
        <2>3. \/ call'[s] = Idle
              \/ /\ call'[s].pc = "users.insert" /\ call'[s].role = call[s].role
                 /\ call'[s].max = call[s].max /\ call'[s].by = call[s].by
            BY <1>t, <2>1, <2>2 DEF Share, RolesTypeOK
        <2>4. call[s].by \in Users /\ call[s].role \in RoleIds
            BY <2>1 DEF Share
        <2>5. /\ ceiling <= ceiling'
              /\ Uses(s, call[s].role) /\ call[s].role \in exists \cup raced
              /\ call[s].role \in used
              /\ call[s].role \in exists' => level'[call[s].role] <= ceiling'
            BY <1>8, <1>12, <2>1, <2>4 DEF ShareInsert
        <2>6. call[s].max <= ceiling'
            BY <1>t, <1>d, <2>1, <2>5 DEF Fit, Measured, Sharing, Share, Levels, RolesTypeOK
        <2>7. Fit(s)' /\ Vacated(s)' /\ \A q : Uses(s, q)' => Uses(s, q)
            BY <1>12, <1>t, <2>1, <2>3, <2>5, <2>6
            DEF ShareInsert, Fit, Named, Measured, Seen, Vacated, Uses, OnRole, Assigning,
                Sharing, Passed, Copying, Idle
        <2>8. \A h \in holds' \ holds : h[2] = call[s].role
            BY <2>2
        <2> QED
            BY <1>12, <1>t, <1>d, <1>o, <2>5, <2>7, <2>8, StepKeeps DEF ShareInsert
    <1>13. CASE RemoveNext(s)
        <2>1. call[s] \in Remove /\ call[s].pc = "remove.next"
            BY <1>13, <1>t, Shape DEF RemoveNext, At
        <2>2. call'[s].pc \in {"idle", "remove.next"}
            BY <1>13, <1>t, <2>1 DEF RemoveNext, Remove, Idle, RolesTypeOK
        <2>3. Fit(s)' /\ Vacated(s)' /\ \A q : ~Uses(s, q)'
            BY <2>2, Unburdened DEF Quiet
        <2>4. holds' \subseteq holds
            BY <1>13 DEF RemoveNext
        <2> QED
            BY <1>13, <1>t, <1>c, <1>d, <1>o, <2>3, <2>4, StepKeeps DEF RemoveNext
    <1>14. CASE CloneInsert(s)
        <2>1. call[s] \in Clone /\ call[s].pc = "clone.insert"
            BY <1>14, <1>t, Shape DEF CloneInsert, At
        <2>2. PICK r \in RoleIds \ used :
                  /\ exists' = exists \cup {r} /\ used' = used \cup {r}
                  /\ level' = [level EXCEPT ![r] = call[s].level]
                  /\ call' = [call EXCEPT ![s].pc = "clone.read", ![s].copy = r]
            BY <1>14 DEF CloneInsert
        <2>3. call'[s].pc = "clone.read" /\ call'[s].copy = r
            BY <1>t, <2>1, <2>2 DEF Clone, RolesTypeOK
        <2>4. Fit(s)'
            BY <2>2, <2>3 DEF Fit, Named, Measured, Seen, OnRole, Assigning, Sharing, Passed,
               Copying
        <2>7. Vacated(s)' /\ \A q : Uses(s, q)' => q = r
            BY <2>3 DEF Vacated, Uses, Assigning, Sharing
        <2>5. \A t \in Slots : ~Deletes(t, r)
            BY <2>2 DEF RolesInv, Fit, Named, Deletes, OnRole
        <2>6. \A q \in exists' \cap used : level'[q] = level[q]
            BY <1>d, <2>2
        <2>8. /\ used \subseteq used' /\ exists' \cap used \subseteq exists /\ exists \subseteq exists'
              /\ UNCHANGED <<holds, grants, raced, ceiling>>
            BY <1>14, <1>d, <2>2 DEF CloneInsert
        <2>9. \A q : Uses(s, q)' /\ ~Uses(s, q) =>
                  \A t \in Slots \ {s} : Deletes(t, q) => q \in raced'
            BY <2>5, <2>7
        <2> QED
            BY <1>t, <1>c, <1>o, <2>4, <2>6, <2>7, <2>8, <2>9, StepKeeps
    <1>15. CASE CloneRead(s)
        <2>1. call[s] \in Clone /\ call[s].pc = "clone.read"
            BY <1>15, <1>t, Shape DEF CloneRead, At
        <2>2. call'[s].pc = "clone.copy" /\ call'[s].copy = call[s].copy
            BY <1>15, <1>t, <2>1 DEF CloneRead, Clone, RolesTypeOK
        <2>3. Fit(s)' /\ Vacated(s)' /\ \A q : Uses(s, q)' => Uses(s, q)
            BY <1>15, <1>t, <2>1, <2>2
            DEF CloneRead, Fit, Named, Measured, Seen, Vacated, Uses, OnRole, Assigning, Sharing,
                Passed, Copying
        <2> QED
            BY <1>15, <1>t, <1>o, <2>3, TablesKept DEF CloneRead
    <1>16. CASE CloneCopy(s)
        <2>1. call[s] \in Clone /\ call[s].pc = "clone.copy"
            BY <1>16, <1>t, Shape DEF CloneCopy, At
        <2>2. \/ call'[s].pc = "clone.copy" /\ call'[s].copy = call[s].copy
              \/ call'[s] = Idle
            BY <1>16, <1>t, <2>1 DEF CloneCopy, Done, Clone, RolesTypeOK
        <2>3. Fit(s)' /\ Vacated(s)' /\ \A q : Uses(s, q)' => Uses(s, q)
            BY <1>16, <1>t, <2>1, <2>2
            DEF CloneCopy, Fit, Named, Measured, Seen, Vacated, Uses, OnRole, Assigning, Sharing,
                Passed, Copying, Idle
        <2>4. \A g \in grants' \ grants : Uses(s, g[1]) /\ g[1] \in exists \cup raced
            <3>1. call[s].copy \in exists \cup raced /\ Uses(s, call[s].copy)
                BY <1>t, <2>1 DEF Fit, Seen, Uses, Copying
            <3> QED
                BY <1>16, <3>1 DEF CloneCopy
        <2> QED
            BY <1>16, <1>t, <1>c, <1>d, <1>o, <2>3, <2>4, StepKeeps DEF CloneCopy
    <1>17. CASE JoinRole(s)
        <2>1. call[s] \in Join /\ call[s].pc = "join.role"
            BY <1>17, <1>t, Shape DEF JoinRole, At, Joining
        <2>2. CASE Done(s)
            <3>1. call'[s] = Idle
                BY <1>t, <2>2, Over
            <3>2. Fit(s)' /\ Vacated(s)' /\ \A q : ~Uses(s, q)'
                BY <3>1, Unburdened DEF Idle, Quiet
            <3> QED
                BY <1>17, <1>t, <1>o, <3>2, TablesKept DEF JoinRole
        <2>3. CASE call[s].role \in exists /\ Goto(s, "join.insert")
            <3>1. call'[s] = [call[s] EXCEPT !.pc = "join.insert"]
                BY <1>t, <2>1, <2>3, Advanced DEF Joining
            <3>2. call'[s].pc = "join.insert" /\ call'[s].role = call[s].role
                BY <2>1, <3>1 DEF Join
            <3>3. Fit(s)' /\ Vacated(s)' /\ \A q : Uses(s, q)' => Uses(s, q)
                BY <1>17, <1>t, <2>1, <2>3, <3>2
                DEF JoinRole, Fit, Named, Measured, Seen, Vacated, Uses, OnRole, Assigning,
                    Sharing, Joining, Passed, Copying
            <3> QED
                BY <1>17, <1>t, <1>o, <3>3, TablesKept DEF JoinRole
        <2> QED
            BY <1>17, <2>2, <2>3 DEF JoinRole
    <1>18. CASE JoinInsert(s)
        <2>1. call[s] \in Join /\ call[s].pc = "join.insert"
            BY <1>18, <1>t, Shape DEF JoinInsert, At, Joining
        <2>2. call'[s] = Idle
            BY <1>18, <1>t, Over DEF JoinInsert
        <2>3. Fit(s)' /\ Vacated(s)' /\ \A q : ~Uses(s, q)'
            BY <2>2, Unburdened DEF Idle, Quiet
        <2>4. Uses(s, call[s].role) /\ call[s].role \in exists \cup raced /\ call[s].role \in used
            BY <1>t, <2>1 DEF Fit, Named, Seen, Uses, OnRole, Joining
        <2>5. level[call[s].role] \in Levels
            BY <1>d, <2>4
        <2>6. ceiling <= ceiling' /\ level'[call[s].role] <= ceiling'
            BY <1>18, <1>d, <2>5, HighestOfTwo DEF JoinInsert
        <2>7. \A h \in holds' \ holds : h[2] = call[s].role
            BY <1>18 DEF JoinInsert
        <2> QED
            BY <1>18, <1>t, <1>d, <1>o, <2>3, <2>4, <2>6, <2>7, StepKeeps DEF JoinInsert
    <1> QED
        BY <1>1, <1>2, <1>3, <1>4, <1>6, <1>7, <1>9, <1>10, <1>11, <1>12, <1>13, <1>14, <1>15,
           <1>16, <1>17, <1>18
        DEF RolesStep

\* Every step of a request for the roles keeps the invariant.
LEMMA RolesInvKept ==
    ASSUME RolesInv, NEW s \in Slots,
           RolesBegin(s) \/ RolesStep(s) \/ PassOver(s) \/ Abort(s)
    PROVE  RolesInv'
    BY InvBegin, InvStep, InvFault

\* At first no request is under way, and the ceiling is the highest level held.
LEMMA RolesInvInit == Init => RolesInv
    <1> SUFFICES ASSUME Init PROVE RolesInv
        OBVIOUS
    <1>1. PICK f \in [Users -> Seed] : holds = {<<u, f[u]>> : u \in Users}
        BY DEF Init
    <1>2. holds \subseteq Users \X Seed
        BY <1>1
    <1>3. level \in [RoleIds -> Levels]
        BY DEF Init
    <1> DEFINE S == {0} \cup {level[h[2]] : h \in holds}
    <1>4. S \subseteq Levels /\ S # {}
        <2>1. 0 \in Levels
            BY BoundsAssumption DEF Levels
        <2>2. \A h \in holds : level[h[2]] \in Levels
            BY <1>2, <1>3, SetsAssumption
        <2> QED
            BY <2>1, <2>2
    <1>5. S \subseteq Nat /\ IsFiniteSet(S)
        <2>1. IsFiniteSet(Levels)
            BY FS_Interval, BoundsAssumption DEF Levels
        <2>2. Levels \subseteq Nat /\ S \in SUBSET Levels
            BY <1>4 DEF Levels
        <2> HIDE DEF S
        <2> QED
            BY <2>1, <2>2, FS_Subset
    <1>6. Highest(S) \in S /\ \A m \in S : m <= Highest(S)
        <2> HIDE DEF S
        <2> QED
            BY <1>4, <1>5, HighestExists
    <1>7. ceiling = Highest(S)
        BY DEF Init
    <1>8. RolesTypeOK
        BY <1>2, <1>3, <1>4, <1>6, <1>7, SetsAssumption, BoundsAssumption DEF Init, RolesTypeOK
    <1>9. \A s \in Slots : call[s] = Idle
        BY DEF Init
    <1>10. \A s \in Slots : Fit(s) /\ Vacated(s)
        BY <1>9 DEF Idle, Fit, Named, Measured, Seen, Vacated, OnRole, Assigning, Sharing,
           Passed, Copying
    <1>11. HeldAreNamed /\ HeldRolesExist
        BY <1>2 DEF Init, HeldAreNamed, HeldRolesExist
    <1>12. NoClimb
        BY <1>6, <1>7 DEF NoClimb
    <1>13. DeletedRolesGrantNothing
        BY DEF Init, DeletedRolesGrantNothing
    <1> QED
        BY <1>8, <1>10, <1>11, <1>12, <1>13 DEF RolesInv, RolesConsistent

-----------------------------------------------------------------------------
\* What a request for menus, features or links knows at each of its steps.
FeatureSteps == FeaturePcs \cup {"feature.flag", "feature.rows"}

LEMMA EditShape ==
    ASSUME AccessTypeOK, NEW s \in Slots
    PROVE  /\ edit[s] \in Edits
           /\ edit[s].pc \in MenuPcs => edit[s] \in MenuEdit
           /\ edit[s].pc \in FeatureSteps => edit[s] \in FeatureEdit
           /\ In(s, "visit.count") => edit[s] \in Visit
    <1>1. edit[s] \in Edits
        BY DEF AccessTypeOK, Edits
    <1> QED
        BY <1>1 DEF Edits, In, MenuPcs, FeaturePcs, FeatureSteps, MenuEdit, FeatureEdit, Visit, Idle

LEMMA EditAssigned ==
    ASSUME AccessTypeOK, NEW s \in Slots, NEW e \in Edits, edit' = [edit EXCEPT ![s] = e]
    PROVE  /\ edit' \in [Slots -> Edits] /\ edit'[s] = e
           /\ \A t \in Slots \ {s} : edit'[t] = edit[t]
    BY DEF AccessTypeOK, Edits

LEMMA Entered ==
    ASSUME AccessTypeOK, NEW s \in Slots, NEW e \in Edits, Enter(s, e)
    PROVE  /\ edit' \in [Slots -> Edits] /\ edit'[s] = e /\ edit[s] = Idle
           /\ \A t \in Slots \ {s} : edit'[t] = edit[t]
           /\ edits' \in 0..MaxEdits /\ UNCHANGED rolesVars
    <1>1. /\ edit[s] = Idle /\ edits < MaxEdits /\ edits' = edits + 1
          /\ edit' = [edit EXCEPT ![s] = e] /\ UNCHANGED rolesVars
        BY DEF Enter
    <1>2. edits' \in 0..MaxEdits
        BY <1>1, ViewsAssumption DEF AccessTypeOK
    <1> QED
        BY <1>1, <1>2, EditAssigned

LEMMA Moved ==
    ASSUME AccessTypeOK, NEW s \in Slots, NEW pc, Move(s, pc),
           \/ edit[s] \in MenuEdit /\ pc \in MenuPcs
           \/ edit[s] \in FeatureEdit /\ pc \in FeatureSteps
    PROVE  /\ edit' \in [Slots -> Edits] /\ edit'[s] = [edit[s] EXCEPT !.pc = pc]
           /\ \A t \in Slots \ {s} : edit'[t] = edit[t]
           /\ UNCHANGED <<rolesVars, edits>>
    <1>1. [edit[s] EXCEPT !.pc = pc] \in Edits
        BY DEF Edits, MenuEdit, FeatureEdit, MenuPcs, FeatureSteps, FeaturePcs
    <1>2. edit' = [edit EXCEPT ![s] = [edit[s] EXCEPT !.pc = pc]]
        BY DEF Move, AccessTypeOK
    <1> QED
        BY <1>1, <1>2, EditAssigned DEF Move

LEMMA Left ==
    ASSUME AccessTypeOK, NEW s \in Slots, Leave(s)
    PROVE  /\ edit' \in [Slots -> Edits] /\ edit'[s] = Idle
           /\ \A t \in Slots \ {s} : edit'[t] = edit[t]
           /\ UNCHANGED <<rolesVars, edits>>
    <1>1. Idle \in Edits
        BY DEF Edits
    <1> QED
        BY <1>1, EditAssigned DEF Leave

LEMMA RolesUnchanged ==
    ASSUME RolesInv, faults' \in 0..MaxFaults, UNCHANGED <<Tables, call, raced, ceiling, calls>>
    PROVE  RolesInv'
    <1> USE DEF Tables, Catalogue
    <1>1. RolesTypeOK'
        BY DEF RolesInv, RolesTypeOK
    <1>2. HeldAreNamed'
        BY DEF RolesInv, HeldAreNamed
    <1>3. ASSUME NEW s \in Slots PROVE Fit(s)' /\ Vacated(s)'
        <2>1. Fit(s) /\ Vacated(s)
            BY DEF RolesInv
        <2> QED
            BY <2>1 DEF Fit, Named, Measured, Seen, Vacated, Uses, At
    <1>4. RolesConsistent'
        BY DEF RolesInv, RolesConsistent, NoClimb, HeldRolesExist, DeletedRolesGrantNothing
    <1> QED
        BY <1>1, <1>2, <1>3, <1>4 DEF RolesInv

LEMMA AccessTyped ==
    ASSUME RolesInv', needs' \in [Menus -> SUBSET Perms], offers' \in [Menus -> SUBSET Perms],
           \A m \in Menus : needs'[m] \cap offers'[m] = {},
           live' \subseteq born', born' \subseteq Features, included' \subseteq Features \X Perms,
           link' \in [Links -> Link], edit' \in [Slots -> Edits], edits' \in 0..MaxEdits,
           asked' \in [Menus -> (SUBSET Perms) \X (SUBSET Perms)],
           muddled' \subseteq Menus, strayed' \subseteq Features, late' \in [Links -> Nat]
    PROVE  AccessTypeOK'
    BY DEF AccessTypeOK, Edits, RolesInv

-----------------------------------------------------------------------------
\* What a step of slot s has to leave alone for each of the three parts.
LEMMA MenusKept ==
    ASSUME MenuInv, UNCHANGED <<needs, offers, asked>>, NEW s \in Slots, muddled \subseteq muddled',
           \A t \in Slots \ {s} : edit'[t] = edit[t],
           edit'[s].pc \notin MenuPcs,
           edit[s].pc \in MenuPcs => edit[s].menu \in muddled'
    PROVE  MenuInv'
    <1> SUFFICES ASSUME NEW m \in Menus, m \notin muddled'
                 PROVE  /\ (\A t \in Slots : ~EditsMenu(t, m)') => <<needs[m], offers[m]>> = asked[m]
                        /\ \A t, q \in Slots : EditsMenu(t, m)' /\ EditsMenu(q, m)' => t = q
                        /\ \A t \in Slots : EditsMenu(t, m)' =>
                               Linking(t, m)' /\ Clearing(t, m)' /\ Filling(t, m)'
        BY DEF MenuInv
    <1>1. \A t \in Slots : EditsMenu(t, m)' <=> EditsMenu(t, m)
        BY DEF EditsMenu
    <1>2. ~EditsMenu(s, m)
        BY DEF EditsMenu
    <1>3. ASSUME NEW t \in Slots, EditsMenu(t, m)
          PROVE  Linking(t, m)' /\ Clearing(t, m)' /\ Filling(t, m)'
        <2>1. edit'[t] = edit[t] /\ Linking(t, m) /\ Clearing(t, m) /\ Filling(t, m)
            BY <1>2, <1>3 DEF MenuInv
        <2> QED
            BY <2>1 DEF Linking, Clearing, Filling, In
    <1> QED
        BY <1>1, <1>3 DEF MenuInv

LEMMA FeaturesKept ==
    ASSUME FeatureInv, UNCHANGED FeatureState, NEW s \in Slots,
           \A t \in Slots \ {s} : edit'[t] = edit[t],
           edit[s].pc \notin FeatureSteps, edit'[s].pc \notin FeatureSteps
    PROVE  FeatureInv'
    <1>1. \A t \in Slots, f \in Features : /\ Includes(t, f)' <=> Includes(t, f)
                                           /\ DeletesFeature(t, f)' <=> DeletesFeature(t, f)
        BY DEF Includes, DeletesFeature, FeatureSteps
    <1>2. DeletedFeaturesAreEmpty'
        BY DEF FeatureInv, DeletedFeaturesAreEmpty, FeatureState, In, FeatureSteps
    <1> QED
        BY <1>1, <1>2 DEF FeatureInv, FeatureState

LEMMA LinksKept ==
    ASSUME LinkInv, UNCHANGED LinkState, NEW s \in Slots,
           \A t \in Slots \ {s} : edit'[t] = edit[t],
           edit[s].pc # "visit.count", edit'[s].pc # "visit.count"
    PROVE  LinkInv'
    <1>1. \A k \in Links : Under(k)' = Under(k)
        BY DEF Under, Visits, In
    <1> QED
        BY <1>1 DEF LinkInv, LinkState

\* A request for menus leaves the rest as it is.
LEMMA MenuStep ==
    ASSUME AccessInv, NEW s \in Slots, UNCHANGED <<rolesVars, FeatureState, LinkState>>,
           edit' \in [Slots -> Edits], edits' \in 0..MaxEdits,
           \A t \in Slots \ {s} : edit'[t] = edit[t],
           edit[s].pc \in MenuPcs \cup {"idle"}, edit'[s].pc \in MenuPcs \cup {"idle"},
           needs' \in [Menus -> SUBSET Perms], offers' \in [Menus -> SUBSET Perms],
           \A m \in Menus : needs'[m] \cap offers'[m] = {},
           asked' \in [Menus -> (SUBSET Perms) \X (SUBSET Perms)], muddled' \subseteq Menus,
           MenuInv'
    PROVE  AccessInv'
    <1>1. RolesInv'
        <2>1. faults \in 0..MaxFaults
            BY DEF AccessInv, RolesInv, RolesTypeOK
        <2> QED
            BY <2>1, RolesUnchanged DEF AccessInv, rolesVars, Tables, Catalogue
    <1>2. AccessTypeOK'
        BY <1>1, AccessTyped DEF AccessInv, AccessTypeOK, FeatureState, LinkState
    <1>3. FeatureInv' /\ LinkInv'
        BY FeaturesKept, LinksKept DEF AccessInv, MenuPcs, FeatureSteps, FeaturePcs
    <1> QED
        BY <1>1, <1>2, <1>3 DEF AccessInv

\* A request for menu m: the others are as they were.
LEMMA MenuOf ==
    ASSUME MenuInv, NEW s \in Slots, \A t \in Slots \ {s} : edit'[t] = edit[t],
           NEW m \in Menus, muddled \subseteq muddled',
           edit[s].pc \in MenuPcs => edit[s].menu = m,
           edit'[s].pc \in MenuPcs => edit'[s].menu = m,
           \A n \in Menus \ {m} : needs'[n] = needs[n] /\ offers'[n] = offers[n]
                                  /\ asked'[n] = asked[n],
           m \notin muddled' =>
               /\ \A t \in Slots \ {s} : ~EditsMenu(t, m)
               /\ edit'[s].pc \notin MenuPcs => <<needs'[m], offers'[m]>> = asked'[m]
               /\ Linking(s, m)' /\ Clearing(s, m)' /\ Filling(s, m)'
    PROVE  MenuInv'
    <1> SUFFICES ASSUME NEW n \in Menus, n \notin muddled'
                 PROVE  /\ (\A t \in Slots : ~EditsMenu(t, n)') => <<needs'[n], offers'[n]>> = asked'[n]
                        /\ \A t, q \in Slots : EditsMenu(t, n)' /\ EditsMenu(q, n)' => t = q
                        /\ \A t \in Slots : EditsMenu(t, n)' =>
                               Linking(t, n)' /\ Clearing(t, n)' /\ Filling(t, n)'
        BY DEF MenuInv
    <1>0. \A t \in Slots \ {s} : EditsMenu(t, n)' <=> EditsMenu(t, n)
        BY DEF EditsMenu
    <1>1. CASE n = m
        <2>1. \A t \in Slots \ {s} : ~EditsMenu(t, n)'
            BY <1>0, <1>1
        <2>2. (\A t \in Slots : ~EditsMenu(t, n)') => edit'[s].pc \notin MenuPcs
            BY <1>1 DEF EditsMenu
        <2> QED
            BY <1>1, <2>1, <2>2
    <1>2. CASE n # m
        <2>1. \A t \in Slots : EditsMenu(t, n)' <=> EditsMenu(t, n)
            BY <1>0, <1>2 DEF EditsMenu
        <2>2. ASSUME NEW t \in Slots, EditsMenu(t, n)
              PROVE  Linking(t, n)' /\ Clearing(t, n)' /\ Filling(t, n)'
            <3>1. t # s
                BY <1>2, <2>2 DEF EditsMenu
            <3>2. edit'[t] = edit[t] /\ Linking(t, n) /\ Clearing(t, n) /\ Filling(t, n)
                BY <2>2, <3>1 DEF MenuInv
            <3> QED
                BY <1>2, <3>2 DEF Linking, Clearing, Filling, In
        <2> QED
            BY <1>2, <2>1, <2>2 DEF MenuInv
    <1> QED
        BY <1>1, <1>2

LEMMA InvMenus ==
    ASSUME AccessInv, NEW s \in Slots, NEW m \in Menus,
           \/ \E p \in known : LinkMenu(s, m, p) \/ LinkMenuAgain(s, m, p) \/ UnlinkMenu(s, m, p)
           \/ \E need, may \in SUBSET known : BulkStart(s, m, need, may)
    PROVE  AccessInv'
    <1>t. AccessTypeOK /\ MenuInv
        BY DEF AccessInv
    <1>k. known \subseteq Perms
        BY <1>t DEF AccessTypeOK, RolesTypeOK
    <1>m. /\ needs \in [Menus -> SUBSET Perms] /\ offers \in [Menus -> SUBSET Perms]
          /\ \A n \in Menus : needs[n] \cap offers[n] = {}
          /\ asked \in [Menus -> (SUBSET Perms) \X (SUBSET Perms)] /\ muddled \subseteq Menus
          /\ edits \in 0..MaxEdits
        BY <1>t DEF AccessTypeOK
    <1>i. Idle \in Edits /\ Idle.pc = "idle" /\ "idle" \notin MenuPcs
        BY DEF Edits, Idle, MenuPcs
    <1>z. ASSUME Muddle(m), edit[s] = Idle, m \notin muddled'
          PROVE  /\ \A t \in Slots : ~EditsMenu(t, m)
                 /\ <<needs[m], offers[m]>> = asked[m]
        <2>1. \A t \in Slots : ~EditsMenu(t, m)
            BY <1>z DEF Muddle
        <2> QED
            BY <1>t, <1>z, <2>1 DEF MenuInv, Muddle
    <1>y. Muddle(m) => muddled \subseteq muddled' /\ muddled' \subseteq Menus
        BY <1>m DEF Muddle
    <1>1. ASSUME NEW p \in known, LinkMenu(s, m, p) PROVE AccessInv'
        <2>1. /\ edit' \in [Slots -> Edits] /\ edit'[s] = Idle /\ edit[s] = Idle
              /\ \A t \in Slots \ {s} : edit'[t] = edit[t]
              /\ edits' \in 0..MaxEdits /\ UNCHANGED rolesVars
            BY <1>1, <1>t, <1>i, Entered DEF LinkMenu
        <2>2. /\ needs' = [needs EXCEPT ![m] = @ \cup {p}] /\ offers' = offers
              /\ asked' = [asked EXCEPT ![m] = <<asked[m][1] \cup {p}, asked[m][2]>>]
              /\ p \notin needs[m] \cup offers[m] /\ Muddle(m)
            BY <1>1 DEF LinkMenu, Ask
        <2>3. /\ needs' \in [Menus -> SUBSET Perms]
              /\ \A n \in Menus : needs'[n] \cap offers'[n] = {}
              /\ asked' \in [Menus -> (SUBSET Perms) \X (SUBSET Perms)]
            BY <1>k, <1>m, <2>2
        <2>4. /\ \A n \in Menus \ {m} : needs'[n] = needs[n] /\ offers'[n] = offers[n]
                                        /\ asked'[n] = asked[n]
              /\ needs'[m] = needs[m] \cup {p}
              /\ asked'[m] = <<asked[m][1] \cup {p}, asked[m][2]>>
            BY <1>m, <2>2
        <2>5. m \notin muddled' =>
                  /\ \A t \in Slots \ {s} : ~EditsMenu(t, m)
                  /\ <<needs'[m], offers'[m]>> = asked'[m]
            BY <1>z, <2>1, <2>2, <2>4
        <2>6. Linking(s, m)' /\ Clearing(s, m)' /\ Filling(s, m)'
            BY <2>1, <1>i DEF Linking, Clearing, Filling, In, MenuPcs
        <2>8. /\ edit[s].pc \notin MenuPcs /\ edit'[s].pc \notin MenuPcs
              /\ muddled \subseteq muddled'
            BY <1>i, <1>y, <2>1, <2>2
        <2>7. MenuInv'
            BY <1>t, <2>1, <2>4, <2>5, <2>6, <2>8, MenuOf
        <2> QED
            BY <1>1, <1>i, <1>m, <1>y, <2>1, <2>2, <2>3, <2>7, MenuStep DEF LinkMenu
    <1>2. ASSUME NEW p \in known, LinkMenuAgain(s, m, p) PROVE AccessInv'
        <2> DEFINE e == [pc |-> "link.update", menu |-> m, need |-> {p}, may |-> {}]
        <2>0. e \in Edits /\ e.pc = "link.update"
            BY <1>k DEF Edits, MenuEdit
        <2>1. /\ edit' \in [Slots -> Edits] /\ edit'[s] = e /\ edit[s] = Idle
              /\ \A t \in Slots \ {s} : edit'[t] = edit[t]
              /\ edits' \in 0..MaxEdits /\ UNCHANGED rolesVars
            BY <1>2, <1>t, <2>0, Entered DEF LinkMenuAgain
        <2>2. /\ UNCHANGED <<needs, offers>>
              /\ asked' = [asked EXCEPT ![m] = <<asked[m][1] \cup {p}, asked[m][2] \ {p}>>]
              /\ p \in needs[m] \cup offers[m] /\ Muddle(m)
            BY <1>2 DEF LinkMenuAgain, Ask
        <2>3. asked' \in [Menus -> (SUBSET Perms) \X (SUBSET Perms)]
            BY <1>k, <1>m, <2>2
        <2>4. /\ \A n \in Menus \ {m} : needs'[n] = needs[n] /\ offers'[n] = offers[n]
                                        /\ asked'[n] = asked[n]
              /\ asked'[m] = <<asked[m][1] \cup {p}, asked[m][2] \ {p}>>
            BY <1>m, <2>2
        <2>5. ASSUME m \notin muddled'
              PROVE  /\ \A t \in Slots \ {s} : ~EditsMenu(t, m)
                     /\ Linking(s, m)' /\ Clearing(s, m)' /\ Filling(s, m)'
            <3>1. /\ \A t \in Slots \ {s} : ~EditsMenu(t, m)
                  /\ asked'[m] = <<needs'[m] \cup {p}, offers'[m] \ {p}>>
                BY <1>z, <2>1, <2>2, <2>4, <2>5
            <3> QED
                BY <2>1, <2>2, <3>1 DEF Linking, Clearing, Filling, In
        <2>7. MenuInv'
            BY <1>t, <1>i, <1>y, <2>0, <2>1, <2>2, <2>4, <2>5, MenuOf DEF MenuPcs
        <2> QED
            BY <1>2, <1>i, <1>m, <1>y, <2>0, <2>1, <2>2, <2>3, <2>7, MenuStep DEF LinkMenuAgain, MenuPcs
    <1>3. ASSUME NEW p \in known, UnlinkMenu(s, m, p) PROVE AccessInv'
        <2>1. /\ edit' \in [Slots -> Edits] /\ edit'[s] = Idle /\ edit[s] = Idle
              /\ \A t \in Slots \ {s} : edit'[t] = edit[t]
              /\ edits' \in 0..MaxEdits /\ UNCHANGED rolesVars
            BY <1>3, <1>t, <1>i, Entered DEF UnlinkMenu
        <2>2. /\ needs' = [needs EXCEPT ![m] = @ \ {p}] /\ offers' = [offers EXCEPT ![m] = @ \ {p}]
              /\ asked' = [asked EXCEPT ![m] = <<asked[m][1] \ {p}, asked[m][2] \ {p}>>]
              /\ Muddle(m)
            BY <1>3 DEF UnlinkMenu, Ask
        <2>3. /\ needs' \in [Menus -> SUBSET Perms] /\ offers' \in [Menus -> SUBSET Perms]
              /\ \A n \in Menus : needs'[n] \cap offers'[n] = {}
              /\ asked' \in [Menus -> (SUBSET Perms) \X (SUBSET Perms)]
            BY <1>k, <1>m, <2>2
        <2>4. /\ \A n \in Menus \ {m} : needs'[n] = needs[n] /\ offers'[n] = offers[n]
                                        /\ asked'[n] = asked[n]
              /\ needs'[m] = needs[m] \ {p} /\ offers'[m] = offers[m] \ {p}
              /\ asked'[m] = <<asked[m][1] \ {p}, asked[m][2] \ {p}>>
            BY <1>m, <2>2
        <2>5. ASSUME m \notin muddled'
              PROVE  /\ \A t \in Slots \ {s} : ~EditsMenu(t, m)
                     /\ <<needs'[m], offers'[m]>> = asked'[m]
            <3>1. /\ \A t \in Slots \ {s} : ~EditsMenu(t, m)
                  /\ asked[m] = <<needs[m], offers[m]>>
                BY <1>z, <2>1, <2>2, <2>5
            <3>2. asked[m][1] = needs[m] /\ asked[m][2] = offers[m]
                BY <3>1
            <3> QED
                BY <2>4, <3>1, <3>2
        <2>6. Linking(s, m)' /\ Clearing(s, m)' /\ Filling(s, m)'
            BY <2>1, <1>i DEF Linking, Clearing, Filling, In, MenuPcs
        <2>8. /\ edit[s].pc \notin MenuPcs /\ edit'[s].pc \notin MenuPcs
              /\ muddled \subseteq muddled'
            BY <1>i, <1>y, <2>1, <2>2
        <2>7. MenuInv'
            BY <1>t, <2>1, <2>4, <2>5, <2>6, <2>8, MenuOf
        <2> QED
            BY <1>3, <1>i, <1>m, <1>y, <2>1, <2>2, <2>3, <2>7, MenuStep DEF UnlinkMenu
    <1>4. ASSUME NEW need \in SUBSET known, NEW may \in SUBSET known, BulkStart(s, m, need, may)
          PROVE  AccessInv'
        <2> DEFINE e == [pc |-> "bulk.delete", menu |-> m, need |-> need, may |-> may]
        <2>0. e \in Edits /\ e.pc = "bulk.delete"
            BY <1>k DEF Edits, MenuEdit
        <2>1. /\ edit' \in [Slots -> Edits] /\ edit'[s] = e /\ edit[s] = Idle
              /\ \A t \in Slots \ {s} : edit'[t] = edit[t]
              /\ edits' \in 0..MaxEdits /\ UNCHANGED rolesVars
            BY <1>4, <1>t, <2>0, Entered DEF BulkStart
        <2>2. /\ UNCHANGED <<needs, offers>> /\ need \cap may = {}
              /\ asked' = [asked EXCEPT ![m] = <<need, may>>] /\ Muddle(m)
            BY <1>4 DEF BulkStart, Ask
        <2>3. asked' \in [Menus -> (SUBSET Perms) \X (SUBSET Perms)]
            BY <1>k, <1>m, <2>2
        <2>4. /\ \A n \in Menus \ {m} : needs'[n] = needs[n] /\ offers'[n] = offers[n]
                                        /\ asked'[n] = asked[n]
              /\ asked'[m] = <<need, may>>
            BY <1>m, <2>2
        <2>5. ASSUME m \notin muddled'
              PROVE  /\ \A t \in Slots \ {s} : ~EditsMenu(t, m)
                     /\ Linking(s, m)' /\ Clearing(s, m)' /\ Filling(s, m)'
            <3>1. \A t \in Slots \ {s} : ~EditsMenu(t, m)
                BY <1>z, <2>1, <2>2, <2>5
            <3> QED
                BY <2>1, <2>2, <2>4, <3>1 DEF Linking, Clearing, Filling, In
        <2>7. MenuInv'
            BY <1>t, <1>i, <1>y, <2>0, <2>1, <2>2, <2>4, <2>5, MenuOf DEF MenuPcs
        <2> QED
            BY <1>4, <1>i, <1>m, <1>y, <2>0, <2>1, <2>2, <2>3, <2>7, MenuStep DEF BulkStart, MenuPcs
    <1> QED
        BY <1>1, <1>2, <1>3, <1>4

\* A step of the request of slot s for a menu.
LEMMA InvMenuSteps ==
    ASSUME AccessInv, NEW s \in Slots, LinkMenuUpdate(s) \/ BulkDelete(s) \/ BulkInsert(s)
    PROVE  AccessInv'
    <1>t. AccessTypeOK /\ MenuInv
        BY DEF AccessInv
    <1>m. /\ needs \in [Menus -> SUBSET Perms] /\ offers \in [Menus -> SUBSET Perms]
          /\ \A n \in Menus : needs[n] \cap offers[n] = {}
          /\ asked \in [Menus -> (SUBSET Perms) \X (SUBSET Perms)] /\ muddled \subseteq Menus
          /\ edits \in 0..MaxEdits
        BY <1>t DEF AccessTypeOK
    <1>v. /\ edit[s] \in MenuEdit /\ edit[s].pc \in MenuPcs /\ edit[s].menu \in Menus
          /\ edit[s].need \subseteq Perms /\ edit[s].may \subseteq Perms
        <2>1. edit[s].pc \in MenuPcs
            BY DEF LinkMenuUpdate, BulkDelete, BulkInsert, In, MenuPcs
        <2>2. edit[s] \in MenuEdit
            BY <1>t, <2>1, EditShape
        <2> QED
            BY <2>1, <2>2 DEF MenuEdit
    <1>w. PICK m \in Menus : m = edit[s].menu
        BY <1>v
    <1>u. /\ edit[s] \in MenuEdit /\ edit[s].pc \in MenuPcs /\ m \in Menus /\ edit[s].menu = m
          /\ edit[s].need \subseteq Perms /\ edit[s].may \subseteq Perms
        BY <1>v, <1>w
    <1>o. ASSUME m \notin muddled
          PROVE  /\ \A t \in Slots \ {s} : ~EditsMenu(t, m)
                 /\ Linking(s, m) /\ Clearing(s, m) /\ Filling(s, m)
        <2>1. EditsMenu(s, m)
            BY <1>u DEF EditsMenu
        <2> QED
            BY <1>t, <1>u, <1>o, <2>1 DEF MenuInv
    <1>i. Idle.pc = "idle" /\ "idle" \notin MenuPcs
        BY DEF Idle, MenuPcs
    <1>1. CASE LinkMenuUpdate(s)
        <2>1. /\ edit' \in [Slots -> Edits] /\ edit'[s] = Idle
              /\ \A t \in Slots \ {s} : edit'[t] = edit[t]
              /\ UNCHANGED <<rolesVars, edits>>
            BY <1>1, <1>t, Left DEF LinkMenuUpdate
        <2>2. /\ needs' = [needs EXCEPT ![m] = @ \cup (edit[s].need \cap offers[m])]
              /\ offers' = [offers EXCEPT ![m] = @ \ edit[s].need]
              /\ UNCHANGED <<asked, muddled>> /\ edit[s].pc = "link.update"
            BY <1>1, <1>u DEF LinkMenuUpdate, In
        <2>3. /\ needs' \in [Menus -> SUBSET Perms] /\ offers' \in [Menus -> SUBSET Perms]
              /\ \A n \in Menus : needs'[n] \cap offers'[n] = {}
            BY <1>m, <1>u, <2>2
        <2>4. /\ \A n \in Menus \ {m} : needs'[n] = needs[n] /\ offers'[n] = offers[n]
                                        /\ asked'[n] = asked[n]
              /\ needs'[m] = needs[m] \cup (edit[s].need \cap offers[m])
              /\ offers'[m] = offers[m] \ edit[s].need /\ asked'[m] = asked[m]
            BY <1>m, <1>u, <2>2
        <2>5. ASSUME m \notin muddled'
              PROVE  <<needs'[m], offers'[m]>> = asked'[m]
            <3>1. PICK p \in needs[m] \cup offers[m] :
                      edit[s].need = {p} /\ asked[m] = <<needs[m] \cup {p}, offers[m] \ {p}>>
                BY <1>o, <2>2, <2>5 DEF Linking, In
            <3>2. needs[m] \cup ({p} \cap offers[m]) = needs[m] \cup {p}
                BY <3>1
            <3> QED
                BY <2>4, <3>1, <3>2
        <2>6. Linking(s, m)' /\ Clearing(s, m)' /\ Filling(s, m)'
            BY <2>1, <1>i DEF Linking, Clearing, Filling, In, MenuPcs
        <2>7. MenuInv'
            <3>1. /\ edit'[s].pc \notin MenuPcs /\ muddled' = muddled
                  /\ m \notin muddled' => \A t \in Slots \ {s} : ~EditsMenu(t, m)
                BY <1>i, <1>o, <2>1, <2>2
            <3> QED
                BY <1>t, <1>u, <2>1, <2>4, <2>5, <2>6, <3>1, MenuOf
        <2> QED
            BY <1>1, <1>i, <1>m, <1>u, <2>1, <2>2, <2>3, <2>7, MenuStep DEF LinkMenuUpdate
    <1>2. CASE BulkDelete(s)
        <2>1. /\ edit' \in [Slots -> Edits] /\ edit'[s] = [edit[s] EXCEPT !.pc = "bulk.insert"]
              /\ \A t \in Slots \ {s} : edit'[t] = edit[t]
              /\ UNCHANGED <<rolesVars, edits>>
            BY <1>2, <1>t, <1>u, Moved DEF BulkDelete, MenuPcs
        <2>2. /\ needs' = [needs EXCEPT ![m] = {}] /\ offers' = [offers EXCEPT ![m] = {}]
              /\ UNCHANGED <<asked, muddled>> /\ edit[s].pc = "bulk.delete"
            BY <1>2, <1>u DEF BulkDelete, In
        <2>3. /\ needs' \in [Menus -> SUBSET Perms] /\ offers' \in [Menus -> SUBSET Perms]
              /\ \A n \in Menus : needs'[n] \cap offers'[n] = {}
            BY <1>m, <1>u, <2>2
        <2>4. /\ \A n \in Menus \ {m} : needs'[n] = needs[n] /\ offers'[n] = offers[n]
                                        /\ asked'[n] = asked[n]
              /\ needs'[m] = {} /\ offers'[m] = {} /\ asked'[m] = asked[m]
            BY <1>m, <1>u, <2>2
        <2>5. /\ edit'[s].pc = "bulk.insert" /\ edit'[s].menu = m
              /\ edit'[s].need = edit[s].need /\ edit'[s].may = edit[s].may
            BY <1>u, <2>1 DEF MenuEdit
        <2>6. ASSUME m \notin muddled' PROVE Linking(s, m)' /\ Clearing(s, m)' /\ Filling(s, m)'
            <3>1. edit[s].need \cap edit[s].may = {} /\ asked[m] = <<edit[s].need, edit[s].may>>
                BY <1>o, <2>2, <2>6 DEF Clearing, In
            <3> QED
                BY <2>4, <2>5, <3>1 DEF Linking, Clearing, Filling, In
        <2>7. MenuInv'
            <3>1. /\ edit'[s].pc \in MenuPcs /\ muddled' = muddled
                  /\ m \notin muddled' => \A t \in Slots \ {s} : ~EditsMenu(t, m)
                BY <1>o, <2>2, <2>5 DEF MenuPcs
            <3> QED
                BY <1>t, <1>u, <2>1, <2>4, <2>5, <2>6, <3>1, MenuOf
        <2>8. edit'[s].pc \in MenuPcs
            BY <2>5 DEF MenuPcs
        <2>9. /\ UNCHANGED <<rolesVars, FeatureState, LinkState>> /\ edits' \in 0..MaxEdits
              /\ edit[s].pc \in MenuPcs \cup {"idle"} /\ edit'[s].pc \in MenuPcs \cup {"idle"}
              /\ asked' \in [Menus -> (SUBSET Perms) \X (SUBSET Perms)] /\ muddled' \subseteq Menus
            BY <1>2, <1>m, <1>u, <2>1, <2>2, <2>8 DEF BulkDelete
        <2> QED
            BY <2>1, <2>3, <2>7, <2>9, MenuStep
    <1>3. CASE BulkInsert(s)
        <2> DEFINE there == needs[m] \cup offers[m]
        <2>0. /\ UNCHANGED <<rolesVars, edits, asked, muddled, FeatureState, LinkState>>
              /\ edit[s].pc = "bulk.insert"
            BY <1>3 DEF BulkInsert, In, Leave
        <2>1. /\ edit' \in [Slots -> Edits]
              /\ \A t \in Slots \ {s} : edit'[t] = edit[t]
              /\ \/ \E p \in edit[s].need :
                        /\ needs' = [needs EXCEPT ![m] = @ \cup ({p} \ there)] /\ offers' = offers
                        /\ edit'[s] = [edit[s] EXCEPT !.need = @ \ {p}]
                 \/ \E p \in edit[s].may :
                        /\ offers' = [offers EXCEPT ![m] = @ \cup ({p} \ there)] /\ needs' = needs
                        /\ edit'[s] = [edit[s] EXCEPT !.may = @ \ {p}]
                 \/ /\ edit[s].need \cup edit[s].may = {} /\ edit'[s] = Idle
                    /\ UNCHANGED <<needs, offers>>
            <3>1. CASE \E p \in edit[s].need :
                        /\ needs' = [needs EXCEPT ![m] = @ \cup ({p} \ there)]
                        /\ edit' = [edit EXCEPT ![s].need = @ \ {p}] /\ UNCHANGED offers
                <4>1. PICK p \in edit[s].need :
                        /\ needs' = [needs EXCEPT ![m] = @ \cup ({p} \ there)]
                        /\ edit' = [edit EXCEPT ![s].need = @ \ {p}] /\ UNCHANGED offers
                    BY <3>1
                <4>2. [edit[s] EXCEPT !.need = @ \ {p}] \in Edits
                    BY <1>u DEF Edits, MenuEdit
                <4>3. edit' = [edit EXCEPT ![s] = [edit[s] EXCEPT !.need = @ \ {p}]]
                    BY <1>t, <4>1 DEF AccessTypeOK
                <4>4. /\ edit' \in [Slots -> Edits] /\ edit'[s] = [edit[s] EXCEPT !.need = @ \ {p}]
                      /\ \A t \in Slots \ {s} : edit'[t] = edit[t]
                    BY <1>t, <4>2, <4>3, EditAssigned
                <4> QED
                    BY <4>1, <4>4
            <3>2. CASE \E p \in edit[s].may :
                        /\ offers' = [offers EXCEPT ![m] = @ \cup ({p} \ there)]
                        /\ edit' = [edit EXCEPT ![s].may = @ \ {p}] /\ UNCHANGED needs
                <4>1. PICK p \in edit[s].may :
                        /\ offers' = [offers EXCEPT ![m] = @ \cup ({p} \ there)]
                        /\ edit' = [edit EXCEPT ![s].may = @ \ {p}] /\ UNCHANGED needs
                    BY <3>2
                <4>2. [edit[s] EXCEPT !.may = @ \ {p}] \in Edits
                    BY <1>u DEF Edits, MenuEdit
                <4>3. edit' = [edit EXCEPT ![s] = [edit[s] EXCEPT !.may = @ \ {p}]]
                    BY <1>t, <4>1 DEF AccessTypeOK
                <4>4. /\ edit' \in [Slots -> Edits] /\ edit'[s] = [edit[s] EXCEPT !.may = @ \ {p}]
                      /\ \A t \in Slots \ {s} : edit'[t] = edit[t]
                    BY <1>t, <4>2, <4>3, EditAssigned
                <4> QED
                    BY <4>1, <4>4
            <3>3. CASE edit[s].need \cup edit[s].may = {} /\ Leave(s) /\ UNCHANGED <<needs, offers>>
                BY <1>t, <3>3, Left
            <3> QED
                BY <1>3, <1>u, <3>1, <3>2, <3>3 DEF BulkInsert
        <2>3. /\ needs' \in [Menus -> SUBSET Perms] /\ offers' \in [Menus -> SUBSET Perms]
              /\ \A n \in Menus : needs'[n] \cap offers'[n] = {}
              /\ \A n \in Menus \ {m} : needs'[n] = needs[n] /\ offers'[n] = offers[n]
                                        /\ asked'[n] = asked[n]
            <3>1. CASE \E p \in edit[s].need :
                        needs' = [needs EXCEPT ![m] = @ \cup ({p} \ there)] /\ offers' = offers
                BY <1>m, <1>u, <2>0, <3>1
            <3>2. CASE \E p \in edit[s].may :
                        offers' = [offers EXCEPT ![m] = @ \cup ({p} \ there)] /\ needs' = needs
                BY <1>m, <1>u, <2>0, <3>2
            <3>3. CASE UNCHANGED <<needs, offers>>
                BY <1>m, <2>0, <3>3
            <3> QED
                BY <2>1, <3>1, <3>2, <3>3
        <2>5. \/ /\ edit'[s].pc = "bulk.insert" /\ edit'[s].menu = m
                 /\ \/ \E p \in edit[s].need :
                           /\ needs'[m] = needs[m] \cup ({p} \ there) /\ offers'[m] = offers[m]
                           /\ edit'[s].need = edit[s].need \ {p} /\ edit'[s].may = edit[s].may
                    \/ \E p \in edit[s].may :
                           /\ offers'[m] = offers[m] \cup ({p} \ there) /\ needs'[m] = needs[m]
                           /\ edit'[s].may = edit[s].may \ {p} /\ edit'[s].need = edit[s].need
              \/ /\ edit[s].need \cup edit[s].may = {} /\ edit'[s] = Idle
                 /\ UNCHANGED <<needs, offers>>
            BY <1>m, <1>u, <2>0, <2>1 DEF MenuEdit
        <2>6. ASSUME m \notin muddled'
              PROVE  /\ Linking(s, m)' /\ Clearing(s, m)' /\ Filling(s, m)'
                     /\ edit'[s].pc \notin MenuPcs => <<needs'[m], offers'[m]>> = asked'[m]
            <3>1. /\ edit[s].need \cap edit[s].may = {}
                  /\ (edit[s].need \cup edit[s].may) \cap there = {}
                  /\ asked[m] = <<needs[m] \cup edit[s].need, offers[m] \cup edit[s].may>>
                BY <1>o, <2>0, <2>6 DEF Filling, In
            <3>2. CASE edit[s].need \cup edit[s].may = {} /\ edit'[s] = Idle
                       /\ UNCHANGED <<needs, offers>>
                <4>1. asked[m] = <<needs[m], offers[m]>>
                    BY <3>1, <3>2
                <4> QED
                    BY <1>i, <2>0, <3>2, <4>1 DEF Linking, Clearing, Filling, In, MenuPcs
            <3>3. ASSUME NEW p \in edit[s].need, edit'[s].pc = "bulk.insert",
                         needs'[m] = needs[m] \cup ({p} \ there), offers'[m] = offers[m],
                         edit'[s].need = edit[s].need \ {p}, edit'[s].may = edit[s].may
                  PROVE  Filling(s, m)'
                <4>1. p \notin there /\ needs'[m] = needs[m] \cup {p}
                    BY <3>1, <3>3
                <4>2. asked'[m] = <<needs'[m] \cup edit'[s].need, offers'[m] \cup edit'[s].may>>
                    <5>1. needs'[m] \cup edit'[s].need = needs[m] \cup edit[s].need
                        BY <3>3, <4>1
                    <5> QED
                        BY <2>0, <3>1, <3>3, <5>1
                <4> QED
                    BY <3>1, <3>3, <4>1, <4>2 DEF Filling
            <3>4. ASSUME NEW p \in edit[s].may, edit'[s].pc = "bulk.insert",
                         offers'[m] = offers[m] \cup ({p} \ there), needs'[m] = needs[m],
                         edit'[s].may = edit[s].may \ {p}, edit'[s].need = edit[s].need
                  PROVE  Filling(s, m)'
                <4>1. p \notin there /\ offers'[m] = offers[m] \cup {p}
                    BY <3>1, <3>4
                <4>2. asked'[m] = <<needs'[m] \cup edit'[s].need, offers'[m] \cup edit'[s].may>>
                    <5>1. offers'[m] \cup edit'[s].may = offers[m] \cup edit[s].may
                        BY <3>4, <4>1
                    <5> QED
                        BY <2>0, <3>1, <3>4, <5>1
                <4> QED
                    BY <3>1, <3>4, <4>1, <4>2 DEF Filling
            <3>5. CASE edit'[s].pc = "bulk.insert"
                <4>1. Filling(s, m)'
                    <5>1. edit'[s] # Idle
                        BY <1>i, <3>5
                    <5> QED
                        BY <2>5, <3>3, <3>4, <3>5, <5>1
                <4>2. Linking(s, m)' /\ Clearing(s, m)'
                    BY <3>5 DEF Linking, Clearing, In
                <4>3. edit'[s].pc \in MenuPcs
                    BY <3>5 DEF MenuPcs
                <4> QED
                    BY <4>1, <4>2, <4>3
            <3> QED
                BY <2>5, <3>2, <3>5
        <2>7. edit'[s].pc \in MenuPcs \cup {"idle"} /\ (edit'[s].pc \in MenuPcs => edit'[s].menu = m)
            BY <1>i, <2>5 DEF MenuPcs
        <2>8. MenuInv'
            <3>1. /\ muddled' = muddled
                  /\ m \notin muddled' => \A t \in Slots \ {s} : ~EditsMenu(t, m)
                BY <1>o, <2>0
            <3> QED
                BY <1>t, <1>u, <2>1, <2>3, <2>6, <2>7, <3>1, MenuOf
        <2> QED
            BY <1>m, <1>u, <2>0, <2>1, <2>3, <2>7, <2>8, MenuStep
    <1> QED
        BY <1>1, <1>2, <1>3

-----------------------------------------------------------------------------
\* A request for features leaves the rest as it is.
LEMMA FeatureStep ==
    ASSUME AccessInv, NEW s \in Slots, UNCHANGED <<rolesVars, MenuState, LinkState>>,
           edit' \in [Slots -> Edits], edits' \in 0..MaxEdits,
           \A t \in Slots \ {s} : edit'[t] = edit[t],
           edit[s].pc \in FeatureSteps \cup {"idle"}, edit'[s].pc \in FeatureSteps \cup {"idle"},
           live' \subseteq born', born' \subseteq Features, included' \subseteq Features \X Perms,
           strayed' \subseteq Features, FeatureInv'
    PROVE  AccessInv'
    <1>1. RolesInv'
        <2>1. faults \in 0..MaxFaults
            BY DEF AccessInv, RolesInv, RolesTypeOK
        <2> QED
            BY <2>1, RolesUnchanged DEF AccessInv, rolesVars, Tables, Catalogue
    <1>2. AccessTypeOK'
        BY <1>1, AccessTyped DEF AccessInv, AccessTypeOK, MenuState, LinkState
    <1>3. MenuInv'
        <2>1. edit[s].pc \notin MenuPcs /\ edit'[s].pc \notin MenuPcs
            BY DEF MenuPcs, FeatureSteps, FeaturePcs
        <2> QED
            BY <2>1, MenusKept DEF AccessInv, MenuState
    <1>4. LinkInv'
        BY LinksKept DEF AccessInv, FeatureSteps, FeaturePcs
    <1> QED
        BY <1>1, <1>2, <1>3, <1>4 DEF AccessInv

\* What the slot's own request has to know after its step.
LEMMA FeatureOf ==
    ASSUME AccessTypeOK, FeatureInv, NEW s \in Slots, \A t \in Slots \ {s} : edit'[t] = edit[t],
           strayed \subseteq strayed',
           \A i \in included' : i \in included \/ i[1] \in live' \cup strayed',
           \A f \in live : \/ f \in live' \cup strayed'
                           \/ edit'[s].pc = "feature.rows" /\ edit'[s].feature = f,
           \A t \in Slots \ {s}, f \in Features \ strayed' : Includes(t, f) => f \in live',
           edit[s].pc = "feature.rows" =>
               \A i \in included' : i[1] = edit[s].feature => i[1] \in live' \cup strayed',
           \A f \in Features \ strayed' :
               /\ Includes(s, f)' => f \in live' /\ \A t \in Slots : ~DeletesFeature(t, f)'
               /\ DeletesFeature(s, f)' => \A t \in Slots : ~Includes(t, f)'
    PROVE  FeatureInv'
    <1>1. DeletedFeaturesAreEmpty'
        <2> SUFFICES ASSUME NEW i \in included'
                     PROVE  \/ i[1] \in live' \cup strayed'
                            \/ \E t \in Slots : edit'[t].pc = "feature.rows" /\ edit'[t].feature = i[1]
            BY DEF DeletedFeaturesAreEmpty, In
        <2>1. CASE i \in included
            <3>1. \/ i[1] \in live \cup strayed
                  \/ \E t \in Slots : edit[t].pc = "feature.rows" /\ edit[t].feature = i[1]
                BY <2>1 DEF FeatureInv, DeletedFeaturesAreEmpty, In
            <3>2. CASE i[1] \in live
                BY <3>2
            <3>3. CASE i[1] \in strayed
                BY <3>3
            <3>4. ASSUME NEW t \in Slots, edit[t].pc = "feature.rows", edit[t].feature = i[1]
                  PROVE  \/ i[1] \in live' \cup strayed'
                         \/ \E q \in Slots : edit'[q].pc = "feature.rows" /\ edit'[q].feature = i[1]
                BY <3>4
            <3> QED
                BY <3>1, <3>2, <3>3, <3>4
        <2> QED
            BY <2>1
    <1>2. \A t \in Slots \ {s}, f \in Features : /\ Includes(t, f)' <=> Includes(t, f)
                                                 /\ DeletesFeature(t, f)' <=> DeletesFeature(t, f)
        BY DEF Includes, DeletesFeature
    <1>3. ASSUME NEW t \in Slots, NEW f \in Features \ strayed', Includes(t, f)'
          PROVE  f \in live' /\ \A q \in Slots : ~DeletesFeature(q, f)'
        <2>1. CASE t = s
            BY <1>3, <2>1
        <2>2. CASE t # s
            <3>1. Includes(t, f) /\ f \notin strayed
                BY <1>2, <1>3, <2>2
            <3>2. f \in live' /\ \A q \in Slots : ~DeletesFeature(q, f)
                BY <2>2, <3>1 DEF FeatureInv
            <3> QED
                BY <1>2, <1>3, <2>2, <3>2
        <2> QED
            BY <2>1, <2>2
    <1> QED
        BY <1>1, <1>3 DEF FeatureInv

\* A request for features is received.
LEMMA InvFeatures ==
    ASSUME AccessInv, NEW s \in Slots, NEW f \in Features,
           \/ CreateFeature(s, f) \/ DeleteFeature(s, f)
           \/ \E ps \in SUBSET known :
                  \/ IncludeStart(s, f, ps)
                  \/ \E p \in Perms, g \in Features : ReplaceStart(s, f, p, g, ps)
           \/ \E p \in Perms : DropInclusion(s, f, p)
    PROVE  AccessInv'
    <1>t. AccessTypeOK /\ FeatureInv
        BY DEF AccessInv
    <1>m. /\ live \subseteq born /\ born \subseteq Features /\ included \subseteq Features \X Perms
          /\ strayed \subseteq Features /\ edits \in 0..MaxEdits /\ known \subseteq Perms
        BY <1>t DEF AccessTypeOK, RolesTypeOK
    <1>i. Idle \in Edits /\ Idle.pc = "idle" /\ "idle" \notin FeatureSteps
        BY DEF Edits, Idle, FeatureSteps, FeaturePcs
    <1>e. /\ FeaturePcs \subseteq FeatureSteps /\ {"feature.flag", "feature.rows"} \subseteq FeatureSteps
          /\ "feature.rows" \notin FeaturePcs /\ "feature.flag" \notin FeaturePcs
          /\ "include.check" \in FeaturePcs
        BY DEF FeatureSteps, FeaturePcs
    <1>o. \A t \in Slots, g \in Features \ strayed :
              Includes(t, g) => g \in live /\ \A q \in Slots : ~DeletesFeature(q, g)
        BY <1>t DEF FeatureInv
    <1>1. CASE CreateFeature(s, f)
        <2>1. /\ edit' \in [Slots -> Edits] /\ edit'[s] = Idle /\ edit[s] = Idle
              /\ \A t \in Slots \ {s} : edit'[t] = edit[t]
              /\ edits' \in 0..MaxEdits /\ UNCHANGED rolesVars
            BY <1>1, <1>t, <1>i, Entered DEF CreateFeature
        <2>2. /\ live' = live \cup {f} /\ born' = born \cup {f}
              /\ UNCHANGED <<included, strayed, MenuState, LinkState>>
            BY <1>1 DEF CreateFeature
        <2>3. \A g \in Features : ~Includes(s, g)' /\ ~DeletesFeature(s, g)'
            BY <1>e, <1>i, <2>1 DEF Includes, DeletesFeature
        <2>4. edit[s].pc # "feature.rows"
            BY <1>i, <2>1
        <2>5. FeatureInv'
            BY <1>t, <1>o, <2>1, <2>2, <2>3, <2>4, FeatureOf
        <2> QED
            BY <1>i, <1>m, <2>1, <2>2, <2>5, FeatureStep
    <1>2. CASE DeleteFeature(s, f)
        <2> DEFINE e == [pc |-> "feature.flag", feature |-> f, add |-> {}, drop |-> {}]
        <2>0. e \in Edits /\ e.pc = "feature.flag" /\ e.feature = f
            BY DEF Edits, FeatureEdit
        <2>1. /\ edit' \in [Slots -> Edits] /\ edit'[s] = e /\ edit[s] = Idle
              /\ \A t \in Slots \ {s} : edit'[t] = edit[t]
              /\ edits' \in 0..MaxEdits /\ UNCHANGED rolesVars
            BY <1>2, <1>t, <2>0, Entered DEF DeleteFeature
        <2>2. /\ strayed' = strayed \cup {g \in {f} : \E t \in Slots : Includes(t, g)}
              /\ UNCHANGED <<live, born, included, MenuState, LinkState>>
            BY <1>2 DEF DeleteFeature
        <2> HIDE DEF e
        <2>3. ASSUME NEW g \in Features \ strayed'
              PROVE  /\ ~Includes(s, g)'
                     /\ DeletesFeature(s, g)' => \A t \in Slots : ~Includes(t, g)'
            <3>1. ~Includes(s, g)'
                BY <1>e, <2>0, <2>1 DEF Includes
            <3>2. DeletesFeature(s, g)' => g = f
                BY <2>0, <2>1 DEF DeletesFeature
            <3>3. g = f => \A t \in Slots : ~Includes(t, g)
                BY <2>2, <2>3
            <3>4. \A t \in Slots \ {s} : Includes(t, g)' => Includes(t, g)
                BY <2>1 DEF Includes
            <3> QED
                BY <3>1, <3>2, <3>3, <3>4
        <2>4. edit[s].pc # "feature.rows"
            BY <1>i, <2>1
        <2>5. FeatureInv'
            BY <1>t, <1>o, <2>1, <2>2, <2>3, <2>4, FeatureOf
        <2> QED
            BY <1>e, <1>i, <1>m, <2>0, <2>1, <2>2, <2>5, FeatureStep
    <1>3. ASSUME NEW ps \in SUBSET known, IncludeStart(s, f, ps) PROVE AccessInv'
        <2> DEFINE e == [pc |-> "include.check", feature |-> f, add |-> ps, drop |-> {}]
        <2>0. e \in Edits /\ e.pc = "include.check" /\ e.feature = f
            BY <1>m DEF Edits, FeatureEdit
        <2>1. /\ edit' \in [Slots -> Edits] /\ edit'[s] = e /\ edit[s] = Idle
              /\ \A t \in Slots \ {s} : edit'[t] = edit[t]
              /\ edits' \in 0..MaxEdits /\ UNCHANGED rolesVars
            BY <1>3, <1>t, <2>0, Entered DEF IncludeStart
        <2>2. /\ strayed' = strayed \cup {g \in {f} : \E t \in Slots : DeletesFeature(t, g)}
              /\ f \in live /\ UNCHANGED <<live, born, included, MenuState, LinkState>>
            BY <1>3 DEF IncludeStart
        <2> HIDE DEF e
        <2>3. ASSUME NEW g \in Features \ strayed'
              PROVE  /\ ~DeletesFeature(s, g)'
                     /\ Includes(s, g)' => g \in live' /\ \A t \in Slots : ~DeletesFeature(t, g)'
            <3>1. ~DeletesFeature(s, g)'
                BY <2>0, <2>1 DEF DeletesFeature
            <3>2. Includes(s, g)' => g = f
                BY <2>0, <2>1 DEF Includes
            <3>3. g = f => g \in live /\ \A t \in Slots : ~DeletesFeature(t, g)
                BY <2>2, <2>3
            <3>4. \A t \in Slots \ {s} : DeletesFeature(t, g)' => DeletesFeature(t, g)
                BY <2>1 DEF DeletesFeature
            <3> QED
                BY <2>2, <3>1, <3>2, <3>3, <3>4
        <2>4. edit[s].pc # "feature.rows"
            BY <1>i, <2>1
        <2>5. FeatureInv'
            BY <1>t, <1>o, <2>1, <2>2, <2>3, <2>4, FeatureOf
        <2> QED
            BY <1>e, <1>i, <1>m, <2>0, <2>1, <2>2, <2>5, FeatureStep
    <1>4. ASSUME NEW ps \in SUBSET known, NEW p \in Perms, NEW g \in Features,
                 ReplaceStart(s, f, p, g, ps)
          PROVE  AccessInv'
        <2> DEFINE e == [pc |-> "include.check", feature |-> g, add |-> ps, drop |-> {<<f, p>>}]
        <2>0. e \in Edits /\ e.pc = "include.check" /\ e.feature = g
            BY <1>m DEF Edits, FeatureEdit
        <2>1. /\ edit' \in [Slots -> Edits] /\ edit'[s] = e /\ edit[s] = Idle
              /\ \A t \in Slots \ {s} : edit'[t] = edit[t]
              /\ edits' \in 0..MaxEdits /\ UNCHANGED rolesVars
            BY <1>4, <1>t, <2>0, Entered DEF ReplaceStart
        <2>2. /\ strayed' = strayed \cup
                     {h \in {g} : h \notin live \/ \E t \in Slots : DeletesFeature(t, h)}
              /\ UNCHANGED <<live, born, included, MenuState, LinkState>>
            BY <1>4 DEF ReplaceStart
        <2> HIDE DEF e
        <2>3. ASSUME NEW h \in Features \ strayed'
              PROVE  /\ ~DeletesFeature(s, h)'
                     /\ Includes(s, h)' => h \in live' /\ \A t \in Slots : ~DeletesFeature(t, h)'
            <3>1. ~DeletesFeature(s, h)'
                BY <2>0, <2>1 DEF DeletesFeature
            <3>2. Includes(s, h)' => h = g
                BY <2>0, <2>1 DEF Includes
            <3>3. h = g => h \in live /\ \A t \in Slots : ~DeletesFeature(t, h)
                BY <2>2, <2>3
            <3>4. \A t \in Slots \ {s} : DeletesFeature(t, h)' => DeletesFeature(t, h)
                BY <2>1 DEF DeletesFeature
            <3> QED
                BY <2>2, <3>1, <3>2, <3>3, <3>4
        <2>4. edit[s].pc # "feature.rows"
            BY <1>i, <2>1
        <2>5. FeatureInv'
            BY <1>t, <1>o, <2>1, <2>2, <2>3, <2>4, FeatureOf
        <2>6. strayed' \subseteq Features
            BY <1>m, <2>2
        <2> QED
            BY <1>e, <1>i, <1>m, <2>0, <2>1, <2>2, <2>5, <2>6, FeatureStep
    <1>5. ASSUME NEW p \in Perms, DropInclusion(s, f, p) PROVE AccessInv'
        <2>1. /\ edit' \in [Slots -> Edits] /\ edit'[s] = Idle /\ edit[s] = Idle
              /\ \A t \in Slots \ {s} : edit'[t] = edit[t]
              /\ edits' \in 0..MaxEdits /\ UNCHANGED rolesVars
            BY <1>5, <1>t, <1>i, Entered DEF DropInclusion
        <2>2. /\ included' = included \ {<<f, p>>}
              /\ UNCHANGED <<live, born, strayed, MenuState, LinkState>>
            BY <1>5 DEF DropInclusion
        <2>3. \A g \in Features : ~Includes(s, g)' /\ ~DeletesFeature(s, g)'
            BY <1>e, <1>i, <2>1 DEF Includes, DeletesFeature
        <2>4. edit[s].pc # "feature.rows"
            BY <1>i, <2>1
        <2>5. FeatureInv'
            BY <1>t, <1>o, <2>1, <2>2, <2>3, <2>4, FeatureOf
        <2> QED
            BY <1>i, <1>m, <2>1, <2>2, <2>5, FeatureStep
    <1> QED
        BY <1>1, <1>2, <1>3, <1>4, <1>5

\* A step of the request of slot s for a feature.
LEMMA InvFeatureSteps ==
    ASSUME AccessInv, NEW s \in Slots,
           \/ FlagFeature(s) \/ FlagFeatureRows(s)
           \/ IncludeCheck(s) \/ IncludeInsert(s) \/ ReplaceDelete(s) \/ ReplaceInsert(s)
    PROVE  AccessInv'
    <1>t. AccessTypeOK /\ FeatureInv
        BY DEF AccessInv
    <1>m. /\ live \subseteq born /\ born \subseteq Features /\ included \subseteq Features \X Perms
          /\ strayed \subseteq Features /\ edits \in 0..MaxEdits
        BY <1>t DEF AccessTypeOK
    <1>e. /\ FeaturePcs \subseteq FeatureSteps /\ {"feature.flag", "feature.rows"} \subseteq FeatureSteps
          /\ "feature.rows" \notin FeaturePcs /\ "feature.flag" \notin FeaturePcs
          /\ {"include.check", "include.insert", "replace.delete", "replace.insert"} = FeaturePcs
        BY DEF FeatureSteps, FeaturePcs
    <1>i. Idle.pc = "idle" /\ "idle" \notin FeatureSteps
        BY DEF Idle, FeatureSteps, FeaturePcs
    <1>u. /\ edit[s] \in FeatureEdit /\ edit[s].pc \in FeatureSteps /\ edit[s].feature \in Features
          /\ edit[s].add \subseteq Perms
        <2>1. edit[s].pc \in FeatureSteps
            BY <1>e DEF FlagFeature, FlagFeatureRows, IncludeCheck, IncludeInsert, ReplaceDelete,
               ReplaceInsert, In
        <2>2. edit[s] \in FeatureEdit
            BY <1>t, <2>1, EditShape
        <2> QED
            BY <2>1, <2>2 DEF FeatureEdit
    <1>f. PICK f \in Features : f = edit[s].feature
        BY <1>u
    <1>o. \A t \in Slots, g \in Features \ strayed :
              Includes(t, g) => g \in live /\ \A q \in Slots : ~DeletesFeature(q, g)
        BY <1>t DEF FeatureInv
    <1>q. \A t \in Slots \ {s} : edit'[t] = edit[t] =>
              \A g \in Features : /\ Includes(t, g)' <=> Includes(t, g)
                                  /\ DeletesFeature(t, g)' <=> DeletesFeature(t, g)
        BY DEF Includes, DeletesFeature
    <1>l. Leave(s) => \A g \in Features : ~Includes(s, g)' /\ ~DeletesFeature(s, g)'
        <2> SUFFICES ASSUME Leave(s), NEW g \in Features
                     PROVE  ~Includes(s, g)' /\ ~DeletesFeature(s, g)'
            OBVIOUS
        <2>1. edit'[s].pc \notin FeatureSteps
            BY <1>i, <1>t, Left
        <2> QED
            BY <1>e, <2>1 DEF Includes, DeletesFeature
    <1>1. CASE FlagFeature(s)
        <2>1. /\ edit' \in [Slots -> Edits] /\ edit'[s] = [edit[s] EXCEPT !.pc = "feature.rows"]
              /\ \A t \in Slots \ {s} : edit'[t] = edit[t]
              /\ UNCHANGED <<rolesVars, edits>>
            BY <1>1, <1>t, <1>u, <1>e, Moved DEF FlagFeature
        <2>2. /\ live' = live \ {f} /\ edit[s].pc = "feature.flag"
              /\ UNCHANGED <<born, included, strayed, MenuState, LinkState>>
            BY <1>1, <1>f DEF FlagFeature, In
        <2>3. edit'[s].pc = "feature.rows" /\ edit'[s].feature = f
            BY <1>f, <1>u, <2>1 DEF FeatureEdit
        <2>4. DeletesFeature(s, f)
            BY <1>f, <2>2 DEF DeletesFeature
        <2>5. \A t \in Slots, g \in Features \ strayed : Includes(t, g) => g # f
            BY <1>o, <2>4
        <2>6. ASSUME NEW g \in Features \ strayed'
              PROVE  /\ ~Includes(s, g)'
                     /\ DeletesFeature(s, g)' => \A t \in Slots : ~Includes(t, g)'
            <3>1. ~Includes(s, g)'
                BY <1>e, <2>3 DEF Includes
            <3>2. DeletesFeature(s, g)' => g = f
                BY <2>3 DEF DeletesFeature
            <3> QED
                BY <1>q, <2>1, <2>2, <2>5, <2>6, <3>1, <3>2
        <2>7. FeatureInv'
            BY <1>t, <1>o, <2>1, <2>2, <2>3, <2>5, <2>6, FeatureOf
        <2>8. edit'[s].pc \in FeatureSteps
            BY <1>e, <2>3
        <2> QED
            BY <1>m, <1>u, <2>1, <2>2, <2>7, <2>8, FeatureStep
    <1>2. CASE FlagFeatureRows(s)
        <2>1. /\ edit' \in [Slots -> Edits] /\ edit'[s] = Idle
              /\ \A t \in Slots \ {s} : edit'[t] = edit[t]
              /\ UNCHANGED <<rolesVars, edits>>
            BY <1>2, <1>t, Left DEF FlagFeatureRows
        <2>2. /\ included' = {i \in included : i[1] # f}
              /\ UNCHANGED <<live, born, strayed, MenuState, LinkState>>
            BY <1>2, <1>f DEF FlagFeatureRows
        <2>3. \A g \in Features : ~Includes(s, g)' /\ ~DeletesFeature(s, g)'
            BY <1>2, <1>l DEF FlagFeatureRows
        <2>7. FeatureInv'
            BY <1>t, <1>f, <1>o, <2>1, <2>2, <2>3, FeatureOf
        <2> QED
            BY <1>i, <1>m, <1>u, <2>1, <2>2, <2>7, FeatureStep
    <1>c. edit[s].pc \in FeaturePcs /\ f \notin strayed =>
              Includes(s, f) /\ f \in live /\ \A t \in Slots : ~DeletesFeature(t, f)
        <2>1. edit[s].pc \in FeaturePcs => Includes(s, f)
            BY <1>f DEF Includes
        <2> QED
            BY <2>1, <1>o
    \* The request goes on with its feature, or leaves.
    <1>g. ASSUME edit[s].pc \in FeaturePcs, edit' \in [Slots -> Edits],
                 \A t \in Slots \ {s} : edit'[t] = edit[t],
                 edit'[s] = Idle \/ (edit'[s].pc \in FeaturePcs /\ edit'[s].feature = f),
                 UNCHANGED <<live, born, strayed, MenuState, LinkState, rolesVars, edits>>,
                 included' \subseteq Features \X Perms,
                 \A i \in included' : i \in included \/ i[1] = f
          PROVE  AccessInv'
        <2>1. ASSUME NEW g \in Features \ strayed'
              PROVE  /\ ~DeletesFeature(s, g)'
                     /\ Includes(s, g)' => g \in live' /\ \A t \in Slots : ~DeletesFeature(t, g)'
            <3>1. edit'[s].pc \notin {"feature.flag", "feature.rows"}
                BY <1>e, <1>g, <1>i
            <3>2. ~DeletesFeature(s, g)'
                BY <3>1 DEF DeletesFeature
            <3>3. Includes(s, g)' => g = f
                BY <1>e, <1>g, <1>i DEF Includes
            <3> QED
                BY <1>c, <1>g, <1>q, <2>1, <3>2, <3>3
        <2>2. \A i \in included' : i \in included \/ i[1] \in live' \cup strayed'
            BY <1>c, <1>g
        <2>3. edit[s].pc # "feature.rows"
            BY <1>e, <1>g
        <2>4. FeatureInv'
            BY <1>t, <1>g, <1>o, <2>1, <2>2, <2>3, FeatureOf
        <2>5. edit'[s].pc \in FeatureSteps \cup {"idle"}
            BY <1>e, <1>g, <1>i
        <2> QED
            BY <1>g, <1>m, <1>u, <2>4, <2>5, FeatureStep
    <1>h. \A pc \in FeaturePcs :
              [edit[s] EXCEPT !.pc = pc].pc = pc /\ [edit[s] EXCEPT !.pc = pc].feature = f
        BY <1>f, <1>u DEF FeatureEdit
    <1>3. CASE IncludeCheck(s)
        <2>1. edit[s].pc = "include.check" /\ UNCHANGED <<FeatureState, MenuState, LinkState>>
            BY <1>3 DEF IncludeCheck, In
        <2>2. Leave(s) \/ Move(s, "include.insert") \/ Move(s, "replace.delete")
            BY <1>3 DEF IncludeCheck
        <2>3. /\ edit' \in [Slots -> Edits]
              /\ \A t \in Slots \ {s} : edit'[t] = edit[t]
              /\ edit'[s] = Idle \/ (edit'[s].pc \in FeaturePcs /\ edit'[s].feature = f)
              /\ UNCHANGED <<rolesVars, edits>>
            <3>1. CASE Leave(s)
                BY <1>t, <3>1, Left
            <3>2. CASE Move(s, "include.insert")
                BY <1>t, <1>u, <1>e, <1>h, <3>2, Moved
            <3>3. CASE Move(s, "replace.delete")
                BY <1>t, <1>u, <1>e, <1>h, <3>3, Moved
            <3> QED
                BY <2>2, <3>1, <3>2, <3>3
        <2> QED
            BY <1>e, <1>g, <1>m, <2>1, <2>3 DEF FeatureState
    <1>4. CASE IncludeInsert(s) \/ ReplaceInsert(s)
        <2>1. /\ edit[s].pc \in FeaturePcs /\ Leave(s) /\ included' = included \cup ({f} \X edit[s].add)
              /\ UNCHANGED <<live, born, strayed, MenuState, LinkState>>
            BY <1>4, <1>e, <1>f DEF IncludeInsert, ReplaceInsert, In
        <2>2. /\ edit' \in [Slots -> Edits] /\ edit'[s] = Idle
              /\ \A t \in Slots \ {s} : edit'[t] = edit[t]
              /\ UNCHANGED <<rolesVars, edits>>
            BY <1>t, <2>1, Left
        <2>3. /\ included' \subseteq Features \X Perms
              /\ \A i \in included' : i \in included \/ i[1] = f
            BY <1>m, <1>u, <2>1
        <2> QED
            BY <1>g, <2>1, <2>2, <2>3
    <1>5. CASE ReplaceDelete(s)
        <2>1. /\ edit[s].pc \in FeaturePcs /\ Move(s, "replace.insert")
              /\ included' = included \ edit[s].drop
              /\ UNCHANGED <<live, born, strayed, MenuState, LinkState>>
            BY <1>5, <1>e DEF ReplaceDelete, In
        <2>2. /\ edit' \in [Slots -> Edits]
              /\ edit'[s].pc \in FeaturePcs /\ edit'[s].feature = f
              /\ \A t \in Slots \ {s} : edit'[t] = edit[t]
              /\ UNCHANGED <<rolesVars, edits>>
            BY <1>t, <1>u, <1>e, <1>h, <2>1, Moved
        <2> QED
            BY <1>g, <1>m, <2>1, <2>2
    <1> QED
        BY <1>1, <1>2, <1>3, <1>4, <1>5

-----------------------------------------------------------------------------
LEMMA UnderIsFinite ==
    ASSUME NEW k
    PROVE  IsFiniteSet(Under(k)) /\ Cardinality(Under(k)) \in Nat
    <1>1. Under(k) \subseteq Slots
        BY DEF Under
    <1> QED
        BY <1>1, FiniteAssumption, FS_Subset, FS_CardinalityType

\* A request for links leaves the rest as it is.
LEMMA LinkStep ==
    ASSUME AccessInv, NEW s \in Slots, UNCHANGED <<rolesVars, MenuState, FeatureState>>,
           edit' \in [Slots -> Edits], edits' \in 0..MaxEdits,
           \A t \in Slots \ {s} : edit'[t] = edit[t],
           edit[s].pc \in {"visit.count", "idle"}, edit'[s].pc \in {"visit.count", "idle"},
           link' \in [Links -> Link], late' \in [Links -> Nat], LinkInv'
    PROVE  AccessInv'
    <1>1. RolesInv'
        <2>1. faults \in 0..MaxFaults
            BY DEF AccessInv, RolesInv, RolesTypeOK
        <2> QED
            BY <2>1, RolesUnchanged DEF AccessInv, rolesVars, Tables, Catalogue
    <1>2. AccessTypeOK'
        BY <1>1, AccessTyped DEF AccessInv, AccessTypeOK, MenuState, FeatureState
    <1>3. MenuInv'
        <2>1. edit[s].pc \notin MenuPcs /\ edit'[s].pc \notin MenuPcs
            BY DEF MenuPcs
        <2> QED
            BY <2>1, MenusKept DEF AccessInv, MenuState
    <1>4. FeatureInv'
        <2>1. edit[s].pc \notin FeatureSteps /\ edit'[s].pc \notin FeatureSteps
            BY DEF FeatureSteps, FeaturePcs
        <2> QED
            BY <2>1, FeaturesKept DEF AccessInv
    <1> QED
        BY <1>1, <1>2, <1>3, <1>4 DEF AccessInv

\* The links other than the one a step is about keep what they promise.
LEMMA LinkOf ==
    ASSUME LinkInv, NEW s \in Slots, \A t \in Slots \ {s} : edit'[t] = edit[t],
           NEW k \in Links,
           \A j \in Links \ {k} : link'[j] = link[j] /\ late'[j] = late[j],
           \A j \in Links \ {k} : ~Visits(s, j)' /\ ~Visits(s, j),
           link'[k].max > 0 =>
               link'[k].views + Cardinality(Under(k)') <= link'[k].max + late'[k],
           ~link'[k].made => link'[k].views = 0 /\ Under(k)' = {}
    PROVE  LinkInv'
    <1> SUFFICES ASSUME NEW j \in Links, j # k
                 PROVE  /\ link'[j].max > 0 =>
                            link'[j].views + Cardinality(Under(j)') <= link'[j].max + late'[j]
                        /\ ~link'[j].made => link'[j].views = 0 /\ Under(j)' = {}
        BY DEF LinkInv
    <1>1. \A t \in Slots : Visits(t, j)' <=> Visits(t, j)
        BY DEF Visits, In
    <1>2. Under(j)' = Under(j)
        BY <1>1 DEF Under
    <1> QED
        BY <1>2 DEF LinkInv

\* A request for a link.
LEMMA InvLinks ==
    ASSUME AccessInv, NEW s \in Slots, NEW k \in Links,
           \/ \E max \in 0..MaxViews : CreateShare(s, k, max)
           \/ CloseShare(s, k) \/ VisitRead(s, k)
    PROVE  AccessInv'
    <1>t. AccessTypeOK /\ LinkInv
        BY DEF AccessInv
    <1>m. link \in [Links -> Link] /\ late \in [Links -> Nat]
        BY <1>t DEF AccessTypeOK
    <1>k. /\ link[k].made \in BOOLEAN /\ link[k].max \in 0..MaxViews /\ link[k].views \in Nat
          /\ link[k].closed \in BOOLEAN /\ link[k].max \in Nat /\ late[k] \in Nat
        BY <1>m, ViewsAssumption DEF Link
    <1>i. Idle \in Edits /\ Idle.pc = "idle"
        BY DEF Edits, Idle
    <1>v. edit[s] = Idle => \A j \in Links : ~Visits(s, j)
        BY <1>i DEF Visits, In
    <1>w. edit'[s] = Idle => \A j \in Links : ~Visits(s, j)'
        BY <1>i DEF Visits, In
    <1>l. /\ link[k].max > 0 => link[k].views + Cardinality(Under(k)) <= link[k].max + late[k]
          /\ ~link[k].made => link[k].views = 0 /\ Under(k) = {}
        BY <1>t DEF LinkInv
    <1>1. ASSUME edit' \in [Slots -> Edits], edit'[s] = Idle, edit[s] = Idle,
                 \A t \in Slots \ {s} : edit'[t] = edit[t]
          PROVE  Under(k)' = Under(k)
        <2>1. \A t \in Slots : Visits(t, k)' <=> Visits(t, k)
            BY <1>1 DEF Visits, In
        <2> QED
            BY <2>1 DEF Under
    <1>2. ASSUME NEW max \in 0..MaxViews, CreateShare(s, k, max) PROVE AccessInv'
        <2>1. /\ edit' \in [Slots -> Edits] /\ edit'[s] = Idle /\ edit[s] = Idle
              /\ \A t \in Slots \ {s} : edit'[t] = edit[t]
              /\ edits' \in 0..MaxEdits /\ UNCHANGED rolesVars
            BY <1>2, <1>t, <1>i, Entered DEF CreateShare
        <2>2. /\ ~link[k].made /\ UNCHANGED <<late, MenuState, FeatureState>>
              /\ link' = [link EXCEPT ![k] = [@ EXCEPT !.made = TRUE, !.max = max]]
            BY <1>2 DEF CreateShare
        <2>3. /\ link' \in [Links -> Link]
              /\ \A j \in Links \ {k} : link'[j] = link[j]
              /\ link'[k].made /\ link'[k].max = max /\ link'[k].views = link[k].views
            BY <1>m, <2>2 DEF Link
        <2>4. link'[k].views + Cardinality(Under(k)') <= link'[k].max + late'[k]
            <3>1. link[k].views = 0 /\ Cardinality(Under(k)') = 0
                BY <1>1, <1>l, <2>1, <2>2, FS_EmptySet
            <3>2. max \in Nat
                BY ViewsAssumption
            <3> QED
                BY <1>k, <2>2, <2>3, <3>1, <3>2
        <2>5. LinkInv'
            BY <1>t, <1>v, <1>w, <2>1, <2>2, <2>3, <2>4, LinkOf
        <2> QED
            BY <1>i, <1>m, <2>1, <2>2, <2>3, <2>5, LinkStep
    <1>3. CASE CloseShare(s, k)
        <2>1. /\ edit' \in [Slots -> Edits] /\ edit'[s] = Idle /\ edit[s] = Idle
              /\ \A t \in Slots \ {s} : edit'[t] = edit[t]
              /\ edits' \in 0..MaxEdits /\ UNCHANGED rolesVars
            BY <1>3, <1>t, <1>i, Entered DEF CloseShare
        <2>2. /\ link[k].made /\ UNCHANGED <<late, MenuState, FeatureState>>
              /\ link' = [link EXCEPT ![k].closed = TRUE]
            BY <1>3 DEF CloseShare
        <2>3. /\ link' \in [Links -> Link]
              /\ \A j \in Links \ {k} : link'[j] = link[j]
              /\ link'[k].made /\ link'[k].max = link[k].max /\ link'[k].views = link[k].views
            BY <1>m, <2>2 DEF Link
        <2>4. link'[k].max > 0 =>
                  link'[k].views + Cardinality(Under(k)') <= link'[k].max + late'[k]
            BY <1>1, <1>l, <2>1, <2>2, <2>3
        <2>5. LinkInv'
            BY <1>t, <1>v, <1>w, <2>1, <2>2, <2>3, <2>4, LinkOf
        <2> QED
            BY <1>i, <1>m, <2>1, <2>2, <2>3, <2>5, LinkStep
    <1>4. CASE VisitRead(s, k)
        <2> DEFINE e == [pc |-> "visit.count", link |-> k]
        <2>0. e \in Edits /\ e.pc = "visit.count" /\ e.link = k
            BY DEF Edits, Visit
        <2>1. /\ edit' \in [Slots -> Edits] /\ edit'[s] = e /\ edit[s] = Idle
              /\ \A t \in Slots \ {s} : edit'[t] = edit[t]
              /\ edits' \in 0..MaxEdits /\ UNCHANGED rolesVars
            BY <1>4, <1>t, <2>0, Entered DEF VisitRead
        <2>2. /\ link[k].made /\ UNCHANGED <<link, MenuState, FeatureState>>
              /\ link[k].max = 0 \/ link[k].views < link[k].max
              /\ late' = [late EXCEPT ![k] = IF \E t \in Slots : Visits(t, k) THEN @ + 1 ELSE @]
            BY <1>4 DEF VisitRead, Viewable
        <2> HIDE DEF e
        <2>3. /\ late' \in [Links -> Nat] /\ \A j \in Links \ {k} : late'[j] = late[j]
              /\ late'[k] = IF Under(k) # {} THEN late[k] + 1 ELSE late[k]
            <3>1. (\E t \in Slots : Visits(t, k)) <=> Under(k) # {}
                BY DEF Under
            <3> QED
                BY <1>m, <2>2, <3>1
        <2>4. Under(k)' = Under(k) \cup {s} /\ s \notin Under(k)
            <3>1. \A t \in Slots \ {s} : Visits(t, k)' <=> Visits(t, k)
                BY <2>1 DEF Visits, In
            <3>2. Visits(s, k)' /\ ~Visits(s, k)
                BY <1>v, <2>0, <2>1 DEF Visits, In
            <3> QED
                BY <3>1, <3>2 DEF Under
        <2>5. Cardinality(Under(k)') = Cardinality(Under(k)) + 1
            BY <2>4, UnderIsFinite, FS_AddElement
        <2>6. link'[k].max > 0 =>
                  link'[k].views + Cardinality(Under(k)') <= link'[k].max + late'[k]
            <3>1. Cardinality(Under(k)) \in Nat
                BY UnderIsFinite
            <3>2. Under(k) = {} => Cardinality(Under(k)) = 0
                BY FS_EmptySet
            <3> QED
                BY <1>k, <1>l, <2>2, <2>3, <2>5, <3>1, <3>2
        <2>7. \A j \in Links \ {k} : ~Visits(s, j)' /\ ~Visits(s, j)
            BY <1>v, <2>0, <2>1 DEF Visits, In
        <2>8. LinkInv'
            BY <1>t, <2>1, <2>2, <2>3, <2>6, <2>7, LinkOf
        <2> QED
            BY <1>i, <1>m, <2>0, <2>1, <2>2, <2>3, <2>8, LinkStep
    <1> QED
        BY <1>2, <1>3, <1>4

LEMMA InvVisitCount ==
    ASSUME AccessInv, NEW s \in Slots, VisitCount(s)
    PROVE  AccessInv'
    <1>t. AccessTypeOK /\ LinkInv
        BY DEF AccessInv
    <1>m. link \in [Links -> Link] /\ late \in [Links -> Nat] /\ edits \in 0..MaxEdits
        BY <1>t DEF AccessTypeOK
    <1>i. Idle.pc = "idle"
        BY DEF Idle
    <1>1. edit[s] \in Visit /\ edit[s].pc = "visit.count"
        BY <1>t, EditShape DEF VisitCount, In
    <1>2. PICK k \in Links : k = edit[s].link
        BY <1>1 DEF Visit
    <1>3. /\ edit' \in [Slots -> Edits] /\ edit'[s] = Idle
          /\ \A t \in Slots \ {s} : edit'[t] = edit[t]
          /\ UNCHANGED <<rolesVars, edits>>
        BY <1>t, Left DEF VisitCount
    <1>4. /\ link' = [link EXCEPT ![k].views = @ + 1]
          /\ UNCHANGED <<late, MenuState, FeatureState>>
        BY <1>2 DEF VisitCount
    <1>5. /\ link[k].max \in Nat /\ link[k].views \in Nat /\ late[k] \in Nat
        BY <1>m, ViewsAssumption DEF Link
    <1>6. /\ link' \in [Links -> Link] /\ \A j \in Links \ {k} : link'[j] = link[j]
          /\ link'[k].made = link[k].made /\ link'[k].max = link[k].max
          /\ link'[k].views = link[k].views + 1
        BY <1>m, <1>4 DEF Link
    <1>7. Under(k)' = Under(k) \ {s} /\ s \in Under(k)
        <2>1. \A t \in Slots \ {s} : Visits(t, k)' <=> Visits(t, k)
            BY <1>3 DEF Visits, In
        <2>2. ~Visits(s, k)' /\ Visits(s, k)
            BY <1>1, <1>2, <1>3, <1>i DEF Visits, In
        <2> QED
            BY <2>1, <2>2 DEF Under
    <1>8. Cardinality(Under(k)') = Cardinality(Under(k)) - 1 /\ Cardinality(Under(k)) \in Nat
        BY <1>7, UnderIsFinite, FS_RemoveElement
    <1>9. /\ link'[k].max > 0 =>
                 link'[k].views + Cardinality(Under(k)') <= link'[k].max + late'[k]
          /\ link'[k].made
        <2>1. /\ link[k].max > 0 => link[k].views + Cardinality(Under(k)) <= link[k].max + late[k]
              /\ link[k].made
            BY <1>t, <1>7 DEF LinkInv
        <2> QED
            BY <1>4, <1>5, <1>6, <1>8, <2>1
    <1>10. \A j \in Links \ {k} : ~Visits(s, j)' /\ ~Visits(s, j)
        BY <1>2, <1>3, <1>i DEF Visits, In
    <1>11. LinkInv'
        BY <1>t, <1>3, <1>4, <1>6, <1>9, <1>10, LinkOf
    <1> QED
        BY <1>1, <1>3, <1>4, <1>6, <1>11, <1>i, <1>m, LinkStep

-----------------------------------------------------------------------------
\* A request for menus, features or links that breaks off.
LEMMA InvBreakOff ==
    ASSUME AccessInv, NEW s \in Slots, BreakOff(s)
    PROVE  AccessInv'
    <1>t. AccessTypeOK /\ MenuInv /\ FeatureInv /\ LinkInv /\ RolesInv
        BY DEF AccessInv
    <1>i. Idle \in Edits /\ Idle.pc = "idle"
        BY DEF Edits, Idle
    <1>1. /\ edit' = [edit EXCEPT ![s] = Idle] /\ faults < MaxFaults /\ faults' = faults + 1
          /\ muddled' = muddled \cup {m \in Menus : EditsMenu(s, m)}
          /\ strayed' = strayed \cup {f \in Features : DeletesFeature(s, f)}
          /\ UNCHANGED <<Tables, call, raced, ceiling, calls, needs, offers, live, born, included,
                         link, edits, asked, late>>
        BY DEF BreakOff
    <1>2. /\ edit' \in [Slots -> Edits] /\ edit'[s] = Idle
          /\ \A t \in Slots \ {s} : edit'[t] = edit[t]
        BY <1>t, <1>i, <1>1, EditAssigned
    <1>3. RolesInv'
        <2>1. faults' \in 0..MaxFaults
            BY <1>t, <1>1, BoundsAssumption DEF RolesInv, RolesTypeOK
        <2> QED
            BY <1>t, <1>1, <2>1, RolesUnchanged
    <1>4. AccessTypeOK'
        BY <1>t, <1>1, <1>2, <1>3, AccessTyped DEF AccessTypeOK
    <1>5. MenuInv'
        <2>1. edit'[s].pc \notin MenuPcs
            BY <1>i, <1>2 DEF MenuPcs
        <2>2. edit[s].pc \in MenuPcs => edit[s].menu \in muddled'
            <3>1. edit[s].pc \in MenuPcs => edit[s].menu \in Menus
                BY <1>t, EditShape DEF MenuEdit
            <3> QED
                BY <1>1, <3>1 DEF EditsMenu
        <2> QED
            BY <1>t, <1>1, <1>2, <2>1, <2>2, MenusKept
    <1>6. FeatureInv'
        <2>1. edit'[s].pc \notin FeatureSteps
            BY <1>i, <1>2 DEF FeatureSteps, FeaturePcs
        <2>2. \A f \in Features : ~Includes(s, f)' /\ ~DeletesFeature(s, f)'
            BY <2>1 DEF Includes, DeletesFeature, FeatureSteps
        <2>3. edit[s].pc = "feature.rows" => edit[s].feature \in strayed'
            <3>1. edit[s].pc = "feature.rows" => edit[s].feature \in Features
                BY <1>t, EditShape DEF FeatureEdit, FeatureSteps
            <3> QED
                BY <1>1, <3>1 DEF DeletesFeature
        <2>4. \A t \in Slots, f \in Features \ strayed' : Includes(t, f) => f \in live'
            BY <1>t, <1>1 DEF FeatureInv
        <2> QED
            BY <1>t, <1>1, <1>2, <2>2, <2>3, <2>4, FeatureOf
    <1>7. LinkInv'
        <2> SUFFICES ASSUME NEW k \in Links
                     PROVE  /\ link[k].max > 0 =>
                                   link[k].views + Cardinality(Under(k)') <= link[k].max + late[k]
                            /\ ~link[k].made => link[k].views = 0 /\ Under(k)' = {}
            BY <1>1 DEF LinkInv
        <2>1. Under(k)' \subseteq Under(k)
            <3>1. ~Visits(s, k)'
                BY <1>i, <1>2 DEF Visits, In
            <3>2. \A t \in Slots \ {s} : Visits(t, k)' <=> Visits(t, k)
                BY <1>2 DEF Visits, In
            <3> QED
                BY <3>1, <3>2 DEF Under
        <2>2. /\ Cardinality(Under(k)') <= Cardinality(Under(k))
              /\ Cardinality(Under(k)') \in Nat /\ Cardinality(Under(k)) \in Nat
            BY <2>1, UnderIsFinite, FS_Subset, FS_CardinalityType
        <2>3. link[k].max \in Nat /\ link[k].views \in Nat /\ late[k] \in Nat
            BY <1>t, ViewsAssumption DEF AccessTypeOK, Link
        <2>4. /\ link[k].max > 0 => link[k].views + Cardinality(Under(k)) <= link[k].max + late[k]
              /\ ~link[k].made => link[k].views = 0 /\ Under(k) = {}
            BY <1>t DEF LinkInv
        <2> QED
            BY <2>1, <2>2, <2>3, <2>4
    <1> QED
        BY <1>3, <1>4, <1>5, <1>6, <1>7 DEF AccessInv

\* A step of the roles leaves what hangs on them alone.
LEMMA InvRolesSteps ==
    ASSUME AccessInv, NEW s \in Slots,
           RolesBegin(s) \/ RolesStep(s) \/ PassOver(s) \/ Abort(s), UNCHANGED ownVars
    PROVE  AccessInv'
    <1>1. RolesInv'
        BY RolesInvKept DEF AccessInv
    <1>2. AccessTypeOK'
        BY <1>1, AccessTyped DEF AccessInv, AccessTypeOK, ownVars, Edits
    <1>3. MenuInv'
        BY DEF AccessInv, ownVars, MenuInv, EditsMenu, Linking, Clearing, Filling, In
    <1>4. FeatureInv'
        BY DEF AccessInv, ownVars, FeatureInv, DeletedFeaturesAreEmpty, Includes, DeletesFeature, In
    <1>5. LinkInv'
        BY DEF AccessInv, ownVars, LinkInv, Under, Visits, In
    <1> QED
        BY <1>1, <1>2, <1>3, <1>4, <1>5 DEF AccessInv

LEMMA AccessInvKept == AccessInv /\ [AccessNext]_accessVars => AccessInv'
    <1> SUFFICES ASSUME AccessInv, [AccessNext]_accessVars PROVE AccessInv'
        OBVIOUS
    <1>1. CASE UNCHANGED accessVars
        <2>1. UNCHANGED rolesVars /\ UNCHANGED ownVars
            BY <1>1 DEF accessVars
        <2>2. RolesInv'
            <3>1. faults \in 0..MaxFaults
                BY DEF AccessInv, RolesInv, RolesTypeOK
            <3> QED
                BY <2>1, <3>1, RolesUnchanged DEF AccessInv, rolesVars, Tables, Catalogue
        <2>3. AccessTypeOK'
            BY <2>1, <2>2, AccessTyped DEF AccessInv, AccessTypeOK, ownVars, Edits
        <2>4. MenuInv'
            BY <2>1 DEF AccessInv, ownVars, MenuInv, EditsMenu, Linking, Clearing, Filling, In
        <2>5. FeatureInv'
            BY <2>1 DEF AccessInv, ownVars, FeatureInv, DeletedFeaturesAreEmpty, Includes,
               DeletesFeature, In
        <2>6. LinkInv'
            BY <2>1 DEF AccessInv, ownVars, LinkInv, Under, Visits, In
        <2> QED
            BY <2>2, <2>3, <2>4, <2>5, <2>6 DEF AccessInv
    <1>2. ASSUME NEW s \in Slots, AccessStep(s) PROVE AccessInv'
        BY <1>2, InvMenuSteps, InvFeatureSteps, InvVisitCount DEF AccessStep
    <1> QED
        BY <1>1, <1>2, InvRolesSteps, InvMenus, InvFeatures, InvLinks, InvBreakOff DEF AccessNext

LEMMA AccessInvInit == AccessInit => AccessInv
    <1> SUFFICES ASSUME AccessInit PROVE AccessInv
        OBVIOUS
    <1>1. RolesInv
        BY RolesInvInit DEF AccessInit
    <1>2. \A s \in Slots : edit[s] = Idle /\ edit[s].pc = "idle"
        BY DEF AccessInit, Idle
    <1>3. AccessTypeOK
        <2>1. NoLink \in Link
            BY ViewsAssumption DEF NoLink, Link
        <2> QED
            BY <1>1, <2>1, ViewsAssumption, FeaturesAssumption DEF RolesInv, AccessInit, AccessTypeOK
    <1>4. MenuInv
        BY <1>2 DEF AccessInit, MenuInv, EditsMenu, MenuPcs
    <1>5. FeatureInv
        BY <1>2 DEF AccessInit, FeatureInv, DeletedFeaturesAreEmpty, Includes, FeaturePcs
    <1>6. LinkInv
        <2>1. \A k \in Links : Under(k) = {}
            BY <1>2 DEF Under, Visits, In
        <2> QED
            BY <2>1 DEF AccessInit, LinkInv, NoLink
    <1> QED
        BY <1>1, <1>3, <1>4, <1>5, <1>6 DEF AccessInv

-----------------------------------------------------------------------------
\* The three queries agree wherever the tables have their types.
LEMMA QueriesAgree == AccessTypeOK => MenusAgree
    <1> SUFFICES ASSUME AccessTypeOK, NEW u \in Users, NEW m \in Menus
                 PROVE  /\ HasAccess(u, m) /\ ListedMenu(u, m) => AccessibleMenu(u, m)
                        /\ AccessibleMenu(u, m) /\ u \notin Admins => HasAccess(u, m)
                        /\ BlockedMenu(u, m) <=> u \notin Admins /\ ~HasAccess(u, m)
                        /\ ~(BlockedMenu(u, m) /\ AccessibleMenu(u, m))
                        /\ CanAccessMenu(u, m) => HasAccess(u, m)
                        /\ needs[m] \subseteq perms => (CanAccessMenu(u, m) <=> HasAccess(u, m))
        BY DEF MenusAgree
    <1> DEFINE rows == needs[m] \cap perms
               own == PermissionsOf(u)
    <1>1. IsFiniteSet(rows) /\ IsFiniteSet({p \in rows : p \in own})
        <2>1. needs[m] \subseteq Perms
            BY DEF AccessTypeOK
        <2>2. rows \subseteq Perms /\ {p \in rows : p \in own} \subseteq Perms
            BY <2>1
        <2> HIDE DEF rows, own
        <2> QED
            BY <2>2, FiniteAssumption, FS_Subset
    <1>2. AccessibleMenu(u, m) <=> ListedMenu(u, m) /\ (u \in Admins \/ rows \subseteq own)
        <2>1. AccessibleMenu(u, m) <=>
                  /\ ListedMenu(u, m)
                  /\ \/ u \in Admins
                     \/ Cardinality(rows) = 0
                     \/ Cardinality({p \in rows : p \in own}) = Cardinality(rows)
            BY DEF AccessibleMenu
        <2> HIDE DEF rows, own
        <2>2. Cardinality(rows) = 0 <=> rows = {}
            BY <1>1, FS_EmptySet
        <2>3. Cardinality({p \in rows : p \in own}) = Cardinality(rows)
                  => {p \in rows : p \in own} = rows
            <3>1. {p \in rows : p \in own} \subseteq rows
                OBVIOUS
            <3> QED
                BY <1>1, <3>1, FS_Subset
        <2>4. rows \subseteq own => {p \in rows : p \in own} = rows
            OBVIOUS
        <2> QED
            BY <2>1, <2>2, <2>3, <2>4
    <1>3. HasAccess(u, m) <=> rows \subseteq own
        BY DEF HasAccess
    <1>4. \A p \in perms : p \in own <=> \E r \in Held(u) : <<r, p>> \in grants
        BY DEF PermissionsOf
    <1>5. CanAccessMenu(u, m) <=> \A p \in needs[m] : \E r \in Held(u) : <<r, p>> \in grants
        BY DEF CanAccessMenu
    <1>6. rows \subseteq own <=>
              \A p \in needs[m] \cap perms : \E r \in Held(u) : <<r, p>> \in grants
        BY <1>4
    <1>7. BlockedMenu(u, m) <=> u \notin Admins /\ ~(rows \subseteq own)
        BY DEF BlockedMenu
    <1> QED
        BY <1>2, <1>3, <1>5, <1>6, <1>7

LEMMA AccessInvGives ==
    ASSUME AccessInv
    PROVE  AccessTypeOK /\ RolesConsistent /\ AccessConsistent
    <1>1. AccessTypeOK /\ RolesConsistent /\ DeletedFeaturesAreEmpty
        BY DEF AccessInv, RolesInv, FeatureInv
    <1>2. MenusAgree
        BY <1>1, QueriesAgree
    <1>3. MenuAsAsked
        BY DEF AccessInv, MenuInv, MenuAsAsked
    <1>4. ViewsWithinLimit
        <2> SUFFICES ASSUME NEW k \in Links, link[k].max > 0
                     PROVE  link[k].views <= link[k].max + late[k]
            BY DEF ViewsWithinLimit
        <2>1. link[k].views + Cardinality(Under(k)) <= link[k].max + late[k]
            BY DEF AccessInv, LinkInv
        <2>2. Cardinality(Under(k)) \in Nat
            BY UnderIsFinite
        <2>3. link[k].views \in Nat /\ link[k].max \in Nat /\ late[k] \in Nat
            BY <1>1, ViewsAssumption DEF AccessTypeOK, Link
        <2> QED
            BY <2>1, <2>2, <2>3
    <1> QED
        BY <1>1, <1>2, <1>3, <1>4 DEF AccessConsistent

\* A step that leaves the links alone begins no visit.
LEMMA NoVisit ==
    ASSUME AccessTypeOK, NEW s \in Slots,
           edit' = edit \/ (edit[s].pc # "visit.count" /\ edit'[s].pc # "visit.count"
                            /\ \A t \in Slots \ {s} : edit'[t] = edit[t]),
           NEW k \in Links, \A t \in Slots : ~Visits(t, k)
    PROVE  \A t \in Slots : ~Visits(t, k)'
    BY DEF Visits, In

LEMMA ClosedKept ==
    ASSUME AccessInv, [AccessNext]_accessVars, NEW k \in Links, link[k].closed,
           \A t \in Slots : ~Visits(t, k)
    PROVE  link'[k].views = link[k].views /\ \A t \in Slots : ~Visits(t, k)'
    <1>t. AccessTypeOK
        BY DEF AccessInv
    <1>m. link \in [Links -> Link]
        BY <1>t DEF AccessTypeOK
    <1>i. Idle.pc = "idle" /\ Idle \in Edits
        BY DEF Idle, Edits
    <1> DEFINE Goal == link'[k].views = link[k].views /\ \A t \in Slots : ~Visits(t, k)'
    <1>e. \* A request that is begun, goes on or leaves, and is no visit.
          ASSUME NEW s \in Slots,
                 \/ \E e \in Edits : Enter(s, e) /\ e.pc # "visit.count"
                 \/ edit[s].pc # "visit.count" /\ Leave(s)
                 \/ edit[s].pc # "visit.count" /\ \E e \in Edits :
                        edit' = [edit EXCEPT ![s] = e] /\ e.pc # "visit.count",
                 link' = link
          PROVE  Goal
        <2>1. /\ edit[s].pc # "visit.count" /\ edit'[s].pc # "visit.count"
              /\ \A t \in Slots \ {s} : edit'[t] = edit[t]
            <3>1. CASE \E e \in Edits : Enter(s, e) /\ e.pc # "visit.count"
                BY <1>t, <1>i, <3>1, Entered
            <3>2. CASE edit[s].pc # "visit.count" /\ Leave(s)
                BY <1>t, <1>i, <3>2, Left
            <3>3. CASE edit[s].pc # "visit.count" /\ \E e \in Edits :
                           edit' = [edit EXCEPT ![s] = e] /\ e.pc # "visit.count"
                BY <1>t, <3>3, EditAssigned
            <3> QED
                BY <1>e, <3>1, <3>2, <3>3
        <2> QED
            BY <1>e, <1>t, <2>1, NoVisit
    <1>n. \* The same for a request that moves to its next statement.
          ASSUME NEW s \in Slots, NEW pc, Move(s, pc), link' = link,
                 \/ edit[s].pc \in MenuPcs /\ pc \in MenuPcs
                 \/ edit[s].pc \in FeatureSteps /\ pc \in FeatureSteps
          PROVE  Goal
        <2>1. \/ edit[s] \in MenuEdit /\ pc \in MenuPcs
              \/ edit[s] \in FeatureEdit /\ pc \in FeatureSteps
            BY <1>n, <1>t, EditShape
        <2>2. /\ edit'[s] = [edit[s] EXCEPT !.pc = pc] /\ \A t \in Slots \ {s} : edit'[t] = edit[t]
            BY <1>n, <1>t, <2>1, Moved
        <2>3. edit[s].pc # "visit.count" /\ edit'[s].pc # "visit.count"
            BY <1>n, <2>1, <2>2 DEF MenuEdit, FeatureEdit, MenuPcs, FeatureSteps, FeaturePcs
        <2> QED
            BY <1>n, <1>t, <2>2, <2>3, NoVisit
    <1>1. ASSUME UNCHANGED accessVars PROVE Goal
        BY <1>1 DEF accessVars, ownVars, Visits, In
    <1>2. ASSUME UNCHANGED ownVars PROVE Goal
        BY <1>2 DEF ownVars, Visits, In
    <1>3. ASSUME NEW s \in Slots, NEW m \in Menus,
                 \/ \E p \in known : LinkMenu(s, m, p) \/ LinkMenuAgain(s, m, p) \/ UnlinkMenu(s, m, p)
                 \/ \E need, may \in SUBSET known : BulkStart(s, m, need, may)
          PROVE  Goal
        <2>0. link' = link
            BY <1>3 DEF LinkMenu, LinkMenuAgain, UnlinkMenu, BulkStart, LinkState
        <2>1. known \subseteq Perms
            BY <1>t DEF AccessTypeOK, RolesTypeOK
        <2>2. \A p \in known : [pc |-> "link.update", menu |-> m, need |-> {p}, may |-> {}] \in Edits
            BY <2>1 DEF Edits, MenuEdit
        <2>3. \A need, may \in SUBSET known :
                  [pc |-> "bulk.delete", menu |-> m, need |-> need, may |-> may] \in Edits
            BY <2>1 DEF Edits, MenuEdit
        <2>4. \E e \in Edits : Enter(s, e) /\ e.pc # "visit.count"
            <3>1. ASSUME NEW p \in known, LinkMenu(s, m, p) \/ UnlinkMenu(s, m, p)
                  PROVE  \E e \in Edits : Enter(s, e) /\ e.pc # "visit.count"
                BY <1>i, <3>1 DEF LinkMenu, UnlinkMenu
            <3>2. ASSUME NEW p \in known, LinkMenuAgain(s, m, p)
                  PROVE  \E e \in Edits : Enter(s, e) /\ e.pc # "visit.count"
                BY <2>2, <3>2 DEF LinkMenuAgain
            <3>3. ASSUME NEW need \in SUBSET known, NEW may \in SUBSET known, BulkStart(s, m, need, may)
                  PROVE  \E e \in Edits : Enter(s, e) /\ e.pc # "visit.count"
                BY <2>3, <3>3 DEF BulkStart
            <3> QED
                BY <1>3, <3>1, <3>2, <3>3
        <2> QED
            BY <1>e, <2>0, <2>4
    <1>4. ASSUME NEW s \in Slots, NEW f \in Features,
                 \/ CreateFeature(s, f) \/ DeleteFeature(s, f)
                 \/ \E ps \in SUBSET known :
                        \/ IncludeStart(s, f, ps)
                        \/ \E p \in Perms, g \in Features : ReplaceStart(s, f, p, g, ps)
                 \/ \E p \in Perms : DropInclusion(s, f, p)
          PROVE  Goal
        <2>0. link' = link
            BY <1>4 DEF CreateFeature, DeleteFeature, IncludeStart, ReplaceStart, DropInclusion, LinkState
        <2>1. known \subseteq Perms
            BY <1>t DEF AccessTypeOK, RolesTypeOK
        <2>2. \A pc \in {"feature.flag", "include.check"}, g \in Features, ps \in SUBSET known,
                 drop \in SUBSET (Features \X Perms) :
                  [pc |-> pc, feature |-> g, add |-> ps, drop |-> drop] \in Edits
            BY <2>1 DEF Edits, FeatureEdit
        <2>3. \E e \in Edits : Enter(s, e) /\ e.pc # "visit.count"
            <3>1. ASSUME CreateFeature(s, f) \/ \E p \in Perms : DropInclusion(s, f, p)
                  PROVE  \E e \in Edits : Enter(s, e) /\ e.pc # "visit.count"
                BY <1>i, <3>1 DEF CreateFeature, DropInclusion
            <3>2. ASSUME DeleteFeature(s, f)
                  PROVE  \E e \in Edits : Enter(s, e) /\ e.pc # "visit.count"
                BY <2>2, <3>2 DEF DeleteFeature
            <3>3. ASSUME NEW ps \in SUBSET known, IncludeStart(s, f, ps)
                  PROVE  \E e \in Edits : Enter(s, e) /\ e.pc # "visit.count"
                BY <2>2, <3>3 DEF IncludeStart
            <3>4. ASSUME NEW ps \in SUBSET known, NEW p \in Perms, NEW g \in Features,
                         ReplaceStart(s, f, p, g, ps)
                  PROVE  \E e \in Edits : Enter(s, e) /\ e.pc # "visit.count"
                BY <2>2, <3>4 DEF ReplaceStart
            <3> QED
                BY <1>4, <3>1, <3>2, <3>3, <3>4
        <2> QED
            BY <1>e, <2>0, <2>3
    <1>5. ASSUME NEW s \in Slots, NEW j \in Links,
                 (\E max \in 0..MaxViews : CreateShare(s, j, max)) \/ CloseShare(s, j)
          PROVE  Goal
        <2>1. Enter(s, Idle) /\ link'[k].views = link[k].views
            <3>1. ASSUME NEW max \in 0..MaxViews, CreateShare(s, j, max)
                  PROVE  Enter(s, Idle) /\ link'[k].views = link[k].views
                <4>1. link' = [link EXCEPT ![j] = [link[j] EXCEPT !.made = TRUE, !.max = max]]
                    BY <1>m, <3>1 DEF CreateShare
                <4> QED
                    BY <1>m, <3>1, <4>1 DEF CreateShare, Link
            <3>2. CASE CloseShare(s, j)
                BY <1>m, <3>2 DEF CloseShare, Link
            <3> QED
                BY <1>5, <3>1, <3>2
        <2>2. /\ edit'[s] = Idle /\ edit[s] = Idle /\ \A t \in Slots \ {s} : edit'[t] = edit[t]
            BY <1>t, <1>i, <2>1, Entered
        <2> QED
            BY <1>i, <1>t, <2>1, <2>2, NoVisit
    <1>6. ASSUME NEW s \in Slots, NEW j \in Links, VisitRead(s, j) PROVE Goal
        <2> DEFINE e == [pc |-> "visit.count", link |-> j]
        <2>0. e \in Edits /\ e.link = j
            BY DEF Edits, Visit
        <2>1. j # k /\ link' = link /\ Enter(s, e)
            BY <1>6, <1>m DEF VisitRead
        <2>2. edit'[s] = e /\ \A t \in Slots \ {s} : edit'[t] = edit[t]
            BY <1>t, <2>0, <2>1, Entered
        <2> HIDE DEF e
        <2> QED
            BY <2>0, <2>1, <2>2 DEF Visits, In
    <1>7. ASSUME NEW s \in Slots, AccessStep(s) PROVE Goal
        <2>1. CASE VisitCount(s)
            <3>1. edit[s].pc = "visit.count" /\ edit[s].link # k
                BY <2>1 DEF VisitCount, Visits, In
            <3>2. link'[k].views = link[k].views
                BY <1>m, <2>1, <3>1 DEF VisitCount
            <3>3. edit'[s] = Idle /\ \A t \in Slots \ {s} : edit'[t] = edit[t]
                BY <1>t, <2>1, Left DEF VisitCount
            <3> QED
                BY <1>i, <3>2, <3>3 DEF Visits, In
        <2>2. CASE LinkMenuUpdate(s) \/ FlagFeatureRows(s) \/ IncludeInsert(s) \/ ReplaceInsert(s)
            BY <1>e, <2>2 DEF LinkMenuUpdate, FlagFeatureRows, IncludeInsert, ReplaceInsert, In,
               LinkState
        <2>3. CASE BulkDelete(s) \/ FlagFeature(s) \/ ReplaceDelete(s)
            BY <1>n, <2>3 DEF BulkDelete, FlagFeature, ReplaceDelete, In, LinkState, MenuPcs,
               FeatureSteps, FeaturePcs
        <2>4. CASE IncludeCheck(s)
            <3>1. edit[s].pc = "include.check" /\ link' = link
                BY <2>4 DEF IncludeCheck, In, LinkState
            <3>2. Leave(s) \/ Move(s, "include.insert") \/ Move(s, "replace.delete")
                BY <2>4 DEF IncludeCheck
            <3>3. edit[s].pc # "visit.count" /\ edit[s].pc \in FeatureSteps
                  /\ {"include.insert", "replace.delete"} \subseteq FeatureSteps
                BY <3>1 DEF FeatureSteps, FeaturePcs
            <3> HIDE DEF Goal
            <3> QED
                BY <1>e, <1>n, <3>1, <3>2, <3>3
        <2>5. CASE BulkInsert(s)
            <3>1. edit[s] \in MenuEdit /\ edit[s].pc = "bulk.insert" /\ link' = link
                BY <1>t, <2>5, EditShape DEF BulkInsert, In, MenuPcs, LinkState
            <3>2. \/ Leave(s)
                  \/ \E p \in edit[s].need : edit' = [edit EXCEPT ![s].need = @ \ {p}]
                  \/ \E p \in edit[s].may : edit' = [edit EXCEPT ![s].may = @ \ {p}]
                BY <2>5 DEF BulkInsert
            <3>3. Leave(s) \/ \E e \in Edits : edit' = [edit EXCEPT ![s] = e] /\ e.pc # "visit.count"
                <4>1. ASSUME NEW p
                      PROVE  /\ [edit[s] EXCEPT !.need = @ \ {p}] \in Edits
                             /\ [edit[s] EXCEPT !.may = @ \ {p}] \in Edits
                             /\ [edit[s] EXCEPT !.need = @ \ {p}].pc = "bulk.insert"
                             /\ [edit[s] EXCEPT !.may = @ \ {p}].pc = "bulk.insert"
                    BY <3>1 DEF Edits, MenuEdit
                <4>2. ASSUME NEW p, edit' = [edit EXCEPT ![s].need = @ \ {p}]
                      PROVE  edit' = [edit EXCEPT ![s] = [edit[s] EXCEPT !.need = @ \ {p}]]
                    BY <1>t, <4>2 DEF AccessTypeOK
                <4>3. ASSUME NEW p, edit' = [edit EXCEPT ![s].may = @ \ {p}]
                      PROVE  edit' = [edit EXCEPT ![s] = [edit[s] EXCEPT !.may = @ \ {p}]]
                    BY <1>t, <4>3 DEF AccessTypeOK
                <4> QED
                    BY <3>2, <4>1, <4>2, <4>3
            <3> HIDE DEF Goal
            <3> QED
                BY <1>e, <3>1, <3>3
        <2> QED
            BY <1>7, <2>1, <2>2, <2>3, <2>4, <2>5 DEF AccessStep
    <1>8. ASSUME NEW s \in Slots, BreakOff(s) PROVE Goal
        <2>1. edit' = [edit EXCEPT ![s] = Idle] /\ link' = link
            BY <1>8 DEF BreakOff
        <2>2. edit'[s] = Idle /\ \A t \in Slots \ {s} : edit'[t] = edit[t]
            BY <1>t, <1>i, <2>1, EditAssigned
        <2> QED
            BY <1>i, <2>1, <2>2 DEF Visits, In
    <1> HIDE DEF Goal
    <1>9. Goal
        <2>1. CASE \E s \in Slots, m \in Menus :
                       \/ \E p \in known : LinkMenu(s, m, p) \/ LinkMenuAgain(s, m, p)
                                          \/ UnlinkMenu(s, m, p)
                       \/ \E need, may \in SUBSET known : BulkStart(s, m, need, may)
            BY <1>3, <2>1
        <2>2. CASE \E s \in Slots, f \in Features :
                       \/ CreateFeature(s, f) \/ DeleteFeature(s, f)
                       \/ \E ps \in SUBSET known :
                              \/ IncludeStart(s, f, ps)
                              \/ \E p \in Perms, g \in Features : ReplaceStart(s, f, p, g, ps)
                       \/ \E p \in Perms : DropInclusion(s, f, p)
            BY <1>4, <2>2
        <2>3. CASE \E s \in Slots, j \in Links :
                       \/ \E max \in 0..MaxViews : CreateShare(s, j, max)
                       \/ CloseShare(s, j) \/ VisitRead(s, j)
            BY <1>5, <1>6, <2>3
        <2>4. CASE \E s \in Slots : AccessStep(s) \/ BreakOff(s)
            BY <1>7, <1>8, <2>4
        <2> QED
            BY <1>1, <1>2, <2>1, <2>2, <2>3, <2>4 DEF AccessNext
    <1> QED
        BY <1>9 DEF Goal

-----------------------------------------------------------------------------
LEMMA AccessInvAlways == AccessSpec => []AccessInv
    BY AccessInvInit, AccessInvKept, PTL DEF AccessSpec

\* Roles, menus, features, links and the requests for them have their types.
THEOREM AccessTypeAlways == AccessSpec => []AccessTypeOK
    BY AccessInvAlways, AccessInvGives, PTL

\* The hierarchy and deletion of RbacService hold against every interleaving of
\* requests, and with any of them broken off: nobody climbs above the ceiling,
\* and nobody holds and no row grants through a role that is gone, unless the
\* two requests overlapped.
THEOREM RolesAlwaysConsistent == AccessSpec => []RolesConsistent
    BY AccessInvAlways, AccessInvGives, PTL

\* The three queries for the menus agree, a menu is linked to what was asked
\* last, a deleted feature is empty, and a link is viewed within its limit, but
\* for what the histories name.
THEOREM AccessAlwaysConsistent == AccessSpec => []AccessConsistent
    BY AccessInvAlways, AccessInvGives, PTL

\* accessShare never counts a view of a link that was revoked before the visit
\* began.
THEOREM ClosedAlwaysHolds == AccessSpec => ClosedHolds
    <1>1. AccessInv /\ [AccessNext]_accessVars =>
              [\A k \in Links : link[k].closed /\ ~(\E s \in Slots : Visits(s, k))
                   => link'[k].views = link[k].views /\ ~(\E s \in Slots : Visits(s, k))']_accessVars
        BY ClosedKept
    <1> QED
        BY <1>1, AccessInvAlways, PTL DEF AccessSpec, ClosedHolds

=============================================================================
