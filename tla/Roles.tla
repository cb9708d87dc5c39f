------------------------------- MODULE Roles -------------------------------
(***************************************************************************)
(* Roles, who holds them and what they grant, as RbacService and           *)
(* RbacEnhancedService keep them in roles, user_roles and                  *)
(* role_permissions.  No table has a FOREIGN KEY: that a holder's role     *)
(* exists, and that a deleted role grants nothing, is left to checks that  *)
(* run as statements of their own.  An assignment reads the assigner's     *)
(* level, the role's level and the role's row before it inserts; a         *)
(* deletion counts the holders, clears the grants and then deletes.        *)
(* InvitationService and sp_CreateTenant write user_roles too.             *)
(***************************************************************************)
EXTENDS Naturals, FiniteSets

CONSTANTS
    Users,
    Admins,     \* users of type owner or super_admin
    RoleIds,    \* ids the roles table may hand out
    Seed,       \* the roles that are there at first
    Perms,      \* ids the permissions table may hand out
    SeedPerms,  \* the permissions that are there at first
    MaxLevel,   \* bound: the highest hierarchy_level
    Slots,      \* requests in flight at once
    None,       \* no role yet
    MaxCalls,   \* bound: requests that are made
    MaxFaults   \* bound: requests that break off

ASSUME SetsAssumption == 
    /\ Admins \subseteq Users
    /\ Seed \subseteq RoleIds /\ SeedPerms \subseteq Perms
    /\ None \notin RoleIds
ASSUME BoundsAssumption ==
    MaxLevel \in Nat /\ MaxCalls \in Nat /\ MaxFaults \in Nat
ASSUME FiniteAssumption ==
    IsFiniteSet(Users) /\ IsFiniteSet(RoleIds) /\ IsFiniteSet(Perms) /\ IsFiniteSet(Slots)

VARIABLES
    exists,   \* ids with a roles row
    used,     \* ids that have had one
    level,    \* level[r]: hierarchy_level
    holds,    \* user_roles, as pairs <<user, role>>
    perms,    \* ids with a permissions row
    known,    \* ids that have had one
    grants,   \* role_permissions, as pairs <<role, permission>>
    call,     \* the requests in flight
    raced,    \* history: roles used by another request while one deleted them
    ceiling,  \* history: the highest level held at first, or given or set since
              \* without a comparison of levels
    calls, faults

rolesVars == <<exists, used, level, holds, perms, known, grants, call, raced,
               ceiling, calls, faults>>

-----------------------------------------------------------------------------
Levels == 0..MaxLevel
Idle == [pc |-> "idle"]
Assigning == {"assign.target", "assign.role", "assign.insert"}
Sharing == {"users.level", "users.target", "users.insert"}
Joining == {"join.role", "join.insert"}
Assign == [pc : Assigning, by : Users, user : Users, role : RoleIds, max : Levels,
           rest : SUBSET RoleIds]  \* rest: roles of the same request
NextRole == [pc : {"assign.next"}, by : Users, user : Users, rest : SUBSET RoleIds]
Share == [pc : Sharing, by : Users, todo : SUBSET Users, role : RoleIds, max : Levels]
Remove == [pc : {"remove.next"}, user : Users, rest : SUBSET RoleIds]
Join == [pc : Joining, user : Users, role : RoleIds]
Delete == [pc : {"delete.grants", "delete.row"}, role : RoleIds]
Grant == [pc : {"grant.change"}, role : RoleIds, todo : SUBSET Perms, drop : SUBSET Perms]
Clone == [pc : {"clone.insert"}, role : RoleIds, level : Levels, copy : {None}, todo : {{}}]
         \cup [pc : {"clone.read", "clone.copy"}, role : RoleIds, level : Levels, copy : RoleIds,
               todo : SUBSET Perms]

RolesTypeOK ==
    /\ exists \subseteq used /\ used \subseteq RoleIds
    /\ level \in [RoleIds -> Levels]
    /\ holds \subseteq Users \X RoleIds
    /\ perms \subseteq known /\ known \subseteq Perms
    /\ grants \subseteq RoleIds \X Perms
    /\ call \in [Slots -> Assign \cup NextRole \cup Share \cup Remove \cup Join \cup Delete
                          \cup Grant \cup Clone \cup {Idle}]
    /\ raced \subseteq RoleIds
    /\ ceiling \in Levels
    /\ calls \in 0..MaxCalls /\ faults \in 0..MaxFaults

Highest(S) == CHOOSE n \in S : \A m \in S : m <= n

\* MAX(r.hierarchy_level) over the roles of u that exist, 0 without any.
LevelOf(u) == Highest({0} \cup {level[r] : r \in {q \in exists : <<u, q>> \in holds}})

\* Every user holds a role of the seed, and these grant the permissions
\* there are.
Init ==
    /\ exists = Seed /\ used = Seed
    /\ level \in {f \in [RoleIds -> Levels] : \A r \in RoleIds \ Seed : f[r] = 0}
    /\ \E f \in [Users -> Seed] : holds = {<<u, f[u]>> : u \in Users}
    /\ perms = SeedPerms /\ known = SeedPerms
    /\ grants = Seed \X SeedPerms
    /\ call = [s \in Slots |-> Idle]
    /\ raced = {}
    /\ ceiling = Highest({0} \cup {level[h[2]] : h \in holds})
    /\ calls = 0 /\ faults = 0

At(s, pc) == call[s].pc = pc
Goto(s, pc) == call' = [call EXCEPT ![s].pc = pc]
Done(s) == call' = [call EXCEPT ![s] = Idle]
Counters == <<calls, faults>>
Catalogue == <<perms, known>>
Tables == <<exists, used, level, holds, Catalogue, grants>>

\* A bulk request counts once for each of its n roles or users.
BeginMany(s, c, n) ==
    /\ call[s] = Idle
    /\ calls + n <= MaxCalls
    /\ call' = [call EXCEPT ![s] = c]
    /\ calls' = calls + n
    /\ UNCHANGED faults
Begin(s, c) == BeginMany(s, c, 1)

\* The requests that rely on role r, or delete it.
Uses(s, r) ==
    \/ call[s].pc \in Assigning \cup Sharing \cup Joining \cup {"grant.change"} /\ call[s].role = r
    \/ call[s].pc \in {"clone.read", "clone.copy"} /\ call[s].copy = r
Deletes(s, r) == call[s].pc \in {"delete.grants", "delete.row"} /\ call[s].role = r
\* Role r is read, while it may be on its way out.
Race(r) == raced' = raced \cup {q \in {r} : \E t \in Slots : Deletes(t, q)}

-----------------------------------------------------------------------------
\* createRole.  No level is out of bounds for the creator, and the catch for
\* 'Role with this name already exists' has no UNIQUE constraint to act on.
CreateRole(s, r, l) ==
    /\ r \notin used
    /\ Begin(s, Idle)
    /\ exists' = exists \cup {r} /\ used' = used \cup {r}
    /\ level' = [level EXCEPT ![r] = l]
    /\ UNCHANGED <<holds, Catalogue, grants, raced, ceiling>>

\* updateRole: whoever may edit the role sets its level.
UpdateRole(s, r, l) ==
    /\ r \in exists
    /\ Begin(s, Idle)
    /\ level' = [level EXCEPT ![r] = l]
    /\ ceiling' = Highest({ceiling, l})
    /\ UNCHANGED <<exists, used, holds, Catalogue, grants, raced>>

\* deleteRole: 'users are currently assigned', ...
DeleteCount(s, r) ==
    /\ r \in exists
    /\ \A u \in Users : <<u, r>> \notin holds
    /\ Begin(s, [pc |-> "delete.grants", role |-> r])
    /\ raced' = raced \cup {q \in {r} : \E t \in Slots : Uses(t, q)}
    /\ UNCHANGED <<Tables, ceiling>>

\* ... DELETE FROM role_permissions, ...
DeleteGrants(s) ==
    /\ At(s, "delete.grants")
    /\ grants' = {g \in grants : g[1] # call[s].role}
    /\ Goto(s, "delete.row")
    /\ UNCHANGED <<exists, used, level, holds, Catalogue, raced, ceiling, Counters>>

\* ... and DELETE FROM roles.
DeleteRow(s) ==
    /\ At(s, "delete.row")
    /\ exists' = exists \ {call[s].role}
    /\ Done(s)
    /\ UNCHANGED <<used, level, holds, Catalogue, grants, raced, ceiling, Counters>>

-----------------------------------------------------------------------------
\* bulkAssignPermissions, one statement per change, and removePermissions.
\* assignPermissions changes nothing: its query has ? for placeholders, which
\* the driver does not know.
GrantStart(s, r, add, drop) ==
    /\ r \in exists
    /\ add \cup drop \subseteq known /\ add \cup drop # {}
    /\ Begin(s, [pc |-> "grant.change", role |-> r, todo |-> add, drop |-> drop])
    /\ Race(r)
    /\ UNCHANGED <<Tables, ceiling>>

GrantOne(s) ==
    LET c == call[s]
    IN  /\ At(s, "grant.change")
        /\ \/ \E p \in c.todo :
                  /\ grants' = grants \cup {<<c.role, p>>}
                  /\ call' = [call EXCEPT ![s].todo = @ \ {p}]
           \/ \E p \in c.drop :
                  /\ grants' = grants \ {<<c.role, p>>}
                  /\ call' = [call EXCEPT ![s].drop = @ \ {p}]
           \/ c.todo \cup c.drop = {} /\ Done(s) /\ UNCHANGED grants
        /\ UNCHANGED <<exists, used, level, holds, Catalogue, raced, ceiling, Counters>>

-----------------------------------------------------------------------------
\* The roles of a request but for those in hand, if any are left.
NextOf(c, rest) ==
    IF rest = {} THEN Idle
    ELSE [pc |-> "assign.next", by |-> c.by, user |-> c.user, rest |-> rest]

\* What checkRoleHierarchy begins with: the level of the assigner is read; an
\* administrator needs none.
Checked(by, u, r, rest) ==
    [pc |-> IF by \in Admins THEN "assign.role" ELSE "assign.target",
     by |-> by, user |-> u, role |-> r, max |-> LevelOf(by), rest |-> rest]

\* assignRoleToUser.  The request names a role that was there once.
AssignRoleToUser(s, by, u, r) ==
    /\ r \in used
    /\ Begin(s, Checked(by, u, r, {}))
    /\ Race(r)
    /\ UNCHANGED <<Tables, ceiling>>

\* bulkAssignRolesToUser: one role after the other, ...
BulkAssignRolesToUser(s, by, u, rs) ==
    /\ rs \subseteq used /\ Cardinality(rs) > 1
    /\ BeginMany(s, [pc |-> "assign.next", by |-> by, user |-> u, rest |-> rs], Cardinality(rs))
    /\ UNCHANGED <<Tables, raced, ceiling>>

\* ... each of them checked anew.
AssignNext(s) ==
    LET c == call[s]
    IN  /\ At(s, "assign.next")
        /\ \E r \in c.rest :
               /\ call' = [call EXCEPT ![s] = Checked(c.by, c.user, r, c.rest \ {r})]
               /\ Race(r)
        /\ UNCHANGED <<Tables, ceiling, Counters>>

\* bulkAssignUsersToRole looks for the role first, ...
BulkAssignUsersToRole(s, by, us, r) ==
    /\ r \in exists /\ Cardinality(us) > 1
    /\ BeginMany(s, [pc |-> IF by \in Admins THEN "users.insert" ELSE "users.level",
                     by |-> by, todo |-> us, role |-> r, max |-> 0], Cardinality(us))
    /\ Race(r)
    /\ UNCHANGED <<Tables, ceiling>>

\* ... then reads the level of the assigner, ...
ShareLevel(s) ==
    /\ At(s, "users.level")
    /\ call' = [call EXCEPT ![s].pc = "users.target", ![s].max = LevelOf(call[s].by)]
    /\ UNCHANGED <<Tables, raced, ceiling, Counters>>

\* hierarchy_level of role r, 0 without a row.
LevelOfRole(r) == IF r \in exists THEN level[r] ELSE 0

\* ... and that of the role.
ShareTarget(s) ==
    /\ At(s, "users.target")
    /\ IF LevelOfRole(call[s].role) > call[s].max THEN Done(s) ELSE Goto(s, "users.insert")
    /\ UNCHANGED <<Tables, raced, ceiling, Counters>>

\* Mutant: a role one level up passes.
AssignTargetAbove(s) ==
    /\ At(s, "assign.target")
    /\ IF LevelOfRole(call[s].role) > call[s].max + 1
       THEN call' = [call EXCEPT ![s] = NextOf(@, @.rest)] ELSE Goto(s, "assign.role")
    /\ UNCHANGED <<Tables, raced, ceiling, Counters>>

\* checkRoleHierarchy reads the level of the role: 'Cannot assign role with
\* hierarchy ...', ...
AssignTarget(s) ==
    /\ At(s, "assign.target")
    /\ IF LevelOfRole(call[s].role) > call[s].max
       THEN call' = [call EXCEPT ![s] = NextOf(@, @.rest)] ELSE Goto(s, "assign.role")
    /\ UNCHANGED <<Tables, raced, ceiling, Counters>>

\* ... 'Role not found', ...
AssignRole(s) ==
    /\ At(s, "assign.role")
    /\ IF call[s].role \in exists
       THEN Goto(s, "assign.insert") ELSE call' = [call EXCEPT ![s] = NextOf(@, @.rest)]
    /\ UNCHANGED <<Tables, raced, ceiling, Counters>>

\* Role r has been given by by: its level counts when by is an administrator.
Authority(by, r) == ceiling' = IF by \in Admins THEN Highest({ceiling, level[r]}) ELSE ceiling

\* ... INSERT INTO user_roles; the row may be there already.
AssignInsert(s) ==
    LET c == call[s]
    IN  /\ At(s, "assign.insert")
        /\ holds' = holds \cup {<<c.user, c.role>>}
        /\ call' = [call EXCEPT ![s] = NextOf(c, c.rest)]
        /\ Authority(c.by, c.role)
        /\ UNCHANGED <<exists, used, level, Catalogue, grants, raced, Counters>>

\* One user of bulkAssignUsersToRole after the other.
ShareInsert(s) ==
    LET c == call[s]
    IN  /\ At(s, "users.insert")
        /\ \E u \in c.todo :
               /\ holds' = holds \cup {<<u, c.role>>}
               /\ call' = [call EXCEPT ![s] = IF c.todo = {u} THEN Idle
                                              ELSE [c EXCEPT !.todo = @ \ {u}]]
        /\ Authority(c.by, c.role)
        /\ UNCHANGED <<exists, used, level, Catalogue, grants, raced, Counters>>

\* acceptInvitation, of an invitation to role r, whose level nobody compared
\* with the inviter's.
AcceptInvitation(s, u, r) ==
    /\ r \in used
    /\ Begin(s, [pc |-> "join.role", user |-> u, role |-> r])
    /\ Race(r)
    /\ UNCHANGED <<Tables, ceiling>>

\* sp_CreateTenant: the owner gets the role that goes with the type of tenant.
CreateTenant(s, u, r) ==
    /\ r \in exists
    /\ Begin(s, [pc |-> "join.insert", user |-> u, role |-> r])
    /\ Race(r)
    /\ UNCHANGED <<Tables, ceiling>>

\* 'The role assigned to this invitation is no longer valid', ...
JoinRole(s) ==
    /\ At(s, "join.role")
    /\ IF call[s].role \in exists THEN Goto(s, "join.insert") ELSE Done(s)
    /\ UNCHANGED <<Tables, raced, ceiling, Counters>>

\* ... INSERT INTO user_roles.  Whoever has the role already fails to accept,
\* and gets no second row with a tenant.
JoinInsert(s) ==
    LET c == call[s]
    IN  /\ At(s, "join.insert")
        /\ holds' = holds \cup {<<c.user, c.role>>}
        /\ ceiling' = Highest({ceiling, level[c.role]})
        /\ Done(s)
        /\ UNCHANGED <<exists, used, level, Catalogue, grants, raced, Counters>>

\* removeRoleFromUser.
RemoveRole(s, u, r) ==
    /\ <<u, r>> \in holds
    /\ Begin(s, Idle)
    /\ holds' = holds \ {<<u, r>>}
    /\ UNCHANGED <<exists, used, level, Catalogue, grants, raced, ceiling>>

\* bulkRemoveRolesFromUser, ...
BulkRemove(s, u, rs) ==
    /\ rs \subseteq used /\ Cardinality(rs) > 1
    /\ BeginMany(s, [pc |-> "remove.next", user |-> u, rest |-> rs], Cardinality(rs))
    /\ UNCHANGED <<Tables, raced, ceiling>>

\* ... one DELETE per role.
RemoveNext(s) ==
    LET c == call[s]
    IN  /\ At(s, "remove.next")
        /\ \E r \in c.rest :
               /\ holds' = holds \ {<<c.user, r>>}
               /\ call' = [call EXCEPT ![s] = IF c.rest = {r} THEN Idle
                                              ELSE [c EXCEPT !.rest = @ \ {r}]]
        /\ UNCHANGED <<exists, used, level, Catalogue, grants, raced, ceiling, Counters>>

\* A statement of a bulk request fails: it goes on with the next one.
PassOver(s) ==
    LET c == call[s]
    IN  /\ faults < MaxFaults
        /\ faults' = faults + 1
        /\ \/ /\ c.pc \in Assigning /\ c.rest # {}
              /\ call' = [call EXCEPT ![s] = NextOf(c, c.rest)]
           \/ /\ At(s, "users.insert")
              /\ \E u \in c.todo : c.todo # {u} /\ call' = [call EXCEPT ![s].todo = @ \ {u}]
           \/ /\ At(s, "remove.next")
              /\ \E r \in c.rest : c.rest # {r} /\ call' = [call EXCEPT ![s].rest = @ \ {r}]
        /\ UNCHANGED <<Tables, raced, ceiling, calls>>

-----------------------------------------------------------------------------
\* cloneRole, here and in RbacEnhancedService: the source is read, ...
CloneStart(s, r) ==
    /\ r \in exists
    /\ Begin(s, [pc |-> "clone.insert", role |-> r, level |-> level[r], copy |-> None, todo |-> {}])
    /\ UNCHANGED <<Tables, raced, ceiling>>

\* ... a role with its level inserted, ...
CloneInsert(s) ==
    /\ At(s, "clone.insert")
    /\ \E r \in RoleIds \ used :
           /\ exists' = exists \cup {r} /\ used' = used \cup {r}
           /\ level' = [level EXCEPT ![r] = call[s].level]
           /\ call' = [call EXCEPT ![s].pc = "clone.read", ![s].copy = r]
    /\ UNCHANGED <<holds, Catalogue, grants, raced, ceiling, Counters>>

\* ... the permissions of the source read, ...
CloneRead(s) ==
    /\ At(s, "clone.read")
    /\ call' = [call EXCEPT ![s].pc = "clone.copy",
                            ![s].todo = {p \in Perms : <<call[s].role, p>> \in grants}]
    /\ UNCHANGED <<Tables, raced, ceiling, Counters>>

\* ... and copied one by one; an INSERT that fails is passed over.
CloneCopy(s) ==
    LET c == call[s]
    IN  /\ At(s, "clone.copy")
        /\ \/ \E p \in c.todo :
                  /\ grants' \in {grants, grants \cup {<<c.copy, p>>}}
                  /\ call' = [call EXCEPT ![s].todo = @ \ {p}]
           \/ c.todo = {} /\ Done(s) /\ UNCHANGED grants
        /\ UNCHANGED <<exists, used, level, holds, Catalogue, raced, ceiling, Counters>>

\* createPermission: its key is UNIQUE, its id is new.
CreatePermission(s, p) ==
    /\ p \notin known
    /\ Begin(s, Idle)
    /\ perms' = perms \cup {p} /\ known' = known \cup {p}
    /\ UNCHANGED <<exists, used, level, holds, grants, raced, ceiling>>

\* deletePermission: what refers to the permission stays.
DeletePermission(s, p) ==
    /\ p \in perms
    /\ Begin(s, Idle)
    /\ perms' = perms \ {p}
    /\ UNCHANGED <<exists, used, level, holds, known, grants, raced, ceiling>>

\* A statement fails or the process stops: the request ends where it is.
Abort(s) ==
    /\ call[s] # Idle
    /\ faults < MaxFaults
    /\ faults' = faults + 1
    /\ Done(s)
    /\ UNCHANGED <<Tables, raced, ceiling, calls>>

RolesStep(s) ==
    \/ DeleteGrants(s) \/ DeleteRow(s) \/ GrantOne(s)
    \/ AssignNext(s) \/ AssignTarget(s) \/ AssignRole(s) \/ AssignInsert(s)
    \/ ShareLevel(s) \/ ShareTarget(s) \/ ShareInsert(s) \/ RemoveNext(s)
    \/ JoinRole(s) \/ JoinInsert(s)
    \/ CloneInsert(s) \/ CloneRead(s) \/ CloneCopy(s)

RolesBegin(s) ==
    \/ \E r \in RoleIds :
           \/ \E l \in Levels : CreateRole(s, r, l) \/ UpdateRole(s, r, l)
           \/ DeleteCount(s, r) \/ CloneStart(s, r)
           \/ \E add, drop \in SUBSET Perms : GrantStart(s, r, add, drop)
           \/ \E by, u \in Users : AssignRoleToUser(s, by, u, r)
           \/ \E by \in Users, us \in SUBSET Users : BulkAssignUsersToRole(s, by, us, r)
           \/ \E u \in Users :
                  RemoveRole(s, u, r) \/ AcceptInvitation(s, u, r) \/ CreateTenant(s, u, r)
    \/ \E u \in Users, rs \in SUBSET RoleIds :
           BulkRemove(s, u, rs) \/ \E by \in Users : BulkAssignRolesToUser(s, by, u, rs)
    \/ \E p \in Perms : CreatePermission(s, p) \/ DeletePermission(s, p)

RolesNext == \E s \in Slots : RolesBegin(s) \/ RolesStep(s) \/ PassOver(s) \/ Abort(s)

-----------------------------------------------------------------------------
\* Nobody comes to hold a role above the highest level that was held at first,
\* given by an administrator, set by updateRole, or given with a tenant or by an
\* invitation, which compare no levels: checkRoleHierarchy keeps users from
\* lifting each other by assignments, although the levels it reads may be stale
\* when the row is inserted.
NoClimb == \A h \in holds : h[2] \in exists => level[h[2]] <= ceiling

\* A user holds only roles that exist: no row of user_roles outlives its role,
\* unless somebody was given the role while it was being deleted.
HeldRolesExist == \A h \in holds : h[2] \in exists \cup raced

\* A deleted role grants nothing (getUserPermissions does not look whether the
\* role is still there), unless somebody was changing its permissions at the
\* time.
DeletedRolesGrantNothing == \A g \in grants : g[1] \in exists \cup raced

\* Roles, holders and grants fit together.
RolesConsistent == NoClimb /\ HeldRolesExist /\ DeletedRolesGrantNothing
=============================================================================
