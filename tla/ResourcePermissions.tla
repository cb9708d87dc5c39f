------------------------- MODULE ResourcePermissions -------------------------
(***************************************************************************)
(* Who may read and who may share one resource: the resource_permissions   *)
(* rows that RbacService and PermissionsService write and check.  Whoever  *)
(* may share it may let others do so, and take any permission back, his    *)
(* granter's too; a row may end by itself, and then still keeps the        *)
(* permission from being given again.  The check is one statement and what *)
(* it allows another.  Rows for roles, and users of a tenant, are for      *)
(* sp_CheckResourcePermission to judge, which has no body for them: they   *)
(* may do nothing and are left out.  An administrator needs no row.        *)
(***************************************************************************)
EXTENDS Naturals

CONSTANTS
    Users,     \* users without a tenant who need a row
    Admins,    \* users of type owner or super_admin
    Creator,   \* created_by of the resource
    Slots,     \* requests in flight at once
    MaxCalls,  \* bound: requests that are made
    MaxFaults  \* bound: requests that break off

VARIABLES
    rows,    \* rows[u][k]: the row that gives user u permission k
    sharers, \* history: users who have been given the permission to share
    dry,     \* history: nobody could share, and only others have brought it back
    call, calls, faults

vars == <<rows, sharers, dry, call, calls, faults>>

-----------------------------------------------------------------------------
Kinds == {"read", "share"}
Roots == Admins \cup {Creator}
NoRow == [there |-> FALSE]
Row == [there : {TRUE}, by : Users \cup Admins,
        ends : BOOLEAN,  \* expires_at is not NULL
        over : BOOLEAN]  \* expires_at has passed
Idle == [pc |-> "idle"]
Request == [pc : {"grant.insert"}, by : Users \cup Admins, user : Users, kind : Kinds, ends : BOOLEAN]
           \cup [pc : {"revoke.delete"}, user : Users, kinds : SUBSET Kinds]

TypeOK ==
    /\ rows \in [Users -> [Kinds -> Row \cup {NoRow}]]
    /\ \A u \in Users, k \in Kinds : rows[u][k] # NoRow => (rows[u][k].over => rows[u][k].ends)
    /\ sharers \subseteq Users /\ dry \in BOOLEAN
    /\ call \in [Slots -> Request \cup {Idle}]
    /\ calls \in 0..MaxCalls /\ faults \in 0..MaxFaults

Init ==
    /\ rows = [u \in Users |-> [k \in Kinds |-> NoRow]]
    /\ sharers = {} /\ dry = TRUE
    /\ call = [s \in Slots |-> Idle]
    /\ calls = 0 /\ faults = 0

At(s, pc) == call[s].pc = pc
Done(s) == call' = [call EXCEPT ![s] = Idle]
Counters == <<calls, faults>>
Live(u, k) == rows[u][k] # NoRow /\ ~rows[u][k].over

\* Nobody but the roots may share, or is about to.
Dry ==
    /\ \A u \in Users \ Roots : ~Live(u, "share")
    /\ \A s \in Slots : At(s, "grant.insert") => call[s].by \in Roots
Settle(brought) == dry' = (~brought /\ (dry \/ Dry'))

-----------------------------------------------------------------------------
\* sp_CheckResourcePermission for a user without a tenant.
CheckResourcePermission(u, k) == u \in Users /\ Live(u, k)

\* checkOwnership.
Owns(u) == u = Creator

\* checkAccess; RbacService does not ask for the ownership.
CheckAccess(u, k) == u \in Admins \/ Owns(u) \/ CheckResourcePermission(u, k)

Begin(s, c) ==
    /\ call[s] = Idle /\ calls < MaxCalls
    /\ call' = [call EXCEPT ![s] = c]
    /\ calls' = calls + 1
    /\ UNCHANGED <<rows, sharers, faults>>
    /\ Settle(FALSE)

\* grantResourcePermission: whoever may share may give any permission to
\* anybody, ...
GrantStart(s, by, u, k, ends) ==
    /\ CheckAccess(by, "share")
    /\ Begin(s, [pc |-> "grant.insert", by |-> by, user |-> u, kind |-> k, ends |-> ends])

\* ... one INSERT; 'This permission already exists', even if it is over.
GrantInsert(s) ==
    LET c == call[s]
        free == rows[c.user][c.kind] = NoRow
        row == [there |-> TRUE, by |-> c.by, ends |-> c.ends, over |-> FALSE]
    IN  /\ At(s, "grant.insert")
        /\ rows' = IF free THEN [rows EXCEPT ![c.user][c.kind] = row] ELSE rows
        /\ sharers' = IF free /\ c.kind = "share" THEN sharers \cup {c.user} ELSE sharers
        /\ Done(s)
        /\ UNCHANGED Counters
        /\ Settle(free /\ c.by \in Roots /\ c.kind = "share")

\* revokeResourcePermission: of one kind, or of all of them, ...
RevokeStart(s, by, u, ks) ==
    /\ CheckAccess(by, "share")
    /\ Begin(s, [pc |-> "revoke.delete", user |-> u, kinds |-> ks])

\* ... one DELETE; what the user gave to others stays.
RevokeDelete(s) ==
    LET c == call[s]
    IN  /\ At(s, "revoke.delete")
        /\ rows' = [rows EXCEPT ![c.user] =
                        [k \in Kinds |-> IF k \in c.kinds THEN NoRow ELSE rows[c.user][k]]]
        /\ Done(s)
        /\ UNCHANGED <<sharers, Counters>>
        /\ Settle(FALSE)

\* expires_at passes.
Expire(u, k) ==
    /\ Live(u, k) /\ rows[u][k].ends
    /\ rows' = [rows EXCEPT ![u][k].over = TRUE]
    /\ UNCHANGED <<sharers, call, Counters>>
    /\ Settle(FALSE)

\* A statement fails, or the process stops.
RequestFails(s) ==
    /\ call[s] # Idle /\ faults < MaxFaults
    /\ Done(s)
    /\ faults' = faults + 1
    /\ UNCHANGED <<rows, sharers, calls>>
    /\ Settle(FALSE)

Next ==
    \/ \E s \in Slots :
           \/ \E by \in Users \cup Admins, u \in Users, k \in Kinds, ends \in BOOLEAN :
                  GrantStart(s, by, u, k, ends)
           \/ \E by \in Users \cup Admins, u \in Users, ks \in {{"read"}, {"share"}, Kinds} :
                  RevokeStart(s, by, u, ks)
           \/ GrantInsert(s) \/ RevokeDelete(s) \/ RequestFails(s)
    \/ \E u \in Users, k \in Kinds : Expire(u, k)

Spec == Init /\ [][Next]_vars

-----------------------------------------------------------------------------
\* Every permission goes back to an administrator or the creator: it was given
\* by one of them, or by a user who had been given the right to share.
PermissionsRooted ==
    \A u \in Users, k \in Kinds :
        rows[u][k] # NoRow => rows[u][k].by \in Roots \cup sharers

\* Once nobody else may share and no request to do so is under way, the users
\* cannot bring the right back among themselves, however often they revoke and
\* give what they have: not even a row that is over helps.
SharingDiesOut == dry => Dry
=============================================================================
