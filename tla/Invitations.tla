---------------------------- MODULE Invitations ----------------------------
(***************************************************************************)
(* The invitations of one tenant to one role, as InvitationService handles *)
(* them.  sendInvitation and resendInvitation check in one statement and   *)
(* write in another; acceptInvitation reads the invitation, its role, the  *)
(* user and the membership before it opens the transaction that creates    *)
(* the user, grants the role, joins the tenant and marks the invitation;   *)
(* cancelling is one conditional UPDATE.  What the checks miss is left to  *)
(* the UNIQUE constraints of users, user_roles and tenant_members.         *)
(***************************************************************************)
EXTENDS Naturals, FiniteSets

CONSTANTS
    Invitees,   \* email addresses
    Rows,       \* ids the invitations table may hand out
    Slots,      \* calls in flight at once
    MaxAborts   \* bound: calls that die between two statements

ASSUME BoundsAssumption == MaxAborts \in Nat

VARIABLES
    users,   \* addresses with a users row
    role,    \* addresses whose user holds the role
    usable,  \* is the role the invitations name there still
    joined,  \* joined[u]: tenant_members rows of u in the tenant
    inv,     \* inv[i]: the invitation with id i
    call,    \* the calls in flight
    rushed,  \* history: have two sendInvitation calls for one address overlapped
    aborts

vars == <<users, role, usable, joined, inv, call, rushed, aborts>>

-----------------------------------------------------------------------------
NoRow == [status |-> "none"]
Row == [status : {"pending", "accepted", "cancelled"}, invitee : Invitees,
        live : BOOLEAN]  \* expires_at > GETUTCDATE()

SendSteps == {"send.status", "send.insert"}
RowSteps == {"resend.update", "accept.role", "accept.user", "accept.member", "accept.commit"}
Idle == [pc |-> "idle"]
SendCall == [pc : SendSteps, invitee : Invitees]
RowCall == [pc : RowSteps, row : Rows,
            known : BOOLEAN]  \* accept: a user was found

TypeOK ==
    /\ users \subseteq Invitees
    /\ role \subseteq users
    /\ usable \in BOOLEAN
    /\ joined \in [Invitees -> Nat]
    /\ inv \in [Rows -> Row \cup {NoRow}]
    /\ call \in [Slots -> SendCall \cup RowCall \cup {Idle}]
    /\ rushed \in BOOLEAN
    /\ aborts \in 0..MaxAborts

\* Some invitees have an account already, and hold the role elsewhere.
Init ==
    /\ users \in SUBSET Invitees
    /\ role \in SUBSET users
    /\ usable = TRUE
    /\ joined = [u \in Invitees |-> 0]
    /\ inv = [i \in Rows |-> NoRow]
    /\ call = [s \in Slots |-> Idle]
    /\ rushed = FALSE
    /\ aborts = 0

At(s, pc) == call[s].pc = pc
Goto(s, pc) == call' = [call EXCEPT ![s].pc = pc]
Done(s) == call' = [call EXCEPT ![s] = Idle]
Data == <<users, role, usable, joined, inv>>

-----------------------------------------------------------------------------
\* sendInvitation: the role is there (validateRoleForInvitation), 'User already
\* exists in this tenant', ...
SendMember(s, u) ==
    /\ call[s] = Idle
    /\ usable
    /\ joined[u] = 0
    /\ call' = [call EXCEPT ![s] = [pc |-> "send.status", invitee |-> u]]
    /\ rushed' = (rushed \/ \E t \in Slots : call[t].pc \in SendSteps /\ call[t].invitee = u)
    /\ UNCHANGED <<Data, aborts>>

InvitationsOf(u) == {i \in Rows : inv[i] # NoRow /\ inv[i].invitee = u}

\* Mutant: the only earlier invitations that count are the cancelled ones.
SendStatusOfCancelled(s) ==
    LET existing == InvitationsOf(call[s].invitee)
    IN  /\ At(s, "send.status")
        /\ IF \E i \in existing : inv[i].status = "cancelled" THEN Done(s)
           ELSE Goto(s, "send.insert")
        /\ UNCHANGED <<Data, rushed, aborts>>

\* ... 'already sent' and 'was cancelled' go by existing[0], any one of the
\* invitations the address has had.
SendStatus(s) ==
    LET existing == InvitationsOf(call[s].invitee)
    IN  /\ At(s, "send.status")
        /\ \/ /\ existing = {} \/ \E i \in existing : inv[i].status = "accepted"
              /\ Goto(s, "send.insert")
           \/ /\ \E i \in existing : inv[i].status \in {"pending", "cancelled"}
              /\ Done(s)
        /\ UNCHANGED <<Data, rushed, aborts>>

\* checkRoleLimit stands in between, but the ForbiddenException its answer
\* leads to is thrown inside the try block whose catch ignores it.  The usage
\* counter and the mail, which follow, change nothing that is modelled.
SendInsert(s) ==
    /\ At(s, "send.insert")
    /\ \E i \in Rows :
           /\ inv[i] = NoRow
           /\ inv' = [inv EXCEPT ![i] = [status |-> "pending", invitee |-> call[s].invitee,
                                         live |-> TRUE]]
    /\ Done(s)
    /\ UNCHANGED <<users, role, usable, joined, rushed, aborts>>

-----------------------------------------------------------------------------
\* Mutant: UPDATE invitations without the status condition.
CancelAny(i) ==
    /\ inv[i] # NoRow
    /\ inv' = [inv EXCEPT ![i].status = "cancelled"]
    /\ UNCHANGED <<users, role, usable, joined, call, rushed, aborts>>

\* cancelInvitation.
Cancel(i) ==
    /\ inv[i].status = "pending"
    /\ inv' = [inv EXCEPT ![i].status = "cancelled"]
    /\ UNCHANGED <<users, role, usable, joined, call, rushed, aborts>>

\* resendInvitation: the UPDATE names the id alone.
ResendRead(s, i) ==
    /\ call[s] = Idle
    /\ inv[i].status = "pending"
    /\ call' = [call EXCEPT ![s] = [pc |-> "resend.update", row |-> i, known |-> FALSE]]
    /\ UNCHANGED <<Data, rushed, aborts>>

ResendUpdate(s) ==
    /\ At(s, "resend.update")
    /\ inv' = [inv EXCEPT ![call[s].row].live = TRUE]
    /\ Done(s)
    /\ UNCHANGED <<users, role, usable, joined, rushed, aborts>>

Expire(i) ==
    /\ inv[i] # NoRow
    /\ inv[i].live
    /\ inv' = [inv EXCEPT ![i].live = FALSE]
    /\ UNCHANGED <<users, role, usable, joined, call, rushed, aborts>>

-----------------------------------------------------------------------------
\* acceptInvitation, with the token the invitation has now: another finds
\* nothing.
AcceptRead(s, i) ==
    /\ call[s] = Idle
    /\ inv[i].status = "pending"
    /\ inv[i].live
    /\ call' = [call EXCEPT ![s] = [pc |-> "accept.role", row |-> i, known |-> FALSE]]
    /\ UNCHANGED <<Data, rushed, aborts>>

\* Mutant: an acceptance goes on whether the role is found or not.
AcceptRoleAnyway(s) ==
    /\ At(s, "accept.role")
    /\ Goto(s, "accept.user")
    /\ UNCHANGED <<Data, rushed, aborts>>

\* 'The role assigned to this invitation is no longer valid'.
AcceptRole(s) ==
    /\ At(s, "accept.role")
    /\ IF usable THEN Goto(s, "accept.user") ELSE Done(s)
    /\ UNCHANGED <<Data, rushed, aborts>>

Invitee(s) == inv[call[s].row].invitee

AcceptUser(s) ==
    /\ At(s, "accept.user")
    /\ call' = [call EXCEPT ![s] = [pc |-> "accept.member", row |-> call[s].row,
                                    known |-> Invitee(s) \in users]]
    /\ UNCHANGED <<Data, rushed, aborts>>

\* Mutant: the caller is to log in when an account turned up.
AcceptMemberUnknown(s) ==
    /\ At(s, "accept.member")
    /\ IF joined[Invitee(s)] > 0 \/ call[s].known THEN Done(s) ELSE Goto(s, "accept.commit")
    /\ UNCHANGED <<Data, rushed, aborts>>

AcceptMember(s) ==
    /\ At(s, "accept.member")
    /\ IF joined[Invitee(s)] > 0 THEN Done(s) ELSE Goto(s, "accept.commit")
    /\ UNCHANGED <<Data, rushed, aborts>>

\* UNIQUE(email), UNIQUE(user_id, role_id) and UNIQUE(tenant_id, user_id): any
\* of the three INSERTs may be refused, and rolls back the others.
EmailFree(s) == call[s].known \/ Invitee(s) \notin users
RoleFree(s) == Invitee(s) \notin role
MembershipFree(s) == joined[Invitee(s)] = 0

\* Mutant: the tables lack the constraints.
NothingRefused(s) == TRUE

Insertable(s) == EmailFree(s) /\ RoleFree(s) /\ MembershipFree(s)

AcceptCommit(s) ==
    LET u == Invitee(s)
    IN  /\ At(s, "accept.commit")
        /\ \/ /\ Insertable(s)
              /\ users' = users \cup {u}
              /\ role' = role \cup {u}
              /\ joined' = [joined EXCEPT ![u] = @ + 1]
              /\ inv' = [inv EXCEPT ![call[s].row].status = "accepted"]
           \/ /\ ~Insertable(s)
              /\ UNCHANGED <<users, role, usable, joined, inv>>
        /\ Done(s)
        /\ UNCHANGED <<usable, rushed, aborts>>

-----------------------------------------------------------------------------
\* The address registers by itself meanwhile.
Register(u) ==
    /\ u \notin users
    /\ users' = users \cup {u}
    /\ UNCHANGED <<role, usable, joined, inv, call, rushed, aborts>>

\* deleteRole, whose count of the role's holders may be out of date by now; no id
\* of roles is handed out twice.
DeleteRole ==
    /\ usable
    /\ usable' = FALSE
    /\ UNCHANGED <<users, role, joined, inv, call, rushed, aborts>>

\* A statement fails or the process dies; an open transaction is rolled back.
Abort(s) ==
    /\ call[s] # Idle
    /\ aborts < MaxAborts
    /\ aborts' = aborts + 1
    /\ Done(s)
    /\ UNCHANGED <<Data, rushed>>

Step(s) ==
    \/ SendStatus(s) \/ SendInsert(s)
    \/ ResendUpdate(s)
    \/ AcceptRole(s) \/ AcceptUser(s) \/ AcceptMember(s) \/ AcceptCommit(s)

Next ==
    \/ \E s \in Slots, u \in Invitees : SendMember(s, u)
    \/ \E s \in Slots, i \in Rows : ResendRead(s, i) \/ AcceptRead(s, i)
    \/ \E i \in Rows : Cancel(i) \/ Expire(i)
    \/ \E u \in Invitees : Register(u)
    \/ DeleteRole
    \/ \E s \in Slots : Step(s) \/ Abort(s)

Spec == Init /\ [][Next]_vars

\* Calls come to an end, and the invitee with an invitation tries again and
\* again.
Fairness ==
    /\ \A s \in Slots : WF_vars(Step(s))
    /\ \A i \in Rows : SF_vars(\E s \in Slots : AcceptRead(s, i))

FairSpec == Spec /\ Fairness

-----------------------------------------------------------------------------
Pending(i) == inv[i].status = "pending"
Accepted(i) == inv[i].status = "accepted"

\* However calls interleave and fail, a user has one tenant_members row if one
\* of the invitations was accepted, none if none was, and no second invitation
\* is ever accepted: two clicks on one link, or on the links of two duplicate
\* invitations, admit once.
OneAdmission ==
    /\ \A u \in Invitees :
           joined[u] = IF \E i \in InvitationsOf(u) : Accepted(i) THEN 1 ELSE 0
    /\ \A i, j \in Rows :
           Accepted(i) /\ Accepted(j) /\ inv[i].invitee = inv[j].invitee => i = j

\* An accepted invitation stays accepted: neither a cancellation nor a resend
\* that began before the acceptance takes it back.
AcceptedIsFinal == [][\A i \in Rows : Accepted(i) => Accepted(i)']_vars

\* 'Invitation already sent to this email': an address has one pending
\* invitation at a time, although existing[0] may be any earlier one, unless
\* two calls for it ran between each other's statements.
OnePending ==
    ~rushed => \A i, j \in Rows :
                   Pending(i) /\ Pending(j) /\ inv[i].invitee = inv[j].invitee => i = j

Cancelled(i) == inv[i].status = "cancelled"
Accepting(i) ==
    \E s \in Slots : /\ call[s].pc \in {"accept.role", "accept.user", "accept.member", "accept.commit"}
                     /\ call[s].row = i

\* Acceptances that have found the role.
Checked == {"accept.user", "accept.member", "accept.commit"}
RoleGone == ~usable /\ \A s \in Slots : call[s].pc \notin Checked

\* A cancelled invitation lets nobody in any more, once the acceptances that
\* found it pending have ended: no resend revives it, no new call picks it up.
\* Nor does any, once those have ended that found the role before it was deleted.
CancelledHolds ==
    [][/\ \A i \in Rows : Cancelled(i) /\ ~Accepting(i) => (Cancelled(i) /\ ~Accepting(i))'
       /\ RoleGone => RoleGone' /\ joined' = joined]_vars

\* An invitee who keeps trying is admitted, unless the invitation is cancelled
\* or expires, or the role it names is deleted or already held.
PersistentInviteeJoins ==
    \A i \in Rows : Pending(i) ~>
        \/ ~Pending(i) \/ ~inv[i].live \/ ~usable
        \/ joined[inv[i].invitee] > 0 \/ inv[i].invitee \in role

=============================================================================
