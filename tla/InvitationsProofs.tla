-------------------------- MODULE InvitationsProofs --------------------------
(***************************************************************************)
(* Theorems about Invitations for every set of addresses, of ids and of    *)
(* calls in flight.  OneAdmission is made inductive by Resolved: a call    *)
(* that works on an invitation works on one that exists.                   *)
(***************************************************************************)
EXTENDS Invitations, TLAPS

LEMMA CallKinds ==
    ASSUME NEW c \in SendCall \cup RowCall \cup {Idle}
    PROVE  /\ c.pc \in RowSteps => c \in RowCall
           /\ c.pc \in SendSteps => c \in SendCall
    <1>1. Idle.pc = "idle"
        BY DEF Idle
    <1> QED
        BY <1>1 DEF SendCall, RowCall, SendSteps, RowSteps

LEMMA CallShape ==
    ASSUME TypeOK, NEW s \in Slots
    PROVE  /\ call[s].pc \in RowSteps => call[s] \in RowCall
           /\ call[s].pc \in SendSteps => call[s] \in SendCall
    BY CallKinds DEF TypeOK

LEMMA RowShape ==
    ASSUME TypeOK, NEW i \in Rows
    PROVE  /\ inv[i] # NoRow => inv[i] \in Row
           /\ inv[i] = NoRow => inv[i].status = "none"
    BY DEF TypeOK, NoRow

Resolved == \A s \in Slots : call[s].pc \in RowSteps => inv[call[s].row] # NoRow

LEMMA Base == Init => TypeOK /\ Resolved /\ OneAdmission
    <1> SUFFICES ASSUME Init PROVE TypeOK /\ Resolved /\ OneAdmission
        OBVIOUS
    <1>1. TypeOK
        <2>1. inv \in [Rows -> Row \cup {NoRow}] /\ joined \in [Invitees -> Nat]
            BY DEF Init
        <2>2. call \in [Slots -> SendCall \cup RowCall \cup {Idle}]
            BY DEF Init
        <2>3. users \subseteq Invitees /\ role \subseteq users
            BY DEF Init
        <2>4. aborts \in 0..MaxAborts
            BY BoundsAssumption DEF Init
        <2>5. rushed \in BOOLEAN /\ usable \in BOOLEAN
            BY DEF Init
        <2> QED
            BY <2>1, <2>2, <2>3, <2>4, <2>5 DEF TypeOK
    <1>2. Resolved
        BY DEF Init, Resolved, Idle, RowSteps
    <1>3. \A i \in Rows : inv[i].status # "accepted"
        BY DEF Init, NoRow
    <1> QED
        BY <1>1, <1>2, <1>3 DEF OneAdmission, Accepted, InvitationsOf, Init

\* What a step does to the calls: slot s gets a call of the right type, and one
\* that works on an invitation works on one that exists.
Takes(s, c) ==
    /\ call' = [call EXCEPT ![s] = c]
    /\ c \in SendCall \cup RowCall \cup {Idle}
    /\ c.pc \in RowSteps => inv[c.row] # NoRow

LEMMA Going ==
    ASSUME TypeOK, Resolved, NEW s \in Slots,
           NEW pc, \/ pc \in RowSteps /\ call[s].pc \in RowSteps
                   \/ pc \in SendSteps /\ call[s].pc \in SendSteps,
           Goto(s, pc)
    PROVE  Takes(s, [call[s] EXCEPT !.pc = pc])
    <1>1. CASE pc \in RowSteps /\ call[s].pc \in RowSteps
        BY <1>1, CallShape DEF Goto, Takes, RowCall, Resolved
    <1>2. CASE pc \in SendSteps /\ call[s].pc \in SendSteps
        BY <1>2, CallShape DEF Goto, Takes, SendCall, SendSteps, RowSteps
    <1> QED
        BY <1>1, <1>2

LEMMA Ending ==
    ASSUME NEW s \in Slots, Done(s)
    PROVE  Takes(s, Idle)
    BY DEF Done, Takes, Idle, RowSteps

LEMMA Calling ==
    ASSUME TypeOK, Resolved, Next
    PROVE  \/ UNCHANGED call
           \/ \E s \in Slots : \E c \in SendCall \cup RowCall \cup {Idle} : Takes(s, c)
    <1> DEFINE Goal == \E s \in Slots : \E c \in SendCall \cup RowCall \cup {Idle} : Takes(s, c)
    <1>0. ASSUME NEW s \in Slots, NEW c, Takes(s, c) PROVE Goal
        BY <1>0 DEF Takes
    <1>1. ASSUME NEW s \in Slots, NEW u \in Invitees, SendMember(s, u) PROVE Goal
        <2>1. Takes(s, [pc |-> "send.status", invitee |-> u])
            BY <1>1 DEF SendMember, Takes, SendCall, SendSteps, RowSteps
        <2> QED
            BY <2>1, <1>0
    <1>2. ASSUME NEW s \in Slots, NEW i \in Rows, ResendRead(s, i) PROVE Goal
        <2>1. Takes(s, [pc |-> "resend.update", row |-> i, known |-> FALSE])
            BY <1>2, RowShape DEF ResendRead, Takes, RowCall, RowSteps
        <2> QED
            BY <2>1, <1>0
    <1>3. ASSUME NEW s \in Slots, NEW i \in Rows, AcceptRead(s, i) PROVE Goal
        <2>1. Takes(s, [pc |-> "accept.role", row |-> i, known |-> FALSE])
            BY <1>3, RowShape DEF AcceptRead, Takes, RowCall, RowSteps
        <2> QED
            BY <2>1, <1>0
    <1>4. ASSUME NEW s \in Slots,
                 SendInsert(s) \/ ResendUpdate(s) \/ AcceptCommit(s) \/ Abort(s)
          PROVE  Goal
        <2>1. Done(s)
            BY <1>4 DEF SendInsert, ResendUpdate, AcceptCommit, Abort
        <2> QED
            BY <2>1, <1>0, Ending
    <1>5. ASSUME NEW s \in Slots, SendStatus(s) PROVE Goal
        <2>1. Done(s) \/ (Goto(s, "send.insert") /\ call[s].pc \in SendSteps)
            BY <1>5 DEF SendStatus, At, SendSteps
        <2>2. "send.insert" \in SendSteps
            BY DEF SendSteps
        <2> QED
            BY <2>1, <2>2, <1>0, Ending, Going
    <1>6. ASSUME NEW s \in Slots, AcceptUser(s) PROVE Goal
        <2>1. call[s] \in RowCall /\ call[s].pc \in RowSteps
            BY <1>6, CallShape DEF AcceptUser, At, RowSteps
        <2>2. Takes(s, [pc |-> "accept.member", row |-> call[s].row,
                        known |-> Invitee(s) \in users])
            BY <1>6, <2>1 DEF AcceptUser, Takes, RowCall, RowSteps, Resolved
        <2> QED
            BY <2>2, <1>0
    <1>7. ASSUME NEW s \in Slots, AcceptMember(s) PROVE Goal
        <2>1. Done(s) \/ (Goto(s, "accept.commit") /\ call[s].pc \in RowSteps)
            BY <1>7 DEF AcceptMember, At, RowSteps
        <2>2. "accept.commit" \in RowSteps
            BY DEF RowSteps
        <2> QED
            BY <2>1, <2>2, <1>0, Ending, Going
    <1>8. ASSUME \/ \E i \in Rows : Cancel(i) \/ Expire(i)
                 \/ \E u \in Invitees : Register(u)
                 \/ DeleteRole
          PROVE  UNCHANGED call
        BY <1>8 DEF Cancel, Expire, Register, DeleteRole
    <1>9. ASSUME NEW s \in Slots, AcceptRole(s) PROVE Goal
        <2>1. Done(s) \/ (Goto(s, "accept.user") /\ call[s].pc \in RowSteps)
            BY <1>9 DEF AcceptRole, At, RowSteps
        <2>2. "accept.user" \in RowSteps
            BY DEF RowSteps
        <2> QED
            BY <2>1, <2>2, <1>0, Ending, Going
    <1> QED
        BY <1>1, <1>2, <1>3, <1>4, <1>5, <1>6, <1>7, <1>8, <1>9 DEF Next, Step

-----------------------------------------------------------------------------
\* What a step does to the invitations: nothing, or it writes one of them.
Writes(i, r) ==
    /\ inv' = [inv EXCEPT ![i] = r]
    /\ inv[i] # NoRow => r.invitee = inv[i].invitee
    /\ \/ /\ inv[i] = NoRow /\ r.status = "pending"
          /\ \E s \in Slots : SendInsert(s) /\ r.invitee = call[s].invitee
       \/ inv[i] # NoRow /\ r.status = inv[i].status
       \/ inv[i].status = "pending" /\ r.status = "cancelled"
       \/ r.status = "accepted" /\ \E s \in Slots : AcceptCommit(s) /\ Insertable(s)

LEMMA Inviting ==
    ASSUME TypeOK, Resolved, Next
    PROVE  UNCHANGED inv \/ \E i \in Rows : \E r \in Row : Writes(i, r)
    <1> DEFINE Goal == \E i \in Rows : \E r \in Row : Writes(i, r)
    <1>1. ASSUME NEW s \in Slots, SendInsert(s) PROVE Goal
        <2>1. call[s].invitee \in Invitees
            BY <1>1, CallShape DEF SendInsert, At, SendCall, SendSteps
        <2>2. PICK i \in Rows :
                  /\ inv[i] = NoRow
                  /\ inv' = [inv EXCEPT ![i] = [status |-> "pending", invitee |-> call[s].invitee,
                                                live |-> TRUE]]
            BY <1>1 DEF SendInsert
        <2>3. [status |-> "pending", invitee |-> call[s].invitee, live |-> TRUE] \in Row
            BY <2>1 DEF Row
        <2>4. Writes(i, [status |-> "pending", invitee |-> call[s].invitee, live |-> TRUE])
            BY <1>1, <2>2 DEF Writes
        <2> QED
            BY <2>3, <2>4
    <1>2. ASSUME NEW i \in Rows, Cancel(i) PROVE Goal
        <2>1. inv[i] \in Row
            BY <1>2, RowShape DEF Cancel
        <2>2. [inv[i] EXCEPT !.status = "cancelled"] \in Row
            BY <2>1 DEF Row
        <2>3. Writes(i, [inv[i] EXCEPT !.status = "cancelled"])
            BY <1>2, <2>1 DEF Cancel, Writes, Row
        <2> QED
            BY <2>2, <2>3
    <1>3. ASSUME NEW i \in Rows, Expire(i) PROVE Goal
        <2>1. inv[i] \in Row
            BY <1>3, RowShape DEF Expire
        <2>2. [inv[i] EXCEPT !.live = FALSE] \in Row
            BY <2>1 DEF Row
        <2>3. Writes(i, [inv[i] EXCEPT !.live = FALSE])
            BY <1>3, <2>1 DEF Expire, Writes, Row
        <2> QED
            BY <2>2, <2>3
    <1>4. ASSUME NEW s \in Slots, ResendUpdate(s) PROVE Goal
        <2> DEFINE i == call[s].row
        <2>1. i \in Rows /\ inv[i] # NoRow
            BY <1>4, CallShape DEF ResendUpdate, At, RowCall, RowSteps, Resolved
        <2>2. inv[i] \in Row
            BY <2>1, RowShape
        <2>3. [inv[i] EXCEPT !.live = TRUE] \in Row
            BY <2>2 DEF Row
        <2>4. Writes(i, [inv[i] EXCEPT !.live = TRUE])
            BY <1>4, <2>1, <2>2 DEF ResendUpdate, Writes, Row
        <2> QED
            BY <2>1, <2>3, <2>4
    <1>5. ASSUME NEW s \in Slots, AcceptCommit(s), inv' # inv PROVE Goal
        <2> DEFINE i == call[s].row
        <2>1. i \in Rows /\ inv[i] # NoRow
            BY <1>5, CallShape DEF AcceptCommit, At, RowCall, RowSteps, Resolved
        <2>2. inv[i] \in Row
            BY <2>1, RowShape
        <2>3. [inv[i] EXCEPT !.status = "accepted"] \in Row
            BY <2>2 DEF Row
        <2>4. Insertable(s) /\ inv' = [inv EXCEPT ![i].status = "accepted"]
            BY <1>5 DEF AcceptCommit
        <2>5. Writes(i, [inv[i] EXCEPT !.status = "accepted"])
            BY <1>5, <2>2, <2>4 DEF Writes, Row
        <2> QED
            BY <2>1, <2>3, <2>5
    <1>6. ASSUME NEW s \in Slots,
                 \/ SendStatus(s) \/ AcceptRole(s) \/ AcceptUser(s) \/ AcceptMember(s) \/ Abort(s)
                 \/ \E u \in Invitees : SendMember(s, u)
                 \/ \E i \in Rows : ResendRead(s, i) \/ AcceptRead(s, i)
          PROVE  UNCHANGED inv
        BY <1>6 DEF SendStatus, AcceptRole, AcceptUser, AcceptMember, Abort, SendMember, ResendRead,
                    AcceptRead, Data
    <1>7. ASSUME DeleteRole \/ \E u \in Invitees : Register(u) PROVE UNCHANGED inv
        BY <1>7 DEF Register, DeleteRole
    <1> QED
        BY <1>1, <1>2, <1>3, <1>4, <1>5, <1>6, <1>7 DEF Next, Step

LEMMA TypeStep == TypeOK /\ Resolved /\ [Next]_vars => TypeOK'
    <1> SUFFICES ASSUME TypeOK, Resolved, Next PROVE TypeOK'
        BY DEF vars, TypeOK
    <1>1. call' \in [Slots -> SendCall \cup RowCall \cup {Idle}]
        BY Calling DEF TypeOK, Takes
    <1>2. inv' \in [Rows -> Row \cup {NoRow}]
        BY Inviting DEF TypeOK, Writes
    <1>3. /\ users' \subseteq Invitees /\ role' \subseteq users'
          /\ joined' \in [Invitees -> Nat]
        <2>1. ASSUME NEW s \in Slots, AcceptCommit(s) PROVE <1>3!1 /\ <1>3!2
            <3>1. call[s].row \in Rows /\ inv[call[s].row] # NoRow
                BY <2>1, CallShape DEF AcceptCommit, At, RowCall, RowSteps, Resolved
            <3>2. Invitee(s) \in Invitees
                BY <3>1, RowShape DEF Row, Invitee
            <3> QED
                BY <2>1, <3>2 DEF AcceptCommit, TypeOK
        <2>2. ASSUME NEW u \in Invitees, Register(u) PROVE <1>3!1 /\ <1>3!2
            BY <2>2 DEF Register, TypeOK
        <2>3. UNCHANGED <<users, role, joined>> \/ (\E s \in Slots : AcceptCommit(s))
                  \/ (\E u \in Invitees : Register(u))
            BY DEF Next, Step, DeleteRole, SendMember, ResendRead, AcceptRead, Cancel, Expire, SendStatus,
                   SendInsert, ResendUpdate, AcceptRole, AcceptUser, AcceptMember, Abort, Data
        <2> QED
            BY <2>1, <2>2, <2>3 DEF TypeOK
    <1>6. usable' \in BOOLEAN
        <2>1. UNCHANGED usable \/ DeleteRole
            BY DEF Next, Step, SendMember, ResendRead, AcceptRead, Cancel, Expire, Register, SendStatus,
                   SendInsert, ResendUpdate, AcceptRole, AcceptUser, AcceptMember, AcceptCommit, Abort, Data
        <2> QED
            BY <2>1 DEF DeleteRole, TypeOK
    <1>4. rushed' \in BOOLEAN
        <2>1. ASSUME NEW s \in Slots, NEW u \in Invitees, SendMember(s, u)
              PROVE  rushed' \in BOOLEAN
            <3>1. rushed' = (rushed \/ \E t \in Slots : /\ call[t].pc \in SendSteps
                                                      /\ call[t].invitee = u)
                BY <2>1 DEF SendMember
            <3> QED
                BY <3>1
        <2>2. UNCHANGED rushed \/ \E s \in Slots, u \in Invitees : SendMember(s, u)
            BY DEF Next, Step, DeleteRole, ResendRead, AcceptRead, Cancel, Expire, Register, SendStatus,
                   SendInsert, ResendUpdate, AcceptRole, AcceptUser, AcceptMember, AcceptCommit, Abort
        <2> QED
            BY <2>1, <2>2 DEF TypeOK
    <1>5. aborts' \in 0..MaxAborts
        <2>1. ASSUME NEW s \in Slots, Abort(s) PROVE aborts' \in 0..MaxAborts
            <3>1. aborts \in 0..MaxAborts /\ aborts < MaxAborts /\ aborts' = aborts + 1
                BY <2>1 DEF Abort, TypeOK
            <3> QED
                BY <3>1, BoundsAssumption
        <2>2. UNCHANGED aborts \/ \E s \in Slots : Abort(s)
            BY DEF Next, Step, DeleteRole, SendMember, ResendRead, AcceptRead, Cancel, Expire, Register,
                   SendStatus, SendInsert, ResendUpdate, AcceptRole, AcceptUser, AcceptMember, AcceptCommit
        <2> QED
            BY <2>1, <2>2 DEF TypeOK
    <1> QED
        BY <1>1, <1>2, <1>3, <1>4, <1>5, <1>6 DEF TypeOK

LEMMA ResolvedStep == TypeOK /\ Resolved /\ [Next]_vars => Resolved'
    <1> SUFFICES ASSUME TypeOK, Resolved, Next PROVE Resolved'
        BY DEF vars, Resolved
    <1>1. \A i \in Rows : inv[i] # NoRow => inv'[i] # NoRow
        <2>1. \A r \in Row : r # NoRow
            BY DEF Row, NoRow
        <2> QED
            BY <2>1, Inviting DEF Writes, TypeOK
    <1>2. \A s \in Slots : call'[s].pc \in RowSteps => inv[call'[s].row] # NoRow
        BY Calling DEF Takes, TypeOK, Resolved
    <1>3. \A s \in Slots : call'[s].pc \in RowSteps => call'[s].row \in Rows
        BY TypeStep, CallKinds DEF RowCall, TypeOK
    <1> QED
        BY <1>1, <1>2, <1>3 DEF Resolved

-----------------------------------------------------------------------------
\* An acceptance commits only when its invitee has joined by no other.
LEMMA Admission ==
    ASSUME TypeOK, Resolved, OneAdmission, NEW s \in Slots, AcceptCommit(s), Insertable(s)
    PROVE  OneAdmission'
    <1> DEFINE i == call[s].row
               w == Invitee(s)
    <1>1. i \in Rows /\ inv[i] # NoRow
        BY CallShape DEF AcceptCommit, At, RowCall, RowSteps, Resolved
    <1>2. inv[i] \in Row /\ w = inv[i].invitee /\ w \in Invitees
        BY <1>1, RowShape DEF Row, Invitee
    <1>3. joined[w] = 0
        BY DEF Insertable, MembershipFree
    <1>4. \A j \in Rows : Accepted(j) => inv[j].invitee # w
        <2> SUFFICES ASSUME NEW j \in Rows, Accepted(j), inv[j].invitee = w PROVE FALSE
            OBVIOUS
        <2>1. inv[j] # NoRow
            BY RowShape DEF Accepted
        <2>2. joined[w] = 1
            BY <1>2, <2>1 DEF OneAdmission, InvitationsOf
        <2> QED
            BY <1>3, <2>2
    <1>5. inv' = [inv EXCEPT ![i].status = "accepted"] /\ joined' = [joined EXCEPT ![w] = @ + 1]
        BY DEF AcceptCommit
    <1>6. /\ inv'[i].status = "accepted" /\ inv'[i].invitee = w /\ inv'[i] # NoRow
          /\ \A j \in Rows : j # i => inv'[j] = inv[j]
        BY <1>1, <1>2, <1>5 DEF TypeOK, Row, NoRow
    <1>7. joined'[w] = 1 /\ \A u \in Invitees : u # w => joined'[u] = joined[u]
        BY <1>2, <1>3, <1>5 DEF TypeOK
    <1>8. \A j \in Rows : j # i => (Accepted(j)' <=> Accepted(j))
        BY <1>6 DEF Accepted
    <1>9. ASSUME NEW u \in Invitees
          PROVE  joined'[u] = IF \E j \in InvitationsOf(u)' : Accepted(j)' THEN 1 ELSE 0
        <2>1. CASE u = w
            BY <1>1, <1>6, <1>7, <2>1 DEF InvitationsOf, Accepted
        <2>2. CASE u # w
            <3>1. \A j \in Rows : (j \in InvitationsOf(u)' /\ Accepted(j)')
                                  <=> (j \in InvitationsOf(u) /\ Accepted(j))
                BY <1>2, <1>6, <1>8, <2>2 DEF InvitationsOf
            <3>2. (\E j \in InvitationsOf(u)' : Accepted(j)')
                      <=> (\E j \in InvitationsOf(u) : Accepted(j))
                BY <3>1 DEF InvitationsOf
            <3> QED
                BY <1>7, <2>2, <3>2 DEF OneAdmission
        <2> QED
            BY <2>1, <2>2
    <1>10. ASSUME NEW j \in Rows, NEW k \in Rows, Accepted(j)', Accepted(k)',
                  inv'[j].invitee = inv'[k].invitee
           PROVE  j = k
        BY <1>4, <1>6, <1>8, <1>10 DEF OneAdmission
    <1> QED
        BY <1>9, <1>10 DEF OneAdmission

\* Every other step leaves memberships and acceptances alone.
LEMMA NoAdmission ==
    ASSUME TypeOK, Resolved, Next, ~\E s \in Slots : AcceptCommit(s) /\ Insertable(s)
    PROVE  /\ UNCHANGED joined
           /\ \A i \in Rows : Accepted(i)' <=> Accepted(i)
           /\ \A i \in Rows : inv[i] # NoRow => inv'[i].invitee = inv[i].invitee
    <1>1. UNCHANGED joined
        BY DEF Next, Step, DeleteRole, SendMember, ResendRead, AcceptRead, Cancel, Expire, Register, SendStatus,
               SendInsert, ResendUpdate, AcceptRole, AcceptUser, AcceptMember, AcceptCommit, Abort, Data
    <1>2. CASE UNCHANGED inv
        BY <1>1, <1>2 DEF Accepted
    <1>3. ASSUME NEW i \in Rows, NEW r \in Row, Writes(i, r)
          PROVE  /\ \A j \in Rows : Accepted(j)' <=> Accepted(j)
                 /\ \A j \in Rows : inv[j] # NoRow => inv'[j].invitee = inv[j].invitee
        <2>1. inv'[i] = r /\ \A j \in Rows : j # i => inv'[j] = inv[j]
            BY <1>3 DEF Writes, TypeOK
        <2>2. r.status = "accepted" <=> inv[i].status = "accepted"
            BY <1>3, RowShape DEF Writes
        <2> QED
            BY <1>3, <2>1, <2>2 DEF Writes, Accepted
    <1> QED
        BY <1>1, <1>2, <1>3, Inviting

LEMMA AdmissionStep == TypeOK /\ Resolved /\ OneAdmission /\ [Next]_vars => OneAdmission'
    <1>1. ASSUME OneAdmission, UNCHANGED vars PROVE OneAdmission'
        BY <1>1 DEF vars, OneAdmission, Accepted, InvitationsOf
    <1>2. ASSUME TypeOK, Resolved, OneAdmission, Next,
                 ~\E s \in Slots : AcceptCommit(s) /\ Insertable(s)
          PROVE  OneAdmission'
        <2>1. \A i \in Rows : Accepted(i) => inv[i] # NoRow /\ inv'[i] # NoRow
            BY <1>2, NoAdmission DEF Accepted, NoRow
        <2>2. \A u \in Invitees : (\E i \in InvitationsOf(u)' : Accepted(i)')
                                     <=> (\E i \in InvitationsOf(u) : Accepted(i))
            BY <1>2, <2>1, NoAdmission DEF InvitationsOf
        <2>3. \A i, j \in Rows :
                  Accepted(i)' /\ Accepted(j)' /\ inv'[i].invitee = inv'[j].invitee => i = j
            BY <1>2, <2>1, NoAdmission DEF OneAdmission
        <2> QED
            BY <1>2, <2>2, <2>3, NoAdmission DEF OneAdmission
    <1> QED
        BY <1>1, <1>2, Admission

\* Type correctness: Spec => []TypeOK.
THEOREM TypeCorrect == Spec => []TypeOK
    <1>1. TypeOK /\ Resolved /\ [Next]_vars => (TypeOK /\ Resolved)'
        BY TypeStep, ResolvedStep
    <1> QED
        BY <1>1, Base, PTL DEF Spec

\* OneAdmission: one membership row for one accepted invitation, whatever calls
\* overlap, collide or die.
THEOREM AdmitsOnce == Spec => []OneAdmission
    <1>1. TypeOK /\ Resolved /\ OneAdmission /\ [Next]_vars
              => (TypeOK /\ Resolved /\ OneAdmission)'
        BY TypeStep, ResolvedStep, AdmissionStep
    <1> QED
        BY <1>1, Base, PTL DEF Spec

-----------------------------------------------------------------------------
\* AcceptedIsFinal: no step, not even a cancellation or a resend that read the
\* invitation before it was accepted, takes an acceptance back.
LEMMA FinalStep ==
    ASSUME TypeOK, Resolved, Next, NEW i \in Rows, Accepted(i)
    PROVE  Accepted(i)'
    <1>1. CASE UNCHANGED inv
        BY <1>1 DEF Accepted
    <1>2. ASSUME NEW j \in Rows, NEW r \in Row, Writes(j, r) PROVE Accepted(i)'
        <2>1. inv'[j] = r /\ \A k \in Rows : k # j => inv'[k] = inv[k]
            BY <1>2 DEF Writes, TypeOK
        <2>2. inv[j].status = "accepted" => r.status = "accepted"
            BY <1>2, RowShape DEF Writes
        <2> QED
            BY <2>1, <2>2 DEF Accepted
    <1> QED
        BY <1>1, <1>2, Inviting

THEOREM AcceptanceStays == Spec => AcceptedIsFinal
    <1>1. TypeOK /\ Resolved /\ [Next]_vars => (TypeOK /\ Resolved)'
        BY TypeStep, ResolvedStep
    <1>2. TypeOK /\ Resolved /\ [Next]_vars => [\A i \in Rows : Accepted(i) => Accepted(i)']_vars
        BY FinalStep
    <1> QED
        BY <1>1, <1>2, Base, PTL DEF Spec, AcceptedIsFinal

\* An acceptance that finds the invitation cancelled never starts, and nothing
\* but an acceptance writes a cancelled invitation.
LEMMA CancelledStep ==
    ASSUME TypeOK, Resolved, Next, NEW i \in Rows, Cancelled(i), ~Accepting(i)
    PROVE  (Cancelled(i) /\ ~Accepting(i))'
    <1>1. Cancelled(i)'
        <2>1. CASE UNCHANGED inv
            BY <2>1 DEF Cancelled
        <2>2. ASSUME NEW j \in Rows, NEW r \in Row, Writes(j, r),
                     \A s \in Slots : AcceptCommit(s) => call[s].row # i
              PROVE  Cancelled(i)'
            <3>1. inv'[j] = r /\ \A k \in Rows : k # j => inv'[k] = inv[k]
                BY <2>2 DEF Writes, TypeOK
            <3>2. ASSUME NEW s \in Slots, AcceptCommit(s), Insertable(s) PROVE inv'[i] = inv[i]
                <4>1. inv' = [inv EXCEPT ![call[s].row].status = "accepted"]
                    BY <3>2 DEF AcceptCommit
                <4> QED
                    BY <2>2, <3>2, <4>1 DEF TypeOK
            <3>3. (\A s \in Slots : ~(AcceptCommit(s) /\ Insertable(s)))
                      => (inv[j].status = "cancelled" => r.status = "cancelled")
                BY <2>2, RowShape DEF Writes
            <3> QED
                BY <3>1, <3>2, <3>3 DEF Cancelled
        <2>3. \A s \in Slots : AcceptCommit(s) => call[s].row # i
            BY DEF AcceptCommit, At, Accepting
        <2> QED
            BY <2>1, <2>2, <2>3, Inviting
    <1>2. ~Accepting(i)'
        <2> SUFFICES ASSUME NEW s \in Slots,
                            call'[s].pc \in {"accept.role", "accept.user", "accept.member", "accept.commit"},
                            call'[s].row = i
                     PROVE  FALSE
            BY DEF Accepting
        <2>1. call'[s] # call[s]
            BY DEF Accepting
        <2>2. call \in [Slots -> SendCall \cup RowCall \cup {Idle}]
            BY DEF TypeOK
        <2>3. ASSUME NEW t \in Slots, NEW j \in Rows, AcceptRead(t, j) PROVE FALSE
            <3>1. call' = [call EXCEPT ![t] = [pc |-> "accept.role", row |-> j, known |-> FALSE]]
                BY <2>3 DEF AcceptRead
            <3>2. t = s /\ j = i
                BY <2>1, <2>2, <3>1
            <3> QED
                BY <2>3, <3>2 DEF AcceptRead, Cancelled
        <2>4. ASSUME NEW t \in Slots, NEW c, call' = [call EXCEPT ![t] = c],
                     c.pc \notin {"accept.role", "accept.user", "accept.member", "accept.commit"}
              PROVE  FALSE
            BY <2>1, <2>2, <2>4
        <2>5. ASSUME NEW t \in Slots, Done(t) PROVE FALSE
            <3>1. Idle.pc \notin {"accept.role", "accept.user", "accept.member", "accept.commit"}
                BY DEF Idle
            <3> QED
                BY <2>5, <3>1, <2>4 DEF Done
        <2>6. ASSUME NEW t \in Slots, NEW j \in Rows, ResendRead(t, j) PROVE FALSE
            BY <2>6, <2>4 DEF ResendRead
        <2>7. ASSUME NEW t \in Slots, NEW u \in Invitees, SendMember(t, u) PROVE FALSE
            BY <2>7, <2>4 DEF SendMember
        <2>8. ASSUME NEW t \in Slots, SendStatus(t), Goto(t, "send.insert") PROVE FALSE
            <3>1. call[t] \in SendCall
                BY <2>8, CallShape DEF SendStatus, At, SendSteps
            <3>2. [call[t] EXCEPT !.pc = "send.insert"].pc = "send.insert"
                BY <3>1 DEF SendCall
            <3> QED
                BY <2>8, <3>2, <2>4 DEF Goto
        <2>9. call' # call
            BY <2>1
        <2>10. ASSUME NEW t \in Slots,
                     \/ AcceptRole(t) /\ Goto(t, "accept.user")
                     \/ AcceptUser(t)
                     \/ AcceptMember(t) /\ Goto(t, "accept.commit")
              PROVE  FALSE
            <3>1. call[t].pc \in {"accept.role", "accept.user", "accept.member"}
                BY <2>10 DEF AcceptRole, AcceptUser, AcceptMember, At
            <3>2. call[t] \in RowCall
                BY <3>1, CallShape DEF RowSteps
            <3>3. call'[t].row = call[t].row /\ \A u \in Slots : u # t => call'[u] = call[u]
                BY <2>2, <2>10, <3>2 DEF AcceptRole, AcceptUser, AcceptMember, Goto, RowCall
            <3> QED
                BY <2>1, <3>1, <3>3 DEF Accepting
        <2>11. ASSUME NEW t \in Slots, Step(t) \/ Abort(t) PROVE FALSE
            <3>1. CASE SendInsert(t) \/ ResendUpdate(t) \/ AcceptCommit(t) \/ Abort(t)
                <4>1. Done(t)
                    BY <3>1 DEF SendInsert, ResendUpdate, AcceptCommit, Abort
                <4> QED
                    BY <4>1, <2>5
            <3>2. CASE SendStatus(t)
                <4>1. Done(t) \/ Goto(t, "send.insert")
                    BY <3>2 DEF SendStatus
                <4> QED
                    BY <3>2, <4>1, <2>5, <2>8
            <3>3. CASE AcceptMember(t)
                <4>1. Done(t) \/ Goto(t, "accept.commit")
                    BY <3>3 DEF AcceptMember
                <4> QED
                    BY <3>3, <4>1, <2>10, <2>5
            <3>4. CASE AcceptRole(t)
                <4>1. Done(t) \/ Goto(t, "accept.user")
                    BY <3>4 DEF AcceptRole
                <4> QED
                    BY <3>4, <4>1, <2>10, <2>5
            <3> QED
                BY <3>1, <3>2, <3>3, <3>4, <2>10, <2>11 DEF Step
        <2>12. ~\E j \in Rows : Cancel(j) \/ Expire(j)
            BY <2>9 DEF Cancel, Expire
        <2>13. ~DeleteRole /\ ~\E u \in Invitees : Register(u)
            BY <2>9 DEF Register, DeleteRole
        <2> QED
            BY <2>3, <2>6, <2>7, <2>11, <2>12, <2>13 DEF Next
    <1> QED
        BY <1>1, <1>2

\* Once the role is gone, and with it the acceptances that found it, none gets as
\* far as the transaction again.
LEMMA GoneStep ==
    ASSUME TypeOK, Resolved, Next, RoleGone
    PROVE  RoleGone' /\ joined' = joined
    <1>1. ~usable'
        BY DEF RoleGone, Next, Step, DeleteRole, SendMember, ResendRead, AcceptRead, Cancel, Expire,
               Register, SendStatus, SendInsert, ResendUpdate, AcceptRole, AcceptUser, AcceptMember,
               AcceptCommit, Abort, Data
    <1>2. joined' = joined
        BY DEF RoleGone, Checked, At, Next, Step, DeleteRole, SendMember, ResendRead, AcceptRead, Cancel,
               Expire, Register, SendStatus, SendInsert, ResendUpdate, AcceptRole, AcceptUser, AcceptMember,
               AcceptCommit, Abort, Data
    <1>3. ASSUME NEW s \in Slots, call'[s].pc \in Checked PROVE FALSE
        <2>1. call'[s] # call[s] /\ call' # call
            BY <1>3 DEF RoleGone
        <2>2. ASSUME NEW t \in Slots, NEW c, call' = [call EXCEPT ![t] = c], c.pc \notin Checked
              PROVE  FALSE
            BY <1>3, <2>1, <2>2 DEF TypeOK
        <2>3. ASSUME NEW t \in Slots, Done(t) PROVE FALSE
            BY <2>2, <2>3 DEF Done, Idle, Checked
        <2>4. ASSUME NEW t \in Slots, SendStatus(t), Goto(t, "send.insert") PROVE FALSE
            <3>1. call[t] \in SendCall
                BY <2>4, CallShape DEF SendStatus, At, SendSteps
            <3>2. [call[t] EXCEPT !.pc = "send.insert"].pc = "send.insert"
                BY <3>1 DEF SendCall
            <3>3. [call[t] EXCEPT !.pc = "send.insert"].pc \notin Checked
                BY <3>2 DEF Checked
            <3> QED
                BY <2>4, <2>2, <3>3 DEF Goto
        <2>5. ASSUME NEW t \in Slots, NEW u \in Invitees, SendMember(t, u) PROVE FALSE
            BY <2>2, <2>5 DEF SendMember, Checked
        <2>6. ASSUME NEW t \in Slots, NEW i \in Rows, ResendRead(t, i) \/ AcceptRead(t, i) PROVE FALSE
            BY <2>2, <2>6 DEF ResendRead, AcceptRead, Checked
        <2>7. ASSUME NEW t \in Slots, Step(t) \/ Abort(t) PROVE FALSE
            <3>1. ~AcceptUser(t) /\ ~AcceptMember(t) /\ ~AcceptCommit(t)
                BY DEF RoleGone, Checked, AcceptUser, AcceptMember, AcceptCommit, At
            <3>2. CASE SendStatus(t)
                BY <2>3, <2>4, <3>2 DEF SendStatus
            <3>3. CASE SendInsert(t) \/ ResendUpdate(t) \/ AcceptRole(t) \/ Abort(t)
                <4>1. Done(t)
                    BY <3>3 DEF RoleGone, SendInsert, ResendUpdate, AcceptRole, Abort
                <4> QED
                    BY <4>1, <2>3
            <3> QED
                BY <2>7, <3>1, <3>2, <3>3 DEF Step
        <2>8. ~DeleteRole /\ ~\E i \in Rows : Cancel(i) \/ Expire(i)
            BY <2>1 DEF Cancel, Expire, DeleteRole
        <2>9. ~\E u \in Invitees : Register(u)
            BY <2>1 DEF Register
        <2> QED
            BY <2>5, <2>6, <2>7, <2>8, <2>9 DEF Next
    <1> QED
        BY <1>1, <1>2, <1>3 DEF RoleGone

\* CancelledHolds: for every set of addresses, ids and calls, no call picks a
\* cancelled invitation up, and none admits anybody to a role that is gone.
THEOREM CancellationHolds == Spec => CancelledHolds
    <1>1. TypeOK /\ Resolved /\ [Next]_vars => (TypeOK /\ Resolved)'
        BY TypeStep, ResolvedStep
    <1>2. TypeOK /\ Resolved /\ [Next]_vars =>
              [/\ \A i \in Rows : Cancelled(i) /\ ~Accepting(i)
                                    => (Cancelled(i) /\ ~Accepting(i))'
               /\ RoleGone => RoleGone' /\ joined' = joined]_vars
        BY CancelledStep, GoneStep
    <1> QED
        BY <1>1, <1>2, Base, PTL DEF Spec, CancelledHolds

-----------------------------------------------------------------------------
\* OnePending is made inductive by what the calls that send an invitation know:
\* unless two of them overlap, an address with several invitations has joined,
\* and whoever is about to insert one has found nothing that is pending.
Admitted(u) == \E i \in Rows : Accepted(i) /\ inv[i].invitee = u
AdmittedNext(u) == \E i \in Rows : Accepted(i)' /\ inv'[i].invitee = u
NonePending(u) == \A i \in Rows : inv[i].invitee = u => ~Pending(i)
Sending(s, u) == call[s].pc \in SendSteps /\ call[s].invitee = u

SeveralAdmitted ==
    \A i, j \in Rows : /\ inv[i] # NoRow /\ inv[j] # NoRow
                       /\ inv[i].invitee = inv[j].invitee /\ i # j
                       => Admitted(inv[i].invitee)
PendingAlone ==
    \A i, j \in Rows : Pending(i) /\ Pending(j) /\ inv[i].invitee = inv[j].invitee => i = j
SenderAlone ==
    \A s, t \in Slots : \A u \in Invitees : Sending(s, u) /\ Sending(t, u) => s = t
StatusKnows ==
    \A s \in Slots : At(s, "send.status") =>
        (Admitted(call[s].invitee) => NonePending(call[s].invitee))
InsertKnows ==
    \A s \in Slots : At(s, "send.insert") =>
        /\ NonePending(call[s].invitee)
        /\ \A i \in Rows : inv[i] # NoRow /\ inv[i].invitee = call[s].invitee
                            => Admitted(call[s].invitee)
Alone ==
    ~rushed => SeveralAdmitted /\ PendingAlone /\ SenderAlone /\ StatusKnows /\ InsertKnows

LEMMA AloneInit == Init => Alone
    <1> SUFFICES ASSUME Init PROVE Alone
        OBVIOUS
    <1>1. \A i \in Rows : inv[i] = NoRow /\ ~Pending(i)
        BY DEF Init, NoRow, Pending
    <1>2. \A s \in Slots : call[s].pc \notin SendSteps /\ ~At(s, "send.status") /\ ~At(s, "send.insert")
        BY DEF Init, Idle, SendSteps, At
    <1> QED
        BY <1>1, <1>2 DEF Alone, SeveralAdmitted, PendingAlone, SenderAlone, StatusKnows,
                          InsertKnows, Sending

\* No step forgets an invitation, or an admission.
LEMMA Kept ==
    ASSUME TypeOK, Resolved, Next
    PROVE  /\ \A i \in Rows : inv[i] # NoRow => inv'[i] # NoRow /\ inv'[i].invitee = inv[i].invitee
           /\ \A u \in Invitees : Admitted(u) => AdmittedNext(u)
           /\ ~rushed' => ~rushed
    <1>1. \A i \in Rows : inv[i] # NoRow => inv'[i] # NoRow /\ inv'[i].invitee = inv[i].invitee
        <2>1. \A r \in Row : r # NoRow
            BY DEF Row, NoRow
        <2> QED
            BY <2>1, Inviting DEF Writes, TypeOK
    <1>2. \A i \in Rows : Accepted(i) => inv[i] # NoRow
        BY DEF Accepted, NoRow
    <1>3. \A u \in Invitees : Admitted(u) => AdmittedNext(u)
        BY <1>1, <1>2, FinalStep DEF Admitted, AdmittedNext
    <1>4. ~rushed' => ~rushed
        BY DEF Next, Step, DeleteRole, SendMember, ResendRead, AcceptRead, Cancel, Expire, Register, SendStatus,
               SendInsert, ResendUpdate, AcceptRole, AcceptUser, AcceptMember, AcceptCommit, Abort
    <1> QED
        BY <1>1, <1>3, <1>4

\* Who is sending after a step was sending before, begins, or has looked.
LEMMA Senders ==
    ASSUME TypeOK, Resolved, Next, NEW s \in Slots, call'[s].pc \in SendSteps
    PROVE  \/ call'[s] = call[s]
           \/ \E u \in Invitees : /\ SendMember(s, u)
                                   /\ call'[s] = [pc |-> "send.status", invitee |-> u]
           \/ /\ SendStatus(s) /\ call[s].pc = "send.status" /\ call'[s].pc = "send.insert"
              /\ call'[s].invitee = call[s].invitee
    <1> SUFFICES ASSUME call'[s] # call[s]
                 PROVE  \/ \E u \in Invitees : /\ SendMember(s, u)
                                   /\ call'[s] = [pc |-> "send.status", invitee |-> u]
                        \/ /\ SendStatus(s) /\ call[s].pc = "send.status"
                           /\ call'[s].pc = "send.insert" /\ call'[s].invitee = call[s].invitee
        OBVIOUS
    <1>0. call \in [Slots -> SendCall \cup RowCall \cup {Idle}]
        BY DEF TypeOK
    <1>1. ASSUME NEW t \in Slots, NEW c, call' = [call EXCEPT ![t] = c], c.pc \notin SendSteps
          PROVE  FALSE
        BY <1>0, <1>1
    <1>2. ASSUME NEW t \in Slots, Done(t) PROVE FALSE
        <2>1. Idle.pc \notin SendSteps
            BY DEF Idle, SendSteps
        <2> QED
            BY <1>2, <2>1, <1>1 DEF Done
    <1>3. ASSUME NEW t \in Slots, NEW pc, Goto(t, pc), pc \notin SendSteps, call[t].pc \in RowSteps
          PROVE  FALSE
        <2>1. [call[t] EXCEPT !.pc = pc].pc = pc
            BY <1>3, CallShape DEF RowCall
        <2> QED
            BY <1>3, <2>1, <1>1 DEF Goto
    <1>4. ASSUME NEW t \in Slots, NEW i \in Rows, ResendRead(t, i) \/ AcceptRead(t, i) PROVE FALSE
        <2>1. PICK pc \in {"resend.update", "accept.role"} :
                  call' = [call EXCEPT ![t] = [pc |-> pc, row |-> i, known |-> FALSE]]
            BY <1>4 DEF ResendRead, AcceptRead
        <2> QED
            BY <2>1, <1>1 DEF SendSteps
    <1>5. ASSUME NEW t \in Slots,
                 SendInsert(t) \/ ResendUpdate(t) \/ AcceptCommit(t) \/ Abort(t)
          PROVE  FALSE
        BY <1>5, <1>2 DEF SendInsert, ResendUpdate, AcceptCommit, Abort
    <1>6. ASSUME NEW t \in Slots, AcceptUser(t) PROVE FALSE
        BY <1>6, <1>1 DEF AcceptUser, SendSteps
    <1>7. ASSUME NEW t \in Slots, AcceptMember(t) PROVE FALSE
        <2>1. Done(t) \/ (Goto(t, "accept.commit") /\ call[t].pc \in RowSteps)
            BY <1>7 DEF AcceptMember, At, RowSteps
        <2>2. "accept.commit" \notin SendSteps
            BY DEF SendSteps
        <2> QED
            BY <2>1, <2>2, <1>2, <1>3
    <1>8. ASSUME NEW t \in Slots, NEW u \in Invitees, SendMember(t, u)
          PROVE  t = s /\ call'[s] = [pc |-> "send.status", invitee |-> u]
        BY <1>0, <1>8 DEF SendMember
    <1>9. ASSUME NEW t \in Slots, SendStatus(t)
          PROVE  /\ t = s /\ call[s].pc = "send.status" /\ call'[s].pc = "send.insert"
                 /\ call'[s].invitee = call[s].invitee
        <2>1. Goto(t, "send.insert") /\ call[t].pc = "send.status"
            BY <1>9, <1>2 DEF SendStatus, At
        <2>2. t = s /\ call'[s] = [call[s] EXCEPT !.pc = "send.insert"]
            BY <2>1, <1>0 DEF Goto
        <2>3. call[s] \in SendCall
            BY <2>1, <2>2, CallShape DEF SendSteps
        <2> QED
            BY <2>1, <2>2, <2>3 DEF SendCall
    <1>10. ~\E i \in Rows : Cancel(i) \/ Expire(i)
        BY DEF Cancel, Expire
    <1>11. ~DeleteRole /\ ~\E u \in Invitees : Register(u)
        BY DEF Register, DeleteRole
    <1>12. ASSUME NEW t \in Slots, AcceptRole(t) PROVE FALSE
        <2>1. Done(t) \/ (Goto(t, "accept.user") /\ call[t].pc \in RowSteps)
            BY <1>12 DEF AcceptRole, At, RowSteps
        <2>2. "accept.user" \notin SendSteps
            BY DEF SendSteps
        <2> QED
            BY <2>1, <2>2, <1>2, <1>3
    <1> QED
        BY <1>4, <1>5, <1>6, <1>7, <1>8, <1>9, <1>10, <1>11, <1>12 DEF Next, Step

\* A step that inserts none leaves the set of invitations alone and makes none
\* pending.
LEMMA NoInsertion ==
    ASSUME TypeOK, Resolved, Next, ~\E s \in Slots : SendInsert(s)
    PROVE  \A i \in Rows : /\ inv'[i] # NoRow => inv[i] # NoRow
                           /\ Pending(i)' => Pending(i)
    <1>1. CASE UNCHANGED inv
        BY <1>1 DEF Pending
    <1>2. ASSUME NEW j \in Rows, NEW r \in Row, Writes(j, r)
          PROVE  \A i \in Rows : /\ inv'[i] # NoRow => inv[i] # NoRow
                                 /\ Pending(i)' => Pending(i)
        <2>1. inv'[j] = r /\ \A k \in Rows : k # j => inv'[k] = inv[k]
            BY <1>2 DEF Writes, TypeOK
        <2>2. inv[j] # NoRow
            <3>1. CASE \E s \in Slots : AcceptCommit(s) /\ Insertable(s)
                <4>1. PICK s \in Slots : AcceptCommit(s) /\ Insertable(s)
                    BY <3>1
                <4>2. call[s].row \in Rows /\ inv[call[s].row] # NoRow
                    BY <4>1, CallShape DEF AcceptCommit, At, RowCall, RowSteps, Resolved
                <4>3. inv' = [inv EXCEPT ![call[s].row].status = "accepted"]
                    BY <4>1 DEF AcceptCommit
                <4>4. CASE j = call[s].row
                    BY <4>2, <4>4
                <4>5. CASE j # call[s].row
                    <5>1. inv'[j] = inv[j]
                        BY <4>3, <4>5 DEF TypeOK
                    <5>2. r # NoRow
                        BY DEF Row, NoRow
                    <5> QED
                        BY <2>1, <5>1, <5>2
                <4> QED
                    BY <4>4, <4>5
            <3>2. CASE ~\E s \in Slots : AcceptCommit(s) /\ Insertable(s)
                <4>1. inv[j].status = "pending" => inv[j] # NoRow
                    BY DEF NoRow
                <4> QED
                    BY <1>2, <3>2, <4>1 DEF Writes
            <3> QED
                BY <3>1, <3>2
        <2>3. r.status = "pending" => inv[j].status = "pending"
            BY <1>2, <2>2 DEF Writes
        <2> QED
            BY <2>1, <2>2, <2>3 DEF Pending
    <1> QED
        BY <1>1, <1>2, Inviting

LEMMA InviteeShape ==
    ASSUME TypeOK
    PROVE  /\ \A i \in Rows : inv[i] # NoRow => inv[i].invitee \in Invitees
           /\ \A i \in Rows : Pending(i) \/ Accepted(i) => inv[i] # NoRow
           /\ \A s \in Slots : call[s].pc \in SendSteps => call[s].invitee \in Invitees
    <1>1. \A i \in Rows : Pending(i) \/ Accepted(i) => inv[i] # NoRow
        BY DEF Pending, Accepted, NoRow
    <1>2. \A i \in Rows : inv[i] # NoRow => inv[i].invitee \in Invitees
        BY RowShape DEF Row
    <1>3. \A s \in Slots : call[s].pc \in SendSteps => call[s].invitee \in Invitees
        BY CallShape DEF SendCall
    <1> QED
        BY <1>1, <1>2, <1>3

\* Senders of one address stay alone, whatever is inserted or accepted.
LEMMA SenderAloneStep ==
    ASSUME TypeOK, Resolved, Next, SenderAlone, ~rushed'
    PROVE  SenderAlone'
    <1> SUFFICES ASSUME NEW s \in Slots, NEW t \in Slots, NEW u \in Invitees,
                        Sending(s, u)', Sending(t, u)', s # t
                 PROVE  FALSE
        BY DEF SenderAlone
    <1>1. ASSUME NEW a \in Slots, NEW b \in Slots, a # b, Sending(b, u)', SendMember(a, u)
          PROVE  FALSE
        <2>1. call'[b] = call[b]
            BY <1>1 DEF SendMember, TypeOK
        <2>2. Sending(b, u)
            BY <1>1, <2>1 DEF Sending
        <2> QED
            BY <1>1, <2>2 DEF SendMember, Sending
    <1>2. ASSUME NEW a \in Slots, NEW b \in Slots, a # b, Sending(a, u)', Sending(b, u)'
          PROVE  Sending(a, u)
        <2>1. call'[a].pc \in SendSteps /\ call'[a].invitee = u
            BY <1>2 DEF Sending
        <2>2. CASE call'[a] = call[a]
            BY <2>1, <2>2 DEF Sending
        <2>3. ASSUME NEW w \in Invitees, SendMember(a, w),
                     call'[a] = [pc |-> "send.status", invitee |-> w]
              PROVE  FALSE
            <3>1. w = u
                BY <2>1, <2>3
            <3> QED
                BY <1>1, <1>2, <2>3, <3>1
        <2>4. CASE call[a].pc = "send.status" /\ call'[a].invitee = call[a].invitee
            BY <2>1, <2>4 DEF Sending, SendSteps
        <2> QED
            BY <2>1, <2>2, <2>3, <2>4, Senders
    <1>3. Sending(s, u) /\ Sending(t, u)
        BY <1>2
    <1> QED
        BY <1>3 DEF SenderAlone

\* An address gets a second invitation only once it has joined by the first.
LEMMA SeveralStep ==
    ASSUME TypeOK, Resolved, Next, SeveralAdmitted, InsertKnows
    PROVE  SeveralAdmitted'
    <1>1. ASSUME NEW i \in Rows, NEW j \in Rows, inv'[i] # NoRow, inv'[j] # NoRow,
                 inv'[i].invitee = inv'[j].invitee, i # j, inv[i] # NoRow, inv[j] # NoRow
          PROVE  AdmittedNext(inv'[i].invitee)
        <2>1. inv'[i].invitee = inv[i].invitee /\ inv'[j].invitee = inv[j].invitee
            BY <1>1, Kept
        <2>2. Admitted(inv[i].invitee) /\ inv[i].invitee \in Invitees
            BY <1>1, <2>1, InviteeShape DEF SeveralAdmitted
        <2> QED
            BY <2>1, <2>2, Kept DEF AdmittedNext
    <1>2. ASSUME NEW i \in Rows, NEW j \in Rows, inv'[i] # NoRow, inv'[j] # NoRow,
                 inv'[i].invitee = inv'[j].invitee, i # j, inv[i] = NoRow
          PROVE  AdmittedNext(inv'[i].invitee)
        <2>1. PICK s \in Slots : SendInsert(s)
            BY <1>2, NoInsertion
        <2>2. PICK k \in Rows :
                  /\ inv[k] = NoRow
                  /\ inv' = [inv EXCEPT ![k] = [status |-> "pending", invitee |-> call[s].invitee,
                                                live |-> TRUE]]
            BY <2>1 DEF SendInsert
        <2>3. k = i
            BY <1>2, <2>2 DEF TypeOK
        <2>4. inv'[j] = inv[j] /\ inv[j] # NoRow /\ inv'[i].invitee = call[s].invitee
            BY <1>2, <2>2, <2>3 DEF TypeOK
        <2>5. Admitted(call[s].invitee)
            BY <1>2, <2>1, <2>4 DEF InsertKnows, SendInsert
        <2>6. call[s].invitee \in Invitees
            BY <2>1, InviteeShape DEF SendInsert, At, SendSteps
        <2>7. AdmittedNext(call[s].invitee)
            <3>1. PICK a \in Rows : Accepted(a) /\ inv[a].invitee = call[s].invitee
                BY <2>5 DEF Admitted
            <3>2. inv[a] # NoRow
                BY <3>1, InviteeShape
            <3>3. Accepted(a)' /\ inv'[a].invitee = call[s].invitee
                BY <3>1, <3>2, FinalStep, Kept
            <3> QED
                BY <3>3 DEF AdmittedNext
        <2> QED
            BY <2>4, <2>7 DEF AdmittedNext
    <1>3. ASSUME NEW i \in Rows, NEW j \in Rows, inv'[i] # NoRow, inv'[j] # NoRow,
                 inv'[i].invitee = inv'[j].invitee, i # j
          PROVE  AdmittedNext(inv'[i].invitee)
        <2>1. AdmittedNext(inv'[j].invitee) <=> AdmittedNext(inv'[i].invitee)
            BY <1>3 DEF AdmittedNext
        <2> QED
            BY <1>1, <1>2, <1>3, <2>1
    <1> QED
        BY <1>3 DEF SeveralAdmitted, Admitted, AdmittedNext

LEMMA PendingAloneStep ==
    ASSUME TypeOK, Resolved, Next, PendingAlone, InsertKnows
    PROVE  PendingAlone'
    <1>1. ASSUME ~\E s \in Slots : SendInsert(s) PROVE PendingAlone'
        <2>1. ASSUME NEW i \in Rows, NEW j \in Rows, Pending(i)', Pending(j)',
                     inv'[i].invitee = inv'[j].invitee
              PROVE  i = j
            <3>1. Pending(i) /\ Pending(j)
                BY <1>1, <2>1, NoInsertion
            <3>2. inv'[i].invitee = inv[i].invitee /\ inv'[j].invitee = inv[j].invitee
                BY <3>1, InviteeShape, Kept
            <3> QED
                BY <2>1, <3>1, <3>2 DEF PendingAlone
        <2> QED
            BY <2>1 DEF PendingAlone
    <1>2. ASSUME NEW s \in Slots, SendInsert(s) PROVE PendingAlone'
        <2>1. PICK k \in Rows :
                  /\ inv[k] = NoRow
                  /\ inv' = [inv EXCEPT ![k] = [status |-> "pending", invitee |-> call[s].invitee,
                                                live |-> TRUE]]
            BY <1>2 DEF SendInsert
        <2>2. inv'[k].invitee = call[s].invitee /\ \A i \in Rows : i # k => inv'[i] = inv[i]
            BY <2>1 DEF TypeOK
        <2>3. \A i \in Rows : i # k /\ Pending(i)' => inv'[i].invitee # inv'[k].invitee
            BY <1>2, <2>2 DEF Pending, SendInsert, InsertKnows, NonePending
        <2>4. ASSUME NEW i \in Rows, NEW j \in Rows, Pending(i)', Pending(j)',
                     inv'[i].invitee = inv'[j].invitee
              PROVE  i = j
            <3>1. CASE i = k \/ j = k
                BY <2>3, <2>4, <3>1
            <3>2. CASE i # k /\ j # k
                BY <2>2, <2>4, <3>2 DEF PendingAlone, Pending
            <3> QED
                BY <3>1, <3>2
        <2> QED
            BY <2>4 DEF PendingAlone
    <1> QED
        BY <1>1, <1>2

\* Nothing is inserted for the address of a sender but by the sender.
LEMMA Undisturbed ==
    ASSUME TypeOK, Resolved, Next, SenderAlone, NEW t \in Slots, call[t].pc \in SendSteps,
           ~SendInsert(t)
    PROVE  \A i \in Rows : /\ Pending(i)' /\ inv'[i].invitee = call[t].invitee => Pending(i)
                           /\ inv'[i] # NoRow /\ inv'[i].invitee = call[t].invitee => inv[i] # NoRow
    <1>1. CASE ~\E s \in Slots : SendInsert(s)
        BY <1>1, NoInsertion
    <1>2. CASE \E s \in Slots : SendInsert(s)
        <2>0. PICK s \in Slots : SendInsert(s)
            BY <1>2
        <2>1. PICK k \in Rows :
                  /\ inv[k] = NoRow
                  /\ inv' = [inv EXCEPT ![k] = [status |-> "pending", invitee |-> call[s].invitee,
                                                live |-> TRUE]]
            BY <2>0 DEF SendInsert
        <2>2. inv'[k].invitee = call[s].invitee /\ \A i \in Rows : i # k => inv'[i] = inv[i]
            BY <2>1 DEF TypeOK
        <2>3. s # t /\ call[s].pc \in SendSteps
            BY <2>0 DEF SendInsert, At, SendSteps
        <2>4. call[s].invitee # call[t].invitee
            BY <2>3, InviteeShape DEF SenderAlone, Sending
        <2>5. \A i \in Rows : inv'[i].invitee = call[t].invitee => inv'[i] = inv[i]
            BY <2>2, <2>4
        <2>6. ASSUME NEW i \in Rows, Pending(i)', inv'[i].invitee = call[t].invitee
              PROVE  Pending(i)
            <3>1. inv'[i] = inv[i]
                BY <2>5, <2>6
            <3> QED
                BY <2>6, <3>1 DEF Pending
        <2>7. ASSUME NEW i \in Rows, inv'[i] # NoRow, inv'[i].invitee = call[t].invitee
              PROVE  inv[i] # NoRow
            BY <2>5, <2>7
        <2> QED
            BY <2>6, <2>7
    <1> QED
        BY <1>1, <1>2

\* Whoever joins does so by the one invitation there is: none is left pending.
LEMMA JoinedByTheOnly ==
    ASSUME TypeOK, Resolved, OneAdmission, SeveralAdmitted, NEW s \in Slots,
           AcceptCommit(s), Insertable(s), NEW j \in Rows, inv[j] # NoRow,
           inv[j].invitee = Invitee(s)
    PROVE  j = call[s].row
    <1>1. call[s].row \in Rows /\ inv[call[s].row] # NoRow
        BY CallShape DEF AcceptCommit, At, RowCall, RowSteps, Resolved
    <1>2. Invitee(s) = inv[call[s].row].invitee /\ Invitee(s) \in Invitees
        BY <1>1, InviteeShape DEF Invitee
    <1>3. joined[Invitee(s)] = 0
        BY DEF Insertable, MembershipFree
    <1>4. ~Admitted(Invitee(s))
        <2> SUFFICES ASSUME NEW k \in Rows, Accepted(k), inv[k].invitee = Invitee(s) PROVE FALSE
            BY DEF Admitted
        <2>1. joined[Invitee(s)] = 1
            BY <1>2, InviteeShape DEF OneAdmission, InvitationsOf
        <2> QED
            BY <1>3, <2>1
    <1> QED
        BY <1>1, <1>2, <1>4 DEF SeveralAdmitted

LEMMA StatusStep ==
    ASSUME TypeOK, Resolved, OneAdmission, Next, SenderAlone, SeveralAdmitted, StatusKnows
    PROVE  StatusKnows'
    <1> SUFFICES ASSUME NEW t \in Slots, call'[t].pc = "send.status",
                        NEW a \in Rows, Accepted(a)', inv'[a].invitee = call'[t].invitee,
                        NEW i \in Rows, inv'[i].invitee = call'[t].invitee, Pending(i)'
                 PROVE  FALSE
        BY DEF StatusKnows, At, Admitted, NonePending
    <1>0. inv'[a] # NoRow /\ inv'[i] # NoRow
        BY DEF Accepted, Pending, NoRow
    <1>1. ASSUME NEW u \in Invitees, SendMember(t, u), call'[t].invitee = u PROVE FALSE
        <2>1. inv' = inv /\ joined[u] = 0
            BY <1>1 DEF SendMember, Data
        <2>2. Accepted(a) /\ a \in InvitationsOf(u)
            BY <1>1, <2>1, <1>0 DEF Accepted, InvitationsOf
        <2>3. joined[u] = 1
            BY <2>2 DEF OneAdmission, InvitationsOf
        <2> QED
            BY <2>1, <2>3
    <1>2. CASE call'[t] = call[t]
        <2>1. call[t].pc = "send.status" /\ call[t].pc \in SendSteps /\ ~SendInsert(t)
            BY <1>2 DEF SendSteps, SendInsert, At
        <2>2. Pending(i) /\ inv[i] # NoRow /\ inv[a] # NoRow
            BY <1>0, <1>2, <2>1, Undisturbed
        <2>3. inv[i].invitee = call[t].invitee /\ inv[a].invitee = call[t].invitee
            BY <1>2, <2>2, Kept
        <2>4. CASE Accepted(a)
            BY <2>1, <2>2, <2>3, <2>4 DEF StatusKnows, At, Admitted, NonePending
        <2>5. CASE ~Accepted(a)
            <3>1. PICK s \in Slots : AcceptCommit(s) /\ Insertable(s)
                BY <2>5, NoAdmission
            <3>2. call[s].row \in Rows /\ inv[call[s].row] # NoRow
                BY <3>1, CallShape DEF AcceptCommit, At, RowCall, RowSteps, Resolved
            <3>3. inv' = [inv EXCEPT ![call[s].row].status = "accepted"]
                BY <3>1 DEF AcceptCommit
            <3>4. a = call[s].row
                BY <2>5, <3>2, <3>3 DEF TypeOK, Accepted
            <3>5. Invitee(s) = inv[i].invitee
                BY <2>3, <3>4 DEF Invitee
            <3>6. i = a
                BY <2>2, <3>1, <3>4, <3>5, JoinedByTheOnly
            <3> QED
                BY <3>6 DEF Accepted, Pending
        <2> QED
            BY <2>4, <2>5
    <1>3. call'[t].pc \in SendSteps /\ call'[t].pc # "send.insert"
        BY DEF SendSteps
    <1>4. ~\E u \in Invitees : /\ SendMember(t, u)
                              /\ call'[t] = [pc |-> "send.status", invitee |-> u]
        <2> SUFFICES ASSUME NEW u \in Invitees, SendMember(t, u),
                            call'[t] = [pc |-> "send.status", invitee |-> u]
                     PROVE  FALSE
            OBVIOUS
        <2>1. call'[t].invitee = u
            OBVIOUS
        <2> QED
            BY <1>1, <2>1
    <1> QED
        BY <1>2, <1>3, <1>4, Senders

LEMMA InsertStep ==
    ASSUME TypeOK, Resolved, Next, SenderAlone, StatusKnows, InsertKnows
    PROVE  InsertKnows'
    <1> SUFFICES ASSUME NEW t \in Slots, call'[t].pc = "send.insert",
                        NEW i \in Rows, inv'[i] # NoRow, inv'[i].invitee = call'[t].invitee
                 PROVE  ~Pending(i)' /\ AdmittedNext(call'[t].invitee)
        <2>1. \A i \in Rows : Pending(i)' => inv'[i] # NoRow
            BY DEF Pending, NoRow
        <2> QED
            BY <2>1 DEF InsertKnows, At, NonePending, Admitted, AdmittedNext
    <1> DEFINE u == call[t].invitee
    <1>1. CASE call'[t] = call[t]
        <2>1. call[t].pc = "send.insert" /\ call[t].pc \in SendSteps
            BY <1>1 DEF SendSteps
        <2>2. ~SendInsert(t)
            <3>1. Idle.pc # "send.insert"
                BY DEF Idle
            <3> QED
                BY <1>1, <2>1, <3>1 DEF SendInsert, Done, TypeOK
        <2>3. (Pending(i)' => Pending(i)) /\ inv[i] # NoRow
            BY <1>1, <2>1, <2>2, Undisturbed
        <2>4. inv[i].invitee = u
            BY <1>1, <2>3, Kept
        <2>5. ~Pending(i) /\ Admitted(u) /\ u \in Invitees
            BY <2>1, <2>3, <2>4, InviteeShape DEF InsertKnows, At, NonePending
        <2>6. AdmittedNext(u)
            BY <2>5, Kept
        <2> QED
            BY <1>1, <2>3, <2>5, <2>6 DEF AdmittedNext
    <1>2. CASE SendStatus(t) /\ call[t].pc = "send.status" /\ call'[t].invitee = u
        <2>1. inv' = inv
            BY <1>2 DEF SendStatus, Data
        <2>2. Goto(t, "send.insert") /\ ~Done(t)
            <3>1. Idle.pc # "send.insert"
                BY DEF Idle
            <3> QED
                BY <1>2, <3>1 DEF SendStatus, Done, TypeOK
        <2>3. i \in InvitationsOf(u)
            BY <1>2, <2>1 DEF InvitationsOf
        <2>4. PICK k \in InvitationsOf(u) : inv[k].status = "accepted"
            BY <1>2, <2>2, <2>3 DEF SendStatus
        <2>5. Admitted(u)
            BY <2>4 DEF InvitationsOf, Admitted, Accepted
        <2>6. ~Pending(i)
            BY <1>2, <2>3, <2>5 DEF StatusKnows, At, NonePending, InvitationsOf
        <2> QED
            BY <1>2, <2>1, <2>5, <2>6 DEF Admitted, AdmittedNext, Accepted, Pending
    <1>3. call'[t].pc \in SendSteps /\ call'[t].pc # "send.status"
        BY DEF SendSteps
    <1>4. \A w \in Invitees : call'[t] # [pc |-> "send.status", invitee |-> w]
        BY <1>3
    <1> QED
        BY <1>1, <1>2, <1>3, <1>4, Senders

LEMMA AloneStep == TypeOK /\ Resolved /\ OneAdmission /\ Alone /\ [Next]_vars => Alone'
    <1>1. ASSUME Alone, UNCHANGED vars PROVE Alone'
        BY <1>1 DEF vars, Alone, SeveralAdmitted, PendingAlone, SenderAlone, StatusKnows,
                    InsertKnows, Admitted, NonePending, Sending, Accepted, Pending, At
    <1>2. ASSUME TypeOK, Resolved, OneAdmission, Alone, Next PROVE Alone'
        <2> SUFFICES ASSUME ~rushed'
                     PROVE  (SeveralAdmitted /\ PendingAlone /\ SenderAlone /\ StatusKnows
                                /\ InsertKnows)'
            BY DEF Alone
        <2>1. SeveralAdmitted /\ PendingAlone /\ SenderAlone /\ StatusKnows /\ InsertKnows
            BY <1>2, Kept DEF Alone
        <2> QED
            BY <1>2, <2>1, SeveralStep, PendingAloneStep, SenderAloneStep, StatusStep, InsertStep
    <1> QED
        BY <1>1, <1>2

\* OnePending: 'Invitation already sent to this email' holds for every set of
\* addresses, ids and calls, until two calls for one address overlap.
THEOREM PendingOnce == Spec => []OnePending
    <1>1. TypeOK /\ Resolved /\ OneAdmission /\ Alone /\ [Next]_vars
              => (TypeOK /\ Resolved /\ OneAdmission /\ Alone)'
        BY TypeStep, ResolvedStep, AdmissionStep, AloneStep
    <1>2. Alone => OnePending
        BY DEF Alone, PendingAlone, OnePending
    <1> QED
        BY <1>1, <1>2, Base, AloneInit, PTL DEF Spec
=============================================================================
