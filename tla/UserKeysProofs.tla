--------------------------- MODULE UserKeysProofs ---------------------------
(***************************************************************************)
(* A password that is changed or recovered takes the user's key with it,   *)
(* whatever fails, for any number of calls, passwords and connections; and *)
(* an active key opens with the user's password as long as nothing failed. *)
(* The statements on the key commit by themselves, outside the transaction *)
(* of their call: what keeps two calls apart is that they run while their  *)
(* call alone holds the users row.  The invariant says so, and what a call *)
(* that holds it knows about the key between its statements.               *)
(***************************************************************************)
EXTENDS UserKeys, TLAPS

\* The steps a call takes after its UPDATE of users.
Holding == InTransaction \ {"update"}
KeySteps == Holding \ {"commit"}

\* Whoever is past its UPDATE of users holds the row, and nobody else does.
Alone == \A s \in Slots : call[s].pc \in Holding => locked = {s}

\* What the call in slot s knows about the key: the one it has read is active
\* until it has rewrapped it, the one it commits opens with the new password, and
\* none is active after the first statement of storeUserEncryptionKey.
Knows(s) ==
    /\ call[s].pc = "rewrap" => Active
    /\ call[s].pc \in {"store.version", "store.insert"} => ~Active
    /\ call[s].pc = "commit" /\ call[s].kind \in {"change", "recover"} =>
           Active /\ key.wrap = call[s].new

KeyInv == TypeOK /\ Alone /\ \A s \in Slots : Knows(s)

-----------------------------------------------------------------------------
\* A call that has a step of a handler to do is a call.
LEMMA CallShape ==
    ASSUME TypeOK, NEW s \in Slots, call[s].pc \in Steps
    PROVE  call[s] \in Call
    BY DEF TypeOK, Idle, Steps, InTransaction

\* What a step of slot s that goes on to pc leaves: the other calls, and its own
\* but for the step.
LEMMA Going ==
    ASSUME TypeOK, NEW s \in Slots, call[s].pc \in Steps, NEW pc \in Steps, Goto(s, pc)
    PROVE  /\ call' \in [Slots -> Call \cup {Idle}]
           /\ call'[s].pc = pc /\ call'[s].kind = call[s].kind /\ call'[s].new = call[s].new
           /\ \A t \in Slots \ {s} : call'[t] = call[t]
    <1>1. call[s] \in Call
        BY CallShape
    <1>2. [call[s] EXCEPT !.pc = pc] \in Call
        BY <1>1 DEF Call
    <1>3. call' = [call EXCEPT ![s] = [call[s] EXCEPT !.pc = pc]]
        BY DEF Goto, TypeOK
    <1> QED
        BY <1>1, <1>2, <1>3 DEF TypeOK, Call

LEMMA Ending ==
    ASSUME TypeOK, NEW s \in Slots, End(s)
    PROVE  /\ call' \in [Slots -> Call \cup {Idle}]
           /\ call'[s].pc = "idle"
           /\ \A t \in Slots \ {s} : call'[t] = call[t]
           /\ locked' = locked \ {s}
    BY DEF TypeOK, End, Idle

\* TypeOK only asks the following of a step.
LEMMA Typed ==
    ASSUME TypeOK, hash' \in Secrets, verified' \in BOOLEAN, key' \in Key \cup {NoKey},
           used' \subseteq Tokens, locked' \subseteq Slots,
           call' \in [Slots -> Call \cup {Idle}], calls' \in 0..MaxCalls,
           faults' \in 0..MaxFaults, starved' \in BOOLEAN, pool' \in PoolSizes
    PROVE  TypeOK'
    BY DEF TypeOK

\* A step of slot s keeps the invariant when it comes to hold the row only by
\* UPDATE users, writes the key only while it holds it, and knows what it should.
LEMMA StepKeeps ==
    ASSUME KeyInv, TypeOK', NEW s \in Slots, \A t \in Slots \ {s} : call'[t] = call[t],
           \/ locked' = locked /\ (call'[s].pc \in Holding => call[s].pc \in Holding)
           \/ locked' = locked \ {s} /\ call'[s].pc = "idle"
           \/ locked = {} /\ locked' = {s},
           key' = key \/ call[s].pc \in Holding,
           Knows(s)'
    PROVE  KeyInv'
    <1>1. Alone'
        BY DEF KeyInv, Alone, Holding, InTransaction
    <1>2. ASSUME NEW t \in Slots, t # s PROVE Knows(t)'
        <2>1. CASE key' = key
            BY <1>2, <2>1 DEF KeyInv, Knows, Active
        <2>2. CASE call[s].pc \in Holding
            <3>1. call'[t].pc \notin Holding
                BY <1>2, <2>2 DEF KeyInv, Alone
            <3> QED
                BY <3>1 DEF Knows, Holding, InTransaction
        <2> QED
            BY <2>1, <2>2
    <1> QED
        BY <1>1, <1>2 DEF KeyInv

-----------------------------------------------------------------------------
LEMMA KeyInit == Init => KeyInv
    <1> SUFFICES ASSUME Init PROVE KeyInv
        OBVIOUS
    <1>1. calls \in 0..MaxCalls /\ faults \in 0..MaxFaults
        BY BoundsAssumption DEF Init
    <1>2. key \in Key \cup {NoKey}
        BY DEF Init, Key
    <1>3. TypeOK
        BY <1>1, <1>2 DEF Init, TypeOK
    <1>4. \A s \in Slots : call[s].pc = "idle"
        BY DEF Init, Idle
    <1> QED
        BY <1>3, <1>4 DEF KeyInv, Alone, Knows, Holding, InTransaction

LEMMA Calling ==
    ASSUME KeyInv, NEW s \in Slots, NEW kind \in AllKinds, NEW old \in Secrets,
           NEW new \in Passwords, NEW token \in SUBSET Tokens, Start(s, kind, old, new, token)
    PROVE  KeyInv'
    <1> DEFINE c == [pc |-> "begin", kind |-> kind, old |-> old, new |-> new, token |-> token]
    <1>1. c \in Call
        BY DEF Call, Steps
    <1>2. /\ call' = [call EXCEPT ![s] = c]
          /\ UNCHANGED <<hash, verified, key, used, locked, faults, starved, pool>>
        BY DEF Start
    <1>3. /\ call' \in [Slots -> Call \cup {Idle}] /\ call'[s].pc = "begin"
          /\ \A t \in Slots \ {s} : call'[t] = call[t]
        BY <1>1, <1>2 DEF KeyInv, TypeOK
    <1>4. calls' \in 0..MaxCalls
        BY BoundsAssumption DEF KeyInv, TypeOK, Start
    <1>5. TypeOK'
        BY <1>2, <1>3, <1>4, Typed DEF KeyInv, TypeOK
    <1>6. Knows(s)'
        BY <1>3 DEF Knows
    <1> QED
        BY <1>2, <1>3, <1>5, <1>6, StepKeeps DEF Holding, InTransaction

\* A step of slot s that goes on to pc and touches nothing else but the key.
LEMMA GoingOn ==
    ASSUME KeyInv, NEW s \in Slots, NEW pc \in Steps, call[s].pc \in Steps, Goto(s, pc),
           pc \in Holding => call[s].pc \in Holding, locked' = locked,
           key' = key \/ call[s].pc \in Holding, key' \in Key \cup {NoKey},
           pc = "rewrap" => Active',
           pc \in {"store.version", "store.insert"} => ~Active',
           pc = "commit" /\ call[s].kind \in {"change", "recover"} =>
               Active' /\ key'.wrap = call[s].new,
           UNCHANGED <<hash, verified, used, calls, pool>>,
           faults' \in 0..MaxFaults, starved' \in BOOLEAN
    PROVE  KeyInv'
    <1>1. /\ call' \in [Slots -> Call \cup {Idle}]
          /\ call'[s].pc = pc /\ call'[s].kind = call[s].kind /\ call'[s].new = call[s].new
          /\ \A t \in Slots \ {s} : call'[t] = call[t]
        BY Going DEF KeyInv
    <1>2. TypeOK'
        BY <1>1, Typed DEF KeyInv, TypeOK
    <1>3. Knows(s)'
        BY <1>1 DEF Knows
    <1> QED
        BY <1>1, <1>2, <1>3, StepKeeps

\* A call that ends, whatever it has done.
LEMMA GivingUp ==
    ASSUME KeyInv, NEW s \in Slots, End(s), key' = key, hash' \in Secrets, used' \subseteq Tokens,
           UNCHANGED <<verified, calls, pool>>, faults' \in 0..MaxFaults, starved' \in BOOLEAN
    PROVE  KeyInv'
    <1>1. /\ call' \in [Slots -> Call \cup {Idle}] /\ call'[s].pc = "idle"
          /\ \A t \in Slots \ {s} : call'[t] = call[t]
          /\ locked' = locked \ {s}
        BY Ending DEF KeyInv
    <1>2. TypeOK'
        BY <1>1, Typed DEF KeyInv, TypeOK
    <1>3. Knows(s)'
        BY <1>1 DEF Knows
    <1> QED
        BY <1>1, <1>2, <1>3, StepKeeps

LEMMA StepPreserves ==
    ASSUME KeyInv, NEW s \in Slots, Step(s)
    PROVE  KeyInv'
    <1>0. TypeOK /\ Knows(s) /\ call[s].pc \in Steps /\ UNCHANGED <<verified, calls, faults, starved, pool>>
        BY DEF KeyInv, Step, Begin, UpdateUser, Commit, ChangeRead, RecoverRead, Rewrap, RotateRead,
           RotateMark, StoreDeactivate, StoreVersion, StoreInsert, StoreRefused, At, Steps, InTransaction
    <1>c. call[s] \in Call /\ call[s].kind \in AllKinds /\ call[s].new \in Secrets
        BY <1>0, CallShape DEF Call, Secrets
    <1>t. /\ faults' \in 0..MaxFaults /\ starved' \in BOOLEAN
          /\ key \in Key \cup {NoKey} /\ hash \in Secrets /\ used \subseteq Tokens
        BY <1>0 DEF TypeOK
    <1>1. CASE Begin(s)
        BY <1>0, <1>1, <1>t, GoingOn DEF Begin, At, Steps, InTransaction, Holding
    <1>2. CASE UpdateUser(s)
        <2> DEFINE pc == KeyStep(call[s].kind)
        <2>1. pc \in {"change.read", "recover.read", "rotate.read", "store.deactivate"}
            BY <1>c DEF KeyStep, AllKinds
        <2>2. locked = {} /\ locked' = {s} /\ Goto(s, pc) /\ UNCHANGED <<hash, key, used>>
            BY <1>2 DEF UpdateUser
        <2> HIDE DEF pc
        <2>3. /\ call' \in [Slots -> Call \cup {Idle}] /\ call'[s].pc = pc
              /\ \A t \in Slots \ {s} : call'[t] = call[t]
            BY <1>0, <2>1, <2>2, Going DEF Steps, InTransaction
        <2>4. TypeOK'
            BY <1>0, <1>t, <2>2, <2>3, Typed DEF TypeOK
        <2>5. Knows(s)'
            BY <2>1, <2>3 DEF Knows
        <2> QED
            BY <2>2, <2>3, <2>4, <2>5, StepKeeps
    <1>3. CASE Commit(s)
        <2>1. hash' \in Secrets /\ used' \subseteq Tokens /\ End(s) /\ key' = key
            BY <1>3, <1>c, <1>t DEF Commit, Call
        <2> QED
            BY <1>0, <1>t, <2>1, GivingUp
    <1>4. CASE ChangeRead(s) \/ RecoverRead(s)
        <2>1. /\ UNCHANGED <<hash, key, used>> /\ call[s].pc \in Holding
              /\ End(s) \/ (Active /\ Goto(s, "rewrap") /\ UNCHANGED locked)
            BY <1>4 DEF ChangeRead, RecoverRead, At, Holding, InTransaction
        <2>2. CASE End(s)
            BY <1>0, <1>t, <2>1, <2>2, GivingUp
        <2>3. CASE Active /\ Goto(s, "rewrap") /\ UNCHANGED locked
            <3>1. Active'
                BY <2>1, <2>3 DEF Active
            <3> QED
                BY <1>0, <1>t, <2>1, <2>3, <3>1, GoingOn DEF Steps, InTransaction
        <2> QED
            BY <2>1, <2>2, <2>3
    <1>5. CASE Rewrap(s)
        <2>1. /\ call[s].pc = "rewrap" /\ Goto(s, "commit") /\ UNCHANGED <<hash, used, locked>>
              /\ key' = [key EXCEPT !.wrap = call[s].new] /\ key.status = "active"
            BY <1>0, <1>5 DEF Rewrap, At, Knows, Active
        <2>2. key \in Key
            BY <1>t, <2>1 DEF NoKey
        <2>3. key' \in Key /\ Active' /\ key'.wrap = call[s].new
            BY <1>c, <2>1, <2>2 DEF Key, Active
        <2> QED
            BY <1>0, <1>t, <2>1, <2>3, GoingOn DEF Steps, InTransaction, Holding
    <1>6. CASE RotateRead(s) \/ StoreVersion(s)
        <2> DEFINE pc == call'[s].pc
        <2>1. /\ UNCHANGED <<hash, key, used, locked>> /\ call[s].pc \in {"rotate.read", "store.version"}
              /\ \/ Goto(s, "rotate.mark") \/ Goto(s, "store.deactivate")
                 \/ call[s].pc = "store.version" /\ Goto(s, "store.insert")
            BY <1>6 DEF RotateRead, StoreVersion, At
        <2>2. Active' = Active
            BY <2>1 DEF Active
        <2> QED
            BY <1>0, <1>t, <2>1, <2>2, GoingOn DEF Knows, Steps, InTransaction, Holding
    <1>7. CASE RotateMark(s)
        <2>1. key' \in Key \cup {NoKey}
            BY <1>t, <1>7 DEF RotateMark, Key, NoKey, Secrets
        <2> QED
            BY <1>0, <1>t, <1>7, <2>1, GoingOn DEF RotateMark, At, Steps, InTransaction, Holding
    <1>8. CASE StoreDeactivate(s)
        <2>1. key' \in Key \cup {NoKey} /\ ~Active'
            BY <1>t, <1>8 DEF StoreDeactivate, Key, NoKey, Active
        <2> QED
            BY <1>0, <1>t, <1>8, <2>1, GoingOn DEF StoreDeactivate, At, Steps, InTransaction, Holding
    <1>9. CASE StoreInsert(s)
        <2>1. key' \in Key /\ call[s].kind \notin {"change", "recover"}
            BY <1>c, <1>9 DEF StoreInsert, Key
        <2> QED
            BY <1>0, <1>t, <1>9, <2>1, GoingOn DEF StoreInsert, At, Steps, InTransaction, Holding
    <1>10. CASE StoreRefused(s)
        <2>1. CASE call[s].kind = "reset" /\ Goto(s, "commit") /\ UNCHANGED locked
            BY <1>0, <1>t, <1>10, <2>1, GoingOn DEF StoreRefused, At, Steps, InTransaction, Holding
        <2>2. CASE End(s)
            BY <1>0, <1>t, <1>10, <2>2, GivingUp DEF StoreRefused
        <2> QED
            BY <1>10, <2>1, <2>2 DEF StoreRefused
    <1> QED
        BY <1>1, <1>2, <1>3, <1>4, <1>5, <1>6, <1>7, <1>8, <1>9, <1>10 DEF Step

LEMMA Failing ==
    ASSUME KeyInv, NEW s \in Slots, Fault(s), faults' \in 0..MaxFaults, starved' \in BOOLEAN,
           pool' = pool
    PROVE  KeyInv'
    <1>1. UNCHANGED <<hash, verified, key, used, calls>> /\ TypeOK
        BY DEF Fault, KeyInv
    <1>t. key \in Key \cup {NoKey} /\ hash \in Secrets /\ used \subseteq Tokens
        BY <1>1 DEF TypeOK
    <1>2. CASE call[s].pc = "rotate.read" /\ Goto(s, "store.deactivate") /\ UNCHANGED locked
        BY <1>1, <1>2, <1>t, GoingOn DEF Steps, InTransaction, Holding
    <1>3. CASE call[s].kind = "reset" /\ call[s].pc \in Rotating /\ Goto(s, "commit") /\ UNCHANGED locked
        BY <1>1, <1>3, <1>t, GoingOn DEF Steps, InTransaction, Holding, Rotating
    <1>4. CASE End(s)
        BY <1>1, <1>4, <1>t, GivingUp
    <1> QED
        BY <1>2, <1>3, <1>4 DEF Fault

LEMMA Crashing ==
    ASSUME KeyInv, Crash
    PROVE  KeyInv'
    <1>1. \A t \in Slots : call'[t].pc = "idle"
        BY DEF Crash, Idle
    <1>2. /\ UNCHANGED <<hash, verified, key, used, calls, starved, pool>>
          /\ call' = [s \in Slots |-> Idle] /\ locked' = {}
        BY DEF Crash
    <1>3. faults' \in 0..MaxFaults
        BY BoundsAssumption DEF KeyInv, TypeOK, Crash
    <1>4. TypeOK'
        BY <1>2, <1>3, Typed DEF KeyInv, TypeOK
    <1> QED
        BY <1>1, <1>4 DEF KeyInv, Alone, Knows, Holding, InTransaction

LEMMA KeyStepKept == KeyInv /\ [Next]_vars => KeyInv'
    <1> SUFFICES ASSUME KeyInv, [Next]_vars PROVE KeyInv'
        OBVIOUS
    <1>1. CASE UNCHANGED vars
        BY <1>1 DEF vars, KeyInv, TypeOK, Alone, Knows, Active
    <1>2. ASSUME NEW s \in Slots, NEW new \in Passwords,
                 \/ \E old \in Passwords : ChangePassword(s, old, new)
                 \/ \E t \in Tokens : ResetPassword(s, t, new)
                 \/ AdminRecover(s, new) \/ Register(s, new)
          PROVE  KeyInv'
        <2>1. \A old \in Passwords : old \in Secrets /\ NoPassword \in Secrets
            BY DEF Secrets
        <2>2. \E kind \in AllKinds, old \in Secrets, token \in SUBSET Tokens :
                  Start(s, kind, old, new, token)
            <3>1. CASE \E old \in Passwords : ChangePassword(s, old, new)
                BY <2>1, <3>1 DEF ChangePassword, AllKinds
            <3>2. CASE \E t \in Tokens : ResetPassword(s, t, new)
                <4>1. PICK t \in Tokens : Start(s, "reset", NoPassword, new, {t})
                    BY <3>2 DEF ResetPassword
                <4> QED
                    BY <4>1 DEF AllKinds, Secrets
            <3>3. CASE AdminRecover(s, new) \/ Register(s, new)
                <4>1. {} \in SUBSET Tokens /\ NoPassword \in Secrets
                    BY DEF Secrets
                <4> QED
                    BY <3>3, <4>1 DEF AdminRecover, Register, AllKinds
            <3> QED
                BY <1>2, <3>1, <3>2, <3>3
        <2> QED
            BY <2>2, Calling
    <1>3. CASE VerifyRegistration
        BY <1>3, Typed DEF VerifyRegistration, KeyInv, TypeOK, Alone, Knows, Active
    <1>4. ASSUME NEW s \in Slots, StrayFault(s) PROVE KeyInv'
        <2>1. faults' \in 0..MaxFaults /\ starved' = starved /\ pool' = pool
            BY <1>4, BoundsAssumption DEF StrayFault, KeyInv, TypeOK
        <2>2. starved' \in BOOLEAN
            BY <2>1 DEF KeyInv, TypeOK
        <2> QED
            BY <1>4, <2>1, <2>2, Failing DEF StrayFault
    <1>5. ASSUME NEW s \in Slots, Timeout(s) PROVE KeyInv'
        BY <1>5, Failing DEF Timeout, KeyInv, TypeOK
    <1> QED
        BY <1>1, <1>2, <1>3, <1>4, <1>5, StepPreserves, Crashing DEF Next

\* Type correctness: Spec => []TypeOK.
THEOREM TypeCorrect == Spec => []TypeOK
    <1>1. KeyInv => TypeOK
        BY DEF KeyInv
    <1> QED
        BY <1>1, KeyInit, KeyStepKept, PTL DEF Spec

-----------------------------------------------------------------------------
\* A slot at its COMMIT that ends: by the COMMIT, or by a failure that leaves the
\* key as it was.
LEMMA EndsWithItsKey ==
    ASSUME KeyInv, [Next]_vars, NEW s \in Slots, Committing(s),
           call[s].kind \in {"change", "recover"}
    PROVE  key'.status = "active" /\ key'.wrap = hash'
    <1>1. At(s, "commit") /\ call'[s].pc = "idle" /\ hash' = call[s].new
        BY DEF Committing, Idle
    <1>2. Active /\ key.wrap = call[s].new /\ call[s].pc = "commit"
        BY <1>1 DEF KeyInv, Knows, At
    <1>3. \A t \in Slots \ {s} : call[t].pc \notin KeySteps
        BY <1>2 DEF KeyInv, Alone, Holding, KeySteps, InTransaction
    <1>4. ASSUME NEW t \in Slots, Step(t) PROVE key' = key
        BY <1>2, <1>3, <1>4 DEF Step, Begin, UpdateUser, Commit, ChangeRead, RecoverRead, Rewrap, RotateRead,
           RotateMark, StoreDeactivate, StoreVersion, StoreInsert, StoreRefused, At, KeySteps, Holding,
           InTransaction
    <1>5. key' = key
        BY <1>4 DEF Next, vars, ChangePassword, ResetPassword, AdminRecover, Register, Start,
           VerifyRegistration, StrayFault, Timeout, Fault, Crash
    <1> QED
        BY <1>1, <1>2, <1>5 DEF Active

\* KeyFollowsPassword: whatever fails, and however many calls overlap, a changed or
\* recovered password is committed with an active key that opens with it.
THEOREM KeyFollows == Spec => KeyFollowsPassword
    <1>1. KeyInv /\ [Next]_vars =>
              [\A s \in Slots : Committing(s) /\ call[s].kind \in {"change", "recover"} =>
                   key'.status = "active" /\ key'.wrap = hash']_vars
        BY EndsWithItsKey
    <1> QED
        BY <1>1, KeyInit, KeyStepKept, PTL DEF Spec, KeyFollowsPassword

-----------------------------------------------------------------------------
\* As long as nothing failed and nobody had to wait too long, an active key opens
\* with the user's password until a call has written it, and then with the password
\* of that call, which goes on to its COMMIT.
Opens ==
    /\ Active /\ (\A s \in Slots : call[s].pc # "commit") => key.wrap = hash
    /\ \A s \in Slots : call[s].pc = "commit" /\ Active => key.wrap = call[s].new
OpensUnlessFault == Clean => Opens

\* A step that writes neither key nor password, or retires the key.
LEMMA Untouched ==
    ASSUME Opens, NEW s \in Slots, \A t \in Slots \ {s} : call'[t] = call[t],
           hash' = hash, key' = key \/ ~Active',
           call[s].pc # "commit", call'[s].pc # "commit" \/ ~Active'
    PROVE  Opens'
    BY DEF Opens, Active

\* A call that goes on to its COMMIT with the key under its password.
LEMMA Written ==
    ASSUME Alone', NEW s \in Slots, call'[s].pc = "commit", key'.wrap = call'[s].new
    PROVE  Opens'
    <1>1. \A t \in Slots : call'[t].pc = "commit" => t = s
        BY DEF Alone, Holding, InTransaction
    <1> QED
        BY <1>1 DEF Opens

LEMMA OpensStep ==
    ASSUME KeyInv, KeyInv', Opens, NEW s \in Slots, Step(s)
    PROVE  Opens'
    <1>0. TypeOK /\ Alone /\ Alone' /\ Knows(s) /\ call[s].pc \in Steps
        BY DEF KeyInv, Step, Begin, UpdateUser, Commit, ChangeRead, RecoverRead, Rewrap, RotateRead,
           RotateMark, StoreDeactivate, StoreVersion, StoreInsert, StoreRefused, At, Steps, InTransaction
    <1>c. call[s].kind \in AllKinds
        BY <1>0, CallShape DEF Call
    <1>1. ASSUME NEW pc \in Steps \ {"commit"}, Goto(s, pc), call[s].pc # "commit", hash' = hash,
                 key' = key \/ ~Active'
          PROVE  Opens'
        BY <1>0, <1>1, Going, Untouched
    <1>2. ASSUME End(s), call[s].pc # "commit", hash' = hash, key' = key
          PROVE  Opens'
        BY <1>0, <1>2, Ending, Untouched
    <1>3. CASE Begin(s) \/ UpdateUser(s)
        <2>1. KeyStep(call[s].kind) \in Steps \ {"commit"}
            BY <1>c DEF KeyStep, AllKinds, Steps, InTransaction
        <2> QED
            BY <1>1, <1>3, <2>1 DEF Begin, UpdateUser, At, Steps, InTransaction
    <1>4. CASE Commit(s)
        <2>1. /\ call[s].pc = "commit" /\ hash' = call[s].new /\ key' = key
              /\ call'[s].pc = "idle" /\ \A t \in Slots \ {s} : call'[t] = call[t]
            BY <1>0, <1>4, Ending DEF Commit, At
        <2>2. \A t \in Slots : call'[t].pc # "commit"
            BY <1>0, <2>1 DEF Alone, Holding, InTransaction
        <2> QED
            BY <2>1, <2>2 DEF Opens, Active
    <1>5. CASE ChangeRead(s) \/ RecoverRead(s) \/ RotateRead(s) \/ StoreVersion(s)
        BY <1>1, <1>2, <1>5 DEF ChangeRead, RecoverRead, RotateRead, StoreVersion, At, Steps, InTransaction
    <1>6. CASE Rewrap(s)
        <2>1. call[s].pc = "rewrap" /\ Goto(s, "commit") /\ key' = [key EXCEPT !.wrap = call[s].new]
              /\ key.status = "active"
            BY <1>0, <1>6 DEF Rewrap, At, Knows, Active
        <2>2. key \in Key
            BY <1>0, <2>1 DEF TypeOK, NoKey
        <2>3. key'.wrap = call[s].new
            BY <2>1, <2>2 DEF Key
        <2>4. call'[s].pc = "commit" /\ call'[s].new = call[s].new
            BY <1>0, <2>1, Going DEF Steps, InTransaction
        <2> QED
            BY <1>0, <2>3, <2>4, Written
    <1>7. CASE RotateMark(s) \/ StoreDeactivate(s)
        <2>1. key' = key \/ ~Active'
            BY <1>0, <1>7 DEF RotateMark, StoreDeactivate, TypeOK, Key, NoKey, Active
        <2> QED
            BY <1>1, <1>7, <2>1 DEF RotateMark, StoreDeactivate, At, Steps, InTransaction
    <1>8. CASE StoreInsert(s)
        <2>1. call'[s].pc = "commit" /\ call'[s].new = call[s].new
            BY <1>0, <1>8, Going DEF StoreInsert, Steps, InTransaction
        <2>2. key'.wrap = call[s].new
            BY <1>8 DEF StoreInsert
        <2> QED
            BY <1>0, <2>1, <2>2, Written
    <1>9. CASE StoreRefused(s)
        <2>1. ~Active' /\ hash' = hash /\ key' = key /\ call[s].pc = "store.insert"
            BY <1>0, <1>9 DEF StoreRefused, Knows, At, Active
        <2>2. CASE End(s)
            BY <1>2, <2>1, <2>2
        <2>3. CASE Goto(s, "commit")
            <3>1. \A t \in Slots \ {s} : call'[t] = call[t]
                BY <1>0, <2>3, Going DEF Steps, InTransaction
            <3> QED
                BY <2>1, <3>1, Untouched
        <2> QED
            BY <1>9, <2>2, <2>3 DEF StoreRefused
    <1> QED
        BY <1>3, <1>4, <1>5, <1>6, <1>7, <1>8, <1>9 DEF Step

LEMMA OpensKept ==
    KeyInv /\ KeyInv' /\ OpensUnlessFault /\ [Next]_vars => OpensUnlessFault'
    <1> SUFFICES ASSUME KeyInv, KeyInv', OpensUnlessFault, [Next]_vars, Clean'
                 PROVE  Opens'
        BY DEF OpensUnlessFault
    <1>0. faults \in Nat
        BY BoundsAssumption DEF KeyInv, TypeOK
    <1>1. Clean /\ ~Crash /\ \A s \in Slots : ~StrayFault(s) /\ ~Timeout(s)
        <2>1. ~Crash /\ \A s \in Slots : ~StrayFault(s)
            BY <1>0 DEF Clean, Crash, StrayFault
        <2>2. \A s \in Slots : ~Timeout(s)
            BY DEF Clean, Timeout
        <2>3. faults' = faults /\ starved' = starved
            BY <2>1, <2>2 DEF Next, vars, ChangePassword, ResetPassword, AdminRecover, Register, Start,
                VerifyRegistration, Step, Begin, UpdateUser, Commit, ChangeRead, RecoverRead, Rewrap,
                RotateRead, RotateMark, StoreDeactivate, StoreVersion, StoreInsert, StoreRefused
        <2> QED
            BY <2>1, <2>2, <2>3 DEF Clean
    <1>2. Opens
        BY <1>1 DEF OpensUnlessFault
    <1>3. ASSUME NEW s \in Slots, NEW kind, NEW old, NEW new, NEW token, Start(s, kind, old, new, token)
          PROVE  Opens'
        <2>1. key' = key /\ hash' = hash /\ call[s].pc = "idle" /\ call'[s].pc = "begin"
              /\ \A t \in Slots \ {s} : call'[t] = call[t]
            BY <1>3 DEF Start, Idle, KeyInv, TypeOK
        <2> QED
            BY <1>2, <2>1, Untouched
    <1>4. CASE UNCHANGED vars \/ VerifyRegistration
        BY <1>2, <1>4 DEF vars, VerifyRegistration, Opens, Active
    <1> QED
        BY <1>1, <1>2, <1>3, <1>4, OpensStep
        DEF Next, ChangePassword, ResetPassword, AdminRecover, Register

\* KeyOpensUnlessFault: between calls an active key opens with the password of
\* the user, as long as no statement failed and no call was starved of a connection.
THEOREM KeyStaysOpen == Spec => []KeyOpensUnlessFault
    <1>1. Init => OpensUnlessFault
        BY DEF Init, Idle, OpensUnlessFault, Opens, Active, NoKey
    <1>2. OpensUnlessFault => KeyOpensUnlessFault
        BY DEF OpensUnlessFault, Opens, KeyOpensUnlessFault, Quiet, Idle
    <1> QED
        BY <1>1, <1>2, OpensKept, KeyInit, KeyStepKept, PTL DEF Spec
=============================================================================
