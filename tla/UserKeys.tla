------------------------------ MODULE UserKeys ------------------------------
(***************************************************************************)
(* A user's password and encryption key.  changePassword, resetPassword,   *)
(* adminRecoverUserAccount and the re-registration of an unverified user   *)
(* update users.password_hash in a transaction, and inside its callback    *)
(* let EnhancedEncryptionService rewrite user_encryption_keys through the  *)
(* pool: on other connections, each statement committed by itself.  What   *)
(* serialises the key statements of two calls is the row lock that the     *)
(* UPDATE of users holds until its transaction ends; every call that is    *)
(* inside needs a second connection of the pool to go on.                  *)
(*                                                                         *)
(* user_id is UNIQUE in user_encryption_keys: who has a row, active or     *)
(* not, gets no other, and storeUserEncryptionKey deactivates the row it   *)
(* has before the INSERT of another is refused.                            *)
(***************************************************************************)
EXTENDS Integers, FiniteSets

CONSTANTS
    Passwords,
    NoPassword,  \* social login: no hash, keys under a random password
    Tokens,      \* reset tokens requestPasswordReset may issue
    Kinds,       \* the calls made
    Slots,       \* calls in flight at once
    PoolSizes,   \* sizes of the pool considered
    MaxCalls,    \* bound: calls in a behaviour
    MaxFaults    \* bound: statements that fail, time out or lose their process

ASSUME PasswordsAssumption == NoPassword \notin Passwords
ASSUME PoolAssumption == PoolSizes \subseteq Nat \ {0}
ASSUME BoundsAssumption == MaxCalls \in Nat /\ MaxFaults \in Nat

VARIABLES
    hash,      \* the password users.password_hash stands for, as committed
    verified,  \* is email_verified_at set
    key,       \* the user's row of user_encryption_keys
    used,      \* reset tokens with used_at set, as committed
    locked,    \* slots (at most one) that hold the lock on the users row
    call,      \* the calls in flight
    calls,     \* calls started so far
    faults,
    starved,   \* history: has a call timed out for want of a connection
    pool       \* connections of the pool

vars == <<hash, verified, key, used, locked, call, calls, faults, starved, pool>>

-----------------------------------------------------------------------------
Secrets == Passwords \cup {NoPassword}
AllKinds == {"change", "reset", "recover", "register"}
InTransaction == {"update", "change.read", "recover.read", "rewrap",
                  "rotate.read", "rotate.mark", "store.deactivate", "store.version",
                  "store.insert", "commit"}
Steps == {"begin"} \cup InTransaction

\* A row, its private key under password wrap; users whom an invitation created
\* have none.
Key == [status : {"active", "inactive", "rotated"}, wrap : Secrets]
NoKey == [status |-> "none", wrap |-> NoPassword]
Active == key.status = "active"

Idle == [pc |-> "idle"]
Call == [pc : Steps, kind : AllKinds, old : Secrets, new : Passwords, token : SUBSET Tokens]

TypeOK ==
    /\ hash \in Secrets
    /\ verified \in BOOLEAN
    /\ key \in Key \cup {NoKey}
    /\ used \subseteq Tokens
    /\ locked \subseteq Slots
    /\ call \in [Slots -> Call \cup {Idle}]
    /\ calls \in 0..MaxCalls
    /\ faults \in 0..MaxFaults
    /\ starved \in BOOLEAN
    /\ pool \in PoolSizes

Init ==
    /\ hash \in Secrets
    /\ verified \in BOOLEAN
    /\ hash = NoPassword => verified
    /\ \/ key = [status |-> "active", wrap |-> hash]
       \/ key = NoKey /\ verified
    /\ used = {}
    /\ locked = {}
    /\ call = [s \in Slots |-> Idle]
    /\ calls = 0
    /\ faults = 0
    /\ starved = FALSE
    /\ pool \in PoolSizes

-----------------------------------------------------------------------------
\* The pool: a transaction keeps its connection, a query needs one for a while.
Taken == {s \in Slots : call[s].pc \in InTransaction}
Connection == Cardinality(Taken) < pool

At(s, pc) == call[s] # Idle /\ call[s].pc = pc
Goto(s, pc) == call' = [call EXCEPT ![s].pc = pc]
EndHolding(s) == call' = [call EXCEPT ![s] = Idle] /\ locked' = locked \* mutant: the lock stays
End(s) == call' = [call EXCEPT ![s] = Idle] /\ locked' = locked \ {s}

Start(s, kind, old, new, token) ==
    /\ call[s] = Idle
    /\ kind \in Kinds
    /\ calls < MaxCalls
    /\ Connection
    /\ calls' = calls + 1
    /\ call' = [call EXCEPT ![s] = [pc |-> "begin", kind |-> kind, old |-> old, new |-> new,
                                    token |-> token]]
    /\ UNCHANGED <<hash, verified, key, used, locked, faults, starved, pool>>

\* What each handler reads before its transaction.
ChangePassword(s, old, new) ==
    /\ hash = old
    /\ verified
    /\ Start(s, "change", old, new, {})

ResetPassword(s, t, new) ==
    /\ t \notin used
    /\ verified
    /\ Start(s, "reset", NoPassword, new, {t})

AdminRecover(s, new) == Start(s, "recover", NoPassword, new, {})

Register(s, new) ==
    /\ ~verified
    /\ Start(s, "register", NoPassword, new, {})

VerifyRegistration ==
    /\ ~verified
    /\ Connection
    /\ verified' = TRUE
    /\ UNCHANGED <<hash, key, used, locked, call, calls, faults, starved, pool>>

-----------------------------------------------------------------------------
Begin(s) ==
    /\ At(s, "begin")
    /\ Connection
    /\ Goto(s, "update")
    /\ UNCHANGED <<hash, verified, key, used, locked, calls, faults, starved, pool>>

KeyStep(kind) ==
    CASE kind = "change"   -> "change.read"
      [] kind = "recover"  -> "recover.read"
      [] kind = "reset"    -> "rotate.read"
      [] kind = "register" -> "store.deactivate"

\* Mutant: UPDATE users waits for nobody.
UpdateUserAtOnce(s) ==
    /\ At(s, "update")
    /\ locked' = locked \cup {s}
    /\ Goto(s, KeyStep(call[s].kind))
    /\ UNCHANGED <<hash, verified, key, used, calls, faults, starved, pool>>

\* UPDATE users waits for whoever holds the row.
UpdateUser(s) ==
    /\ At(s, "update")
    /\ locked = {}
    /\ locked' = {s}
    /\ Goto(s, KeyStep(call[s].kind))
    /\ UNCHANGED <<hash, verified, key, used, calls, faults, starved, pool>>

\* COMMIT makes the password, and the token's used_at, visible.
Commit(s) ==
    /\ At(s, "commit")
    /\ hash' = call[s].new
    /\ used' = used \cup call[s].token
    /\ End(s)
    /\ UNCHANGED <<verified, key, calls, faults, starved, pool>>

-----------------------------------------------------------------------------
\* changeUserPassword: the active key, decrypted with the old password.  Without
\* one, or with another password on it, the transaction rolls back.
ChangeRead(s) ==
    /\ At(s, "change.read")
    /\ Connection
    /\ \/ Active /\ key.wrap = call[s].old /\ Goto(s, "rewrap") /\ UNCHANGED locked
       \/ ~(Active /\ key.wrap = call[s].old) /\ End(s)
    /\ UNCHANGED <<hash, verified, key, used, calls, faults, starved, pool>>

\* recoverUserAccess: the backup of the active row, opened with the master key.
RecoverRead(s) ==
    /\ At(s, "recover.read")
    /\ Connection
    /\ \/ Active /\ Goto(s, "rewrap") /\ UNCHANGED locked
       \/ ~Active /\ End(s)
    /\ UNCHANGED <<hash, verified, key, used, calls, faults, starved, pool>>

\* Both write the private key they have read to the row, if it is active still.
Rewrap(s) ==
    /\ At(s, "rewrap")
    /\ Connection
    /\ key' = IF Active THEN [key EXCEPT !.wrap = call[s].new] ELSE key
    /\ Goto(s, "commit")
    /\ UNCHANGED <<hash, verified, used, locked, calls, faults, starved, pool>>

-----------------------------------------------------------------------------
\* rotateUserKey: the current key is marked rotated before the new one is stored.
RotateRead(s) ==
    /\ At(s, "rotate.read")
    /\ Connection
    /\ Goto(s, IF Active THEN "rotate.mark" ELSE "store.deactivate")
    /\ UNCHANGED <<hash, verified, key, used, locked, calls, faults, starved, pool>>

RotateMark(s) ==
    /\ At(s, "rotate.mark")
    /\ Connection
    /\ key' = [key EXCEPT !.status = "rotated"]
    /\ Goto(s, "store.deactivate")
    /\ UNCHANGED <<hash, verified, used, locked, calls, faults, starved, pool>>

\* storeUserEncryptionKey: three statements, of which the second reads a number.
StoreDeactivate(s) ==
    /\ At(s, "store.deactivate")
    /\ Connection
    /\ key' = IF Active THEN [key EXCEPT !.status = "inactive"] ELSE key
    /\ Goto(s, "store.version")
    /\ UNCHANGED <<hash, verified, used, locked, calls, faults, starved, pool>>

StoreVersion(s) ==
    /\ At(s, "store.version")
    /\ Connection
    /\ Goto(s, "store.insert")
    /\ UNCHANGED <<hash, verified, key, used, locked, calls, faults, starved, pool>>

\* Who has no row yet is verified, and here to reset the password.
StoreInsert(s) ==
    /\ At(s, "store.insert")
    /\ Connection
    /\ key = NoKey
    /\ call[s].kind = "reset"
    /\ key' = [status |-> "active", wrap |-> call[s].new]
    /\ Goto(s, "commit")
    /\ UNCHANGED <<hash, verified, used, locked, calls, faults, starved, pool>>

\* UNIQUE(user_id): resetPassword swallows the refusal and goes on, register rolls
\* back.  What was done to the row stays.
StoreRefused(s) ==
    /\ At(s, "store.insert")
    /\ Connection
    /\ key # NoKey
    /\ \/ call[s].kind = "reset" /\ Goto(s, "commit") /\ UNCHANGED locked
       \/ call[s].kind # "reset" /\ End(s)
    /\ UNCHANGED <<hash, verified, key, used, calls, faults, starved, pool>>

-----------------------------------------------------------------------------
Rotating == {"rotate.mark", "store.deactivate", "store.version", "store.insert"}

\* A statement, or the wait for a connection or for the row, fails or times
\* out.  resetPassword swallows what rotateUserKey throws, getUserActiveKey
\* takes its own failure for "no key"; otherwise the transaction is rolled
\* back, the key statements are not.
Fault(s) ==
    /\ call[s] # Idle
    /\ \/ /\ call[s].pc = "rotate.read"
          /\ Goto(s, "store.deactivate")
          /\ UNCHANGED locked
       \/ /\ call[s].kind = "reset" /\ call[s].pc \in Rotating
          /\ Goto(s, "commit")
          /\ UNCHANGED locked
       \/ /\ ~(call[s].kind = "reset" /\ call[s].pc \in Rotating \cup {"rotate.read"})
          /\ End(s)
    /\ UNCHANGED <<hash, verified, key, used, calls>>

StrayFault(s) ==
    /\ faults < MaxFaults
    /\ faults' = faults + 1
    /\ Fault(s)
    /\ UNCHANGED <<starved, pool>>

\* The process dies: the server rolls the transaction back.
Crash ==
    /\ faults < MaxFaults
    /\ faults' = faults + 1
    /\ call' = [s \in Slots |-> Idle]
    /\ locked' = {}
    /\ UNCHANGED <<hash, verified, key, used, calls, starved, pool>>

\* acquireTimeoutMillis, requestTimeout: whoever waits longest gives up when
\* nobody can move; not a stray fault, so not bounded.
Stuck == /\ \E s \in Slots : call[s] # Idle
         /\ ~Connection
         /\ \A s \in Slots : ~At(s, "commit") /\ ~(At(s, "update") /\ locked = {})

Timeout(s) ==
    /\ Stuck
    /\ Fault(s)
    /\ starved' = TRUE
    /\ UNCHANGED <<faults, pool>>

Step(s) ==
    \/ Begin(s) \/ UpdateUser(s) \/ Commit(s)
    \/ ChangeRead(s) \/ RecoverRead(s) \/ Rewrap(s)
    \/ RotateRead(s) \/ RotateMark(s)
    \/ StoreDeactivate(s) \/ StoreVersion(s) \/ StoreInsert(s) \/ StoreRefused(s)

Next ==
    \/ \E s \in Slots, new \in Passwords :
           \/ \E old \in Passwords : ChangePassword(s, old, new)
           \/ \E t \in Tokens : ResetPassword(s, t, new)
           \/ AdminRecover(s, new)
           \/ Register(s, new)
    \/ VerifyRegistration
    \/ \E s \in Slots : Step(s) \/ StrayFault(s) \/ Timeout(s)
    \/ Crash

Spec == Init /\ [][Next]_vars

\* Waits are bounded (acquireTimeoutMillis, requestTimeout), statements answer.
Fairness ==
    \A s \in Slots : WF_vars(Step(s)) /\ WF_vars(Timeout(s))

FairSpec == Spec /\ Fairness

-----------------------------------------------------------------------------
Quiet == \A s \in Slots : call[s] = Idle
Clean == faults = 0 /\ ~starved

\* A password that is changed or recovered takes the key with it, whatever fails: in
\* the step that commits it there is an active key, and it opens with that password.
\* The statements on the key are not part of the transaction; only the lock on the
\* users row keeps a second call from retiring or rewrapping the key in between.
Committing(s) == At(s, "commit") /\ call'[s] = Idle /\ hash' = call[s].new
KeyFollowsPassword ==
    [][\A s \in Slots : Committing(s) /\ call[s].kind \in {"change", "recover"} =>
            key'.status = "active" /\ key'.wrap = hash']_vars

\* Between calls an active key opens with the user's password, as long as no
\* statement failed and the pool had a connection for everybody.
KeyOpensUnlessFault == Quiet /\ Clean /\ Active => key.wrap = hash

\* "Rotate encryption keys with new password": after a reset the user has an active
\* key under the new password, if no statement failed (resetPassword).
ResetRotates == Quiet /\ Clean /\ used # {} => Active /\ key.wrap = hash

\* Every call ends, even when the transactions have taken all connections and
\* the one with the lock cannot get a second: something times out.
EveryCallEnds == \A s \in Slots : call[s] # Idle ~> call[s] = Idle
=============================================================================
