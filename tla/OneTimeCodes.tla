---------------------------- MODULE OneTimeCodes ----------------------------
(***************************************************************************)
(* What may be used once: the codes that VerificationService mails to an   *)
(* address, with their limit of wrong guesses; the PKCE verifiers that     *)
(* PkceService keeps in Redis, or in memory, between the two halves of a   *)
(* Microsoft login; and the tokens that reset a password.  All three are   *)
(* read in one step and spent in another.                                  *)
(***************************************************************************)
EXTENDS Naturals, FiniteSets

CONSTANTS
    CodeIds,      \* ids the verification_codes table may hand out
    Values,       \* what a code may read; two may be the same
    Verifiers,    \* PKCE states
    Resets,       \* password reset tokens
    Slots,        \* requests in flight at once
    MaxAttempts,  \* verification_codes.max_attempts (5)
    None,
    MaxCalls,     \* bound: requests that are made
    MaxFaults     \* bound: requests that break off, failures of Redis

ASSUME AttemptsAssumption == MaxAttempts \in Nat \ {0}
ASSUME BoundsAssumption == MaxCalls \in Nat /\ MaxFaults \in Nat

VARIABLES
    code,      \* code[i]: the verification_codes row
    registered,  \* users has a row for the address
    verified,    \* ... and its email_verified_at IS NOT NULL
    crossed,   \* history: requests for a code that overlapped another
    stray,     \* history: the codes they sent
    doubled,   \* history: codes that overlapping guesses found unused
    client,    \* RedisService has a client
    redis,     \* ... and it is connected
    kept,      \* kept[v]: where the verifier is
    given,     \* history: given[v]: how often it was handed out
    shared,    \* history: verifiers that overlapping callbacks found
    reset,     \* reset[r]: the password_reset_tokens row
    resets,    \* history: resets[r]: how often it has changed the password
    met,       \* history: tokens that overlapping resets found unused
    call, calls, faults

codeVars == <<code, registered, verified, crossed, stray, doubled>>
pkceVars == <<client, redis, kept, given, shared>>
resetVars == <<reset, resets, met>>
vars == <<codeVars, pkceVars, resetVars, call, calls, faults>>

-----------------------------------------------------------------------------
Code == [value : Values, attempts : Nat, used : BOOLEAN, ended : BOOLEAN,
         lost : BOOLEAN,   \* user_id names a user whose INSERT was rolled back
         wrong : Nat,      \* history: wrong guesses answered since it is there
         accepted : Nat]   \* history: guesses accepted
NoCode == [value |-> None]

Idle == [pc |-> "idle"]
Send == [pc : {"send.delete", "send.insert", "register.user", "register.code", "register.again"}]
Mail == [pc : {"register.mail"}, id : CodeIds]
Wrong == [pc : {"verify.count"}, guess : Values, saw : SUBSET CodeIds]
Use == [pc : {"verify.use", "verify.user"}, id : CodeIds, value : Values, wrong : Nat]
Fetch == [pc : {"pkce.del"}, of : Verifiers]
Reset == [pc : {"reset.write"}, token : Resets]

TypeOK ==
    /\ code \in [CodeIds -> Code \cup {NoCode}]
    /\ registered \in BOOLEAN /\ verified \in BOOLEAN
    /\ crossed \subseteq Slots /\ stray \subseteq CodeIds /\ doubled \subseteq CodeIds
    /\ client \in BOOLEAN /\ redis \in BOOLEAN /\ (redis => client)
    /\ kept \in [Verifiers -> {"unknown", "redis", "memory", "gone"}]
    /\ given \in [Verifiers -> Nat] /\ shared \subseteq Verifiers
    /\ reset \in [Resets -> {"unknown", "open", "ended", "used"}]
    /\ resets \in [Resets -> Nat] /\ met \subseteq Resets
    /\ call \in [Slots -> Send \cup Mail \cup Wrong \cup Use \cup Fetch \cup Reset \cup {Idle}]
    /\ calls \in 0..MaxCalls /\ faults \in 0..MaxFaults

\* The address is new, or it was registered and the registration repeated: no
\* code is there.  Without REDIS_ENABLED, or when the first connection fails,
\* there is no client.
Init ==
    /\ code = [i \in CodeIds |-> NoCode]
    /\ registered \in BOOLEAN /\ verified = FALSE
    /\ crossed = {} /\ stray = {} /\ doubled = {}
    /\ client \in BOOLEAN /\ redis = client
    /\ kept = [v \in Verifiers |-> "unknown"] /\ given = [v \in Verifiers |-> 0]
    /\ shared = {}
    /\ reset = [r \in Resets |-> "unknown"] /\ resets = [r \in Resets |-> 0] /\ met = {}
    /\ call = [s \in Slots |-> Idle]
    /\ calls = 0 /\ faults = 0

At(s, pc) == call[s].pc = pc
Goto(s, pc) == call' = [call EXCEPT ![s].pc = pc]
Done(s) == call' = [call EXCEPT ![s] = Idle]
Counters == <<calls, faults>>

Begin(s, c) ==
    /\ call[s] = Idle
    /\ calls < MaxCalls
    /\ call' = [call EXCEPT ![s] = c]
    /\ calls' = calls + 1
    /\ UNCHANGED faults

-----------------------------------------------------------------------------
Unused == {i \in CodeIds : code[i] # NoCode /\ ~code[i].used}
Sends(s) == call[s].pc \in {"send.delete", "send.insert"}
Deleted == [i \in CodeIds |-> IF i \in Unused THEN NoCode ELSE code[i]]

Names(s, i) ==
    \/ call[s].pc \in {"verify.use", "verify.user", "register.mail"} /\ call[s].id = i
    \/ At(s, "verify.count") /\ i \in call[s].saw

\* sendVerificationCode: the INSERT, through the pool.  The id of a deleted row
\* that no request names any more stands for the next one.
Insert(i, v) ==
    /\ code[i] = NoCode /\ \A t \in Slots : ~Names(t, i)
    /\ doubled' = doubled \ {i}
    /\ code' = [code EXCEPT ![i] = [value |-> v, attempts |-> 0, used |-> FALSE,
                                    ended |-> FALSE, lost |-> FALSE, wrong |-> 0, accepted |-> 0]]

\* The row of users that a registration has inserted is not committed: whoever
\* looks the address up waits.
Holds(s) == call[s].pc \in {"register.code", "register.mail"}
Committed == \A s \in Slots : ~Holds(s)

\* register finds no user of this address, ...
Register(s) ==
    /\ ~registered /\ Committed
    /\ Begin(s, [pc |-> "register.user"])
    /\ UNCHANGED <<codeVars, pkceVars, resetVars>>

\* ... inserts one, unless another request has by now: email is UNIQUE, ...
RegisterUser(s) ==
    /\ At(s, "register.user")
    /\ Committed
    /\ IF registered THEN Done(s) ELSE Goto(s, "register.code")
    /\ UNCHANGED <<codeVars, pkceVars, resetVars, Counters>>

\* ... and a code, whatever codes are there, ...
RegisterCode(s) ==
    /\ At(s, "register.code")
    /\ \E i \in CodeIds, v \in Values :
           /\ Insert(i, v)
           /\ stray' = stray \ {i}
           /\ call' = [call EXCEPT ![s] = [pc |-> "register.mail", id |-> i]]
    /\ UNCHANGED <<registered, verified, crossed, pkceVars, resetVars, Counters>>

\* ... mails it and commits.
RegisterCommit(s) ==
    /\ At(s, "register.mail")
    /\ registered' = TRUE
    /\ Done(s)
    /\ UNCHANGED <<code, verified, crossed, stray, doubled, pkceVars, resetVars, Counters>>

\* register of an address that is not verified yet, ...
RegisterAgain(s) ==
    /\ registered /\ ~verified
    /\ Begin(s, [pc |-> "register.again"])
    /\ UNCHANGED <<codeVars, pkceVars, resetVars>>

\* ... deletes its codes, through the pool, and sends no other: the key of the
\* user is refused, as user_encryption_keys has one.
RegisterDelete(s) ==
    /\ At(s, "register.again")
    /\ code' = Deleted
    /\ Done(s)
    /\ UNCHANGED <<registered, verified, crossed, stray, doubled, pkceVars, resetVars, Counters>>

\* resendVerificationCode: 'User not found', 'Email already verified', ...
SendStart(s) ==
    /\ registered /\ ~verified
    /\ Begin(s, [pc |-> "send.delete"])
    /\ LET others == {t \in Slots : Sends(t)}
       IN  crossed' = IF others = {} THEN crossed \ {s} ELSE crossed \cup others \cup {s}
    /\ UNCHANGED <<code, registered, verified, stray, doubled, pkceVars, resetVars>>

\* ... deleteVerificationCodes, ...
SendDelete(s) ==
    /\ At(s, "send.delete")
    /\ code' = Deleted
    /\ Goto(s, "send.insert")
    /\ UNCHANGED <<registered, verified, crossed, stray, doubled, pkceVars, resetVars, Counters>>

\* ... and sendVerificationCode.
SendInsert(s) ==
    /\ At(s, "send.insert")
    /\ \E i \in CodeIds, v \in Values :
           /\ Insert(i, v)
           /\ stray' = IF s \in crossed THEN stray \cup {i} ELSE stray \ {i}
    /\ Done(s)
    /\ UNCHANGED <<registered, verified, crossed, pkceVars, resetVars, Counters>>

Accepts(s, i) == call[s].pc = "verify.use" /\ call[s].id = i

\* Mutant: attempts > max_attempts.
VerifyOneMore(s, i) ==
    /\ i \in Unused /\ ~code[i].ended
    /\ code[i].attempts <= MaxAttempts
    /\ Begin(s, [pc |-> "verify.use", id |-> i, value |-> code[i].value,
                 wrong |-> code[i].wrong])
    /\ doubled' = doubled \cup {j \in {i} : \E t \in Slots : Accepts(t, j)}
    /\ UNCHANGED <<code, registered, verified, crossed, stray, pkceVars, resetVars>>

\* verifyCode: the code that reads as guessed, ...
VerifyRead(s, i) ==
    /\ i \in Unused /\ ~code[i].ended
    /\ code[i].attempts < MaxAttempts
    /\ Begin(s, [pc |-> "verify.use", id |-> i, value |-> code[i].value,
                 wrong |-> code[i].wrong])
    /\ doubled' = doubled \cup {j \in {i} : \E t \in Slots : Accepts(t, j)}
    /\ UNCHANGED <<code, registered, verified, crossed, stray, pkceVars, resetVars>>

\* ... 'Maximum verification attempts exceeded' ends the request; a guess that
\* no valid code reads as ...
VerifyWrong(s, v) ==
    /\ \A i \in Unused : code[i].ended \/ code[i].value # v
    /\ Begin(s, [pc |-> "verify.count", guess |-> v, saw |-> Unused])
    /\ UNCHANGED <<codeVars, pkceVars, resetVars>>

\* ... counts against all the codes that are unused by then.  It is answered;
\* the codes that were there when it began were guessed wrong once more.
VerifyCount(s) ==
    /\ At(s, "verify.count")
    /\ code' = [i \in CodeIds |->
                   IF i \in Unused
                   THEN [code[i] EXCEPT !.attempts = @ + 1,
                                        !.wrong = IF i \in call[s].saw THEN @ + 1 ELSE @]
                   ELSE code[i]]
    /\ Done(s)
    /\ UNCHANGED <<registered, verified, crossed, stray, doubled, pkceVars, resetVars, Counters>>

\* ... used_at, by id: of a row that a resend may have deleted.
VerifyUse(s) ==
    LET i == call[s].id
    IN  /\ At(s, "verify.use")
        /\ code' = IF code[i] = NoCode THEN code
                   ELSE [code EXCEPT ![i].used = TRUE, ![i].accepted = @ + 1]
        /\ Goto(s, "verify.user")
        /\ UNCHANGED <<registered, verified, crossed, stray, doubled, pkceVars, resetVars, Counters>>

\* verifyRegistration: the user of a used code that reads as guessed, by user_id.
VerifyUser(s) ==
    /\ At(s, "verify.user")
    /\ Committed
    /\ verified' = \/ verified
                   \/ (registered /\ \E i \in CodeIds :
                          /\ code[i] # NoCode /\ code[i].used /\ ~code[i].lost
                          /\ code[i].value = call[s].value)
    /\ Done(s)
    /\ UNCHANGED <<code, registered, crossed, stray, doubled, pkceVars, resetVars, Counters>>

\* expires_at passes.
CodeEnds(i) ==
    /\ i \in Unused
    /\ code' = [code EXCEPT ![i].ended = TRUE]
    /\ UNCHANGED <<registered, verified, crossed, stray, doubled, pkceVars, resetVars, call, Counters>>

-----------------------------------------------------------------------------
\* storeCodeVerifier: in memory only without a client; set() on a client that
\* is not connected stores nothing and says nothing.
StoreVerifier(s, v) ==
    /\ kept[v] = "unknown"
    /\ Begin(s, Idle)
    /\ kept' = [kept EXCEPT ![v] = IF ~client THEN "memory" ELSE IF redis THEN "redis" ELSE "gone"]
    /\ UNCHANGED <<client, redis, given, shared, codeVars, resetVars>>

Takes(s, v) == At(s, "pkce.del") /\ call[s].of = v

\* getCodeVerifier: from Redis, ...
TakeRedis(s, v) ==
    /\ redis /\ kept[v] = "redis"
    /\ Begin(s, [pc |-> "pkce.del", of |-> v])
    /\ shared' = shared \cup {w \in {v} : \E t \in Slots : Takes(t, w)}
    /\ UNCHANGED <<client, redis, kept, given, codeVars, resetVars>>

\* Mutant: the verifier is not deleted.
TakeKeeping(s) ==
    /\ At(s, "pkce.del")
    /\ given' = [given EXCEPT ![call[s].of] = @ + 1]
    /\ Done(s)
    /\ UNCHANGED <<client, redis, kept, shared, codeVars, resetVars, Counters>>

\* ... where it is deleted by another command, or not if that fails.
TakeDel(s) ==
    LET v == call[s].of
    IN  /\ At(s, "pkce.del")
        /\ kept' = [kept EXCEPT ![v] = IF redis THEN "gone" ELSE @]
        /\ shared' = IF redis THEN shared ELSE shared \cup {v}
        /\ given' = [given EXCEPT ![v] = @ + 1]
        /\ Done(s)
        /\ UNCHANGED <<client, redis, codeVars, resetVars, Counters>>

\* ... or from memory, at once.
TakeMemory(s, v) ==
    /\ kept[v] = "memory"
    /\ Begin(s, Idle)
    /\ kept' = [kept EXCEPT ![v] = "gone"]
    /\ given' = [given EXCEPT ![v] = @ + 1]
    /\ UNCHANGED <<client, redis, shared, codeVars, resetVars>>

\* The key, or the entry, expires.
VerifierEnds(v) ==
    /\ kept[v] \in {"redis", "memory"}
    /\ kept' = [kept EXCEPT ![v] = "gone"]
    /\ UNCHANGED <<client, redis, given, shared, codeVars, resetVars, call, Counters>>

\* The connection is lost; it may come back, or not.
RedisFails ==
    /\ redis /\ faults < MaxFaults
    /\ redis' = FALSE /\ faults' = faults + 1
    /\ UNCHANGED <<client, kept, given, shared, codeVars, resetVars, call, calls>>
RedisReturns ==
    /\ client /\ ~redis
    /\ redis' = TRUE
    /\ UNCHANGED <<client, kept, given, shared, codeVars, resetVars, call, Counters>>

-----------------------------------------------------------------------------
\* requestPasswordReset.
RequestReset(s, r) ==
    /\ reset[r] = "unknown"
    /\ Begin(s, Idle)
    /\ reset' = [reset EXCEPT ![r] = "open"]
    /\ UNCHANGED <<resets, met, codeVars, pkceVars>>

\* resetPassword: 'Invalid or expired reset token', ...
ResetRead(s, r) ==
    /\ reset[r] = "open"
    /\ Begin(s, [pc |-> "reset.write", token |-> r])
    /\ met' = met \cup {q \in {r} : \E t \in Slots : At(t, "reset.write") /\ call[t].token = q}
    /\ UNCHANGED <<reset, resets, codeVars, pkceVars>>

\* ... the password and used_at, in one transaction.
ResetWrite(s) ==
    LET r == call[s].token
    IN  /\ At(s, "reset.write")
        /\ reset' = [reset EXCEPT ![r] = "used"]
        /\ resets' = [resets EXCEPT ![r] = @ + 1]
        /\ Done(s)
        /\ UNCHANGED <<met, codeVars, pkceVars, Counters>>

ResetEnds(r) ==
    /\ reset[r] = "open"
    /\ reset' = [reset EXCEPT ![r] = "ended"]
    /\ UNCHANGED <<resets, met, codeVars, pkceVars, call, Counters>>

-----------------------------------------------------------------------------
\* What a registration inserted through the pool stays when it is rolled back.
RolledBack(S) ==
    code' = [i \in CodeIds |->
                IF code[i] # NoCode /\ \E s \in S : At(s, "register.mail") /\ call[s].id = i
                THEN [code[i] EXCEPT !.lost = TRUE] ELSE code[i]]

\* A statement fails for good, or the mail of a registration.
Abort(s) ==
    /\ call[s] # Idle
    /\ faults < MaxFaults
    /\ faults' = faults + 1
    /\ RolledBack({s})
    /\ Done(s)
    /\ UNCHANGED <<registered, verified, crossed, stray, doubled, pkceVars, resetVars, calls>>

\* The process starts again: its memory is gone, and without Redis there is no
\* client.
Restart ==
    /\ faults < MaxFaults
    /\ faults' = faults + 1
    /\ RolledBack(Slots)
    /\ call' = [s \in Slots |-> Idle]
    /\ client' \in BOOLEAN /\ redis' = client'
    /\ kept' = [v \in Verifiers |-> IF kept[v] = "memory" THEN "gone" ELSE kept[v]]
    /\ UNCHANGED <<registered, verified, crossed, stray, doubled, given, shared, resetVars, calls>>

Step(s) ==
    \/ RegisterUser(s) \/ RegisterCode(s) \/ RegisterCommit(s) \/ RegisterDelete(s)
    \/ SendDelete(s) \/ SendInsert(s) \/ VerifyCount(s) \/ VerifyUse(s) \/ VerifyUser(s)
    \/ TakeDel(s) \/ ResetWrite(s)

Next ==
    \/ \E s \in Slots :
           \/ Register(s) \/ RegisterAgain(s) \/ SendStart(s) \/ Step(s) \/ Abort(s)
           \/ \E i \in CodeIds : VerifyRead(s, i)
           \/ \E v \in Values : VerifyWrong(s, v)
           \/ \E v \in Verifiers : StoreVerifier(s, v) \/ TakeRedis(s, v) \/ TakeMemory(s, v)
           \/ \E r \in Resets : RequestReset(s, r) \/ ResetRead(s, r)
    \/ \E i \in CodeIds : CodeEnds(i)
    \/ \E v \in Verifiers : VerifierEnds(v)
    \/ \E r \in Resets : ResetEnds(r)
    \/ RedisFails \/ RedisReturns \/ Restart

Spec == Init /\ [][Next]_vars

-----------------------------------------------------------------------------
\* A code that was guessed wrong as often as allowed, and each guess answered,
\* is not accepted any more, however guesses, resends and faults interleave.
GuessLimit == \A s \in Slots : At(s, "verify.use") => call[s].wrong < MaxAttempts

\* A new code replaces the old ones: of the codes of the user one at most is
\* there to be guessed, besides those sent by requests that overlapped; the next
\* request that overlaps no other deletes these too.  (A registration deletes
\* nothing, but what it finds belongs to registrations that were rolled back.)
OneLiveCode == Cardinality({i \in Unused : ~code[i].lost} \ stray) <= 1

\* A code is accepted once, unless two guesses found it unused together.
CodeAcceptedOnce ==
    \A i \in CodeIds : code[i] = NoCode \/ i \in doubled \/ code[i].accepted <= 1

\* A PKCE verifier is handed out once, 'one-time use', unless two callbacks
\* found it together or Redis went away before it was deleted.
VerifierOnce == \A v \in Verifiers : v \in shared \/ given[v] <= 1

\* A reset token changes the password once, unless two resets found it unused
\* together.
ResetOnce == \A r \in Resets : r \in met \/ resets[r] <= 1

\* What may be used once is used once, and codes cannot be guessed through.
SpentOnce == CodeAcceptedOnce /\ VerifierOnce /\ ResetOnce
GuessesBounded == GuessLimit /\ OneLiveCode
=============================================================================
