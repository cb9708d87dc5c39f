----------------------------- MODULE AreasProofs -----------------------------
(***************************************************************************)
(* What the areas keep, for any codes, tokens, offers, files, users and    *)
(* requests.  Each area gets an inductive invariant of its own; at the end *)
(* they are put together for the specification that runs one of the areas. *)
(***************************************************************************)
EXTENDS Areas, FiniteSetTheorems, TLAPS

-----------------------------------------------------------------------------
(* The codes, the verifiers and the reset tokens.                          *)

\* Every wrong guess that was answered has been counted.
WrongCounted == \A i \in CodeIds : code[i] # NoCode => code[i].wrong <= code[i].attempts

\* The codes that may be guessed, of the user, and sent by nobody in the way of
\* another.
Current == {i \in Unused : ~code[i].lost} \ stray

\* One registration at most has inserted a user, and all codes are of users that
\* are not there but its own; afterwards, a request for a code that overlaps no
\* other finds no code once it has deleted the old ones.
OneSender ==
    /\ \A s, t \in Slots : Holds(s) /\ Holds(t) => s = t
    /\ \A s \in Slots : Holds(s) => ~registered
    /\ \A s \in Slots : Sends(s) => registered
    /\ ~registered => \A i \in Current : \E s \in Slots : At(s, "register.mail") /\ call[s].id = i
    /\ \A s, t \in Slots : Sends(s) /\ Sends(t) /\ s # t => s \in crossed
    /\ \A s \in Slots \ crossed : At(s, "send.insert") => Current = {}
    /\ \A i, j \in Current : i = j

\* A code that no two guesses found unused together: one guess at most has
\* found it, the row is used once that guess is through, and not before.
AcceptedOnce ==
    \A i \in CodeIds \ doubled :
        /\ \A s, t \in Slots : Accepts(s, i) /\ Accepts(t, i) => s = t
        /\ code[i] # NoCode => /\ code[i].accepted <= 1
                               /\ ~code[i].used => code[i].accepted = 0
                               /\ code[i].used => \A s \in Slots : ~Accepts(s, i)

\* A verifier: one callback at most has found it, and it was not handed out yet.
HandedOnce ==
    \A v \in Verifiers \ shared :
        /\ \A s, t \in Slots : Takes(s, v) /\ Takes(t, v) => s = t
        /\ given[v] <= 1
        /\ kept[v] # "gone" => given[v] = 0
        /\ \A s \in Slots : Takes(s, v) => kept[v] \in {"redis", "gone"} /\ given[v] = 0

\* A reset token, likewise.
Resetting(s, r) == At(s, "reset.write") /\ call[s].token = r
ChangedOnce ==
    \A r \in Resets \ met :
        /\ \A s, t \in Slots : Resetting(s, r) /\ Resetting(t, r) => s = t
        /\ resets[r] <= 1
        /\ reset[r] \in {"unknown", "open"} => resets[r] = 0
        /\ \A s \in Slots : Resetting(s, r) => resets[r] = 0

CodesInv ==
    /\ TypeOK /\ GuessLimit /\ WrongCounted /\ OneSender
    /\ AcceptedOnce /\ HandedOnce /\ ChangedOnce

-----------------------------------------------------------------------------
LEMMA CodesTyped == TypeOK /\ [Next]_vars => TypeOK'
    <1> SUFFICES ASSUME TypeOK, [Next]_vars PROVE TypeOK'
        OBVIOUS
    <1> USE BoundsAssumption
    <1> USE DEF TypeOK, Counters, codeVars, pkceVars, resetVars
    <1>i. \A s \in Slots : Done(s) => call' \in [Slots -> Send \cup Mail \cup Wrong \cup Use \cup Fetch \cup Reset \cup {Idle}]
        BY DEF Done
    <1>b. \A s \in Slots : \A c \in Send \cup Mail \cup Wrong \cup Use \cup Fetch \cup Reset \cup {Idle} :
              Begin(s, c) => /\ call' \in [Slots -> Send \cup Mail \cup Wrong \cup Use \cup Fetch \cup Reset \cup {Idle}]
                             /\ calls' \in 0..MaxCalls /\ faults' \in 0..MaxFaults
        BY DEF Begin
    <1>n. ASSUME NEW i \in CodeIds, NEW v \in Values, Insert(i, v)
          PROVE  code' \in [CodeIds -> Code \cup {NoCode}] /\ doubled' \subseteq CodeIds
        <2>1. [value |-> v, attempts |-> 0, used |-> FALSE, ended |-> FALSE, lost |-> FALSE,
               wrong |-> 0, accepted |-> 0] \in Code
            BY DEF Code
        <2> QED BY <1>n, <2>1 DEF Insert
    <1>d. ASSUME code' = Deleted PROVE code' \in [CodeIds -> Code \cup {NoCode}]
        BY <1>d DEF Deleted
    <1>k. ASSUME NEW S, RolledBack(S) PROVE code' \in [CodeIds -> Code \cup {NoCode}]
        <2>1. ASSUME NEW i \in CodeIds, code[i] # NoCode PROVE [code[i] EXCEPT !.lost = TRUE] \in Code
            <3>1. code[i] \in Code
                BY <2>1
            <3> QED BY <3>1 DEF Code
        <2> QED BY <1>k, <2>1 DEF RolledBack
    <1>1. ASSUME NEW s \in Slots, SendStart(s) PROVE TypeOK'
        <2>1. [pc |-> "send.delete"] \in Send
            BY DEF Send
        <2> QED BY <1>1, <2>1, <1>b DEF SendStart
    <1>2. ASSUME NEW s \in Slots, SendDelete(s) PROVE TypeOK'
        <2>1. call' \in [Slots -> Send \cup Mail \cup Wrong \cup Use \cup Fetch \cup Reset \cup {Idle}]
            BY <1>2 DEF SendDelete, Goto, At, Send, Mail, Wrong, Use, Fetch, Reset, Idle
        <2>2. code' \in [CodeIds -> Code \cup {NoCode}]
            BY <1>2, <1>d DEF SendDelete
        <2> QED BY <1>2, <2>1, <2>2 DEF SendDelete
    <1>3. ASSUME NEW s \in Slots, SendInsert(s) PROVE TypeOK'
        <2> QED BY <1>3, <1>i, <1>n DEF SendInsert
    <1>4. ASSUME NEW s \in Slots, NEW i \in CodeIds, VerifyRead(s, i) PROVE TypeOK'
        <2>1. [pc |-> "verify.use", id |-> i, value |-> code[i].value, wrong |-> code[i].wrong] \in Use
            BY <1>4 DEF VerifyRead, Unused, Use, Code
        <2> QED BY <1>4, <2>1, <1>b DEF VerifyRead
    <1>5. ASSUME NEW s \in Slots, NEW v \in Values, VerifyWrong(s, v) PROVE TypeOK'
        <2>1. [pc |-> "verify.count", guess |-> v, saw |-> Unused] \in Wrong
            BY DEF Wrong, Unused
        <2> QED BY <1>5, <2>1, <1>b DEF VerifyWrong
    <1>6. ASSUME NEW s \in Slots, VerifyCount(s) PROVE TypeOK'
        <2>1. ASSUME NEW i \in Unused
              PROVE  [code[i] EXCEPT !.attempts = @ + 1,
                                     !.wrong = IF i \in call[s].saw THEN @ + 1 ELSE @] \in Code
            <3>1. /\ code[i].attempts + 1 \in Nat /\ code[i].wrong + 1 \in Nat
                  /\ code[i].wrong \in Nat /\ code[i] \in Code
                BY <2>1 DEF Unused, Code
            <3>2. CASE i \in call[s].saw
                <4>1. [code[i] EXCEPT !.attempts = code[i].attempts + 1, !.wrong = code[i].wrong + 1] \in Code
                    BY <3>1 DEF Code
                <4> QED BY <3>2, <4>1
            <3>3. CASE i \notin call[s].saw
                <4>1. [code[i] EXCEPT !.attempts = code[i].attempts + 1, !.wrong = code[i].wrong] \in Code
                    BY <3>1 DEF Code
                <4> QED BY <3>3, <4>1
            <3> QED BY <3>2, <3>3
        <2>2. code' \in [CodeIds -> Code \cup {NoCode}]
            BY <1>6, <2>1 DEF VerifyCount
        <2> QED BY <1>6, <2>2, <1>i DEF VerifyCount
    <1>7. ASSUME NEW s \in Slots, VerifyUse(s) PROVE TypeOK'
        <2>1. call[s].id \in CodeIds /\ call[s] \in Use
            BY <1>7 DEF VerifyUse, At, Send, Mail, Wrong, Use, Fetch, Reset, Idle
        <2>2. [call[s] EXCEPT !.pc = "verify.user"] \in Use
            BY <2>1 DEF Use
        <2>3. call' \in [Slots -> Send \cup Mail \cup Wrong \cup Use \cup Fetch \cup Reset \cup {Idle}]
            BY <1>7, <2>2, <1>i DEF VerifyUse, Goto
        <2>4. code' \in [CodeIds -> Code \cup {NoCode}]
            BY <1>7, <2>1 DEF VerifyUse, Code
        <2> QED BY <1>7, <2>3, <2>4 DEF VerifyUse
    <1>8. ASSUME NEW s \in Slots, VerifyUser(s) PROVE TypeOK'
        BY <1>8, <1>i DEF VerifyUser
    <1>9. ASSUME NEW i \in CodeIds, CodeEnds(i) PROVE TypeOK'
        <2>1. code' \in [CodeIds -> Code \cup {NoCode}]
            BY <1>9 DEF CodeEnds, Unused, Code
        <2> QED BY <1>9, <2>1 DEF CodeEnds
    <1>10. ASSUME NEW s \in Slots, NEW v \in Verifiers, StoreVerifier(s, v) PROVE TypeOK'
        BY <1>10, <1>b DEF StoreVerifier
    <1>11. ASSUME NEW s \in Slots, NEW v \in Verifiers, TakeRedis(s, v) PROVE TypeOK'
        <2>1. [pc |-> "pkce.del", of |-> v] \in Fetch
            BY DEF Fetch
        <2> QED BY <1>11, <2>1, <1>b DEF TakeRedis
    <1>12. ASSUME NEW s \in Slots, TakeDel(s) PROVE TypeOK'
        <2>1. call[s].of \in Verifiers
            BY <1>12 DEF TakeDel, At, Send, Mail, Wrong, Use, Fetch, Reset, Idle
        <2> QED BY <1>12, <2>1, <1>i DEF TakeDel
    <1>13. ASSUME NEW s \in Slots, NEW v \in Verifiers, TakeMemory(s, v) PROVE TypeOK'
        BY <1>13, <1>b DEF TakeMemory
    <1>14. ASSUME NEW v \in Verifiers, VerifierEnds(v) PROVE TypeOK'
        BY <1>14 DEF VerifierEnds
    <1>15. CASE RedisFails
        <2>1. faults' \in 0..MaxFaults
            BY <1>15 DEF RedisFails
        <2> QED BY <1>15, <2>1 DEF RedisFails
    <1>16. CASE RedisReturns
        BY <1>16 DEF RedisReturns
    <1>17. ASSUME NEW s \in Slots, NEW r \in Resets, RequestReset(s, r) PROVE TypeOK'
        BY <1>17, <1>b DEF RequestReset
    <1>18. ASSUME NEW s \in Slots, NEW r \in Resets, ResetRead(s, r) PROVE TypeOK'
        <2>1. [pc |-> "reset.write", token |-> r] \in Reset
            BY DEF Reset
        <2> QED BY <1>18, <2>1, <1>b DEF ResetRead
    <1>19. ASSUME NEW s \in Slots, ResetWrite(s) PROVE TypeOK'
        <2>1. call[s].token \in Resets
            BY <1>19 DEF ResetWrite, At, Send, Mail, Wrong, Use, Fetch, Reset, Idle
        <2> QED BY <1>19, <2>1, <1>i DEF ResetWrite
    <1>20. ASSUME NEW r \in Resets, ResetEnds(r) PROVE TypeOK'
        BY <1>20 DEF ResetEnds
    <1>21. ASSUME NEW s \in Slots, Abort(s) PROVE TypeOK'
        BY <1>21, <1>i, <1>k DEF Abort
    <1>22. CASE Restart
        BY <1>22, <1>k DEF Restart
    <1>23. CASE UNCHANGED vars
        BY <1>23 DEF vars
    <1>24. ASSUME NEW s \in Slots, Register(s) \/ RegisterAgain(s) PROVE TypeOK'
        <2>1. [pc |-> "register.user"] \in Send /\ [pc |-> "register.again"] \in Send
            BY DEF Send
        <2> QED BY <1>24, <2>1, <1>b DEF Register, RegisterAgain
    <1>25. ASSUME NEW s \in Slots, RegisterUser(s) PROVE TypeOK'
        <2>1. call' \in [Slots -> Send \cup Mail \cup Wrong \cup Use \cup Fetch \cup Reset \cup {Idle}]
            BY <1>25, <1>i DEF RegisterUser, Goto, At, Send, Mail, Wrong, Use, Fetch, Reset, Idle
        <2> QED BY <1>25, <2>1 DEF RegisterUser
    <1>26. ASSUME NEW s \in Slots, RegisterCode(s) PROVE TypeOK'
        <2>1. \A i \in CodeIds : [pc |-> "register.mail", id |-> i] \in Mail
            BY DEF Mail
        <2> QED BY <1>26, <2>1, <1>n DEF RegisterCode
    <1>27. ASSUME NEW s \in Slots, RegisterCommit(s) \/ RegisterDelete(s) PROVE TypeOK'
        <2>1. CASE RegisterCommit(s)
            BY <2>1, <1>i DEF RegisterCommit
        <2>2. CASE RegisterDelete(s)
            <3>1. code' \in [CodeIds -> Code \cup {NoCode}]
                BY <2>2, <1>d DEF RegisterDelete
            <3> QED BY <2>2, <3>1, <1>i DEF RegisterDelete
        <2> QED BY <1>27, <2>1, <2>2
    <1> QED
        BY <1>1, <1>2, <1>3, <1>4, <1>5, <1>6, <1>7, <1>8, <1>9, <1>10, <1>11, <1>12, <1>13,
           <1>14, <1>15, <1>16, <1>17, <1>18, <1>19, <1>20, <1>21, <1>22, <1>23,
           <1>24, <1>25, <1>26, <1>27 DEF Next, Step

-----------------------------------------------------------------------------
(* What a step keeps that does not add to what a part looks at.            *)

LEMMA GuessKept ==
    ASSUME GuessLimit, \A t \in Slots : call'[t] = call[t] \/ call'[t].pc # "verify.use"
    PROVE  GuessLimit'
    BY DEF GuessLimit, At

Sending == {"send.delete", "send.insert", "register.code", "register.mail"}

LEMMA SenderKept ==
    ASSUME OneSender, registered' = registered, crossed' = crossed, Current' \subseteq Current,
           \A t \in Slots : \/ call'[t] = call[t]
                            \/ /\ call'[t].pc \notin Sending
                               /\ At(t, "register.mail") => call[t].id \notin Current'
    PROVE  OneSender'
    <1>1. \A s \in Slots : (Holds(s)' => Holds(s)) /\ (Sends(s)' => Sends(s))
        BY DEF Holds, Sends, Sending
    <1>2. \A s \in Slots : At(s, "send.insert")' => At(s, "send.insert")
        BY DEF At, Sending
    <1>3. \A s \in Slots, i \in Current' :
              At(s, "register.mail") /\ call[s].id = i => (At(s, "register.mail") /\ call[s].id = i)'
        BY DEF At
    <1> HIDE DEF Current
    <1> QED BY <1>1, <1>2, <1>3 DEF OneSender

LEMMA AcceptKept ==
    ASSUME AcceptedOnce, code' = code, doubled \subseteq doubled',
           \A t \in Slots : call'[t] = call[t] \/ call'[t].pc # "verify.use"
    PROVE  AcceptedOnce'
    BY DEF AcceptedOnce, Accepts

LEMMA HandedKept ==
    ASSUME HandedOnce, kept' = kept, given' = given, shared \subseteq shared',
           \A t \in Slots : call'[t] = call[t] \/ call'[t].pc # "pkce.del"
    PROVE  HandedOnce'
    BY DEF HandedOnce, Takes, At

LEMMA ChangedKept ==
    ASSUME ChangedOnce, reset' = reset, resets' = resets, met \subseteq met',
           \A t \in Slots : call'[t] = call[t] \/ call'[t].pc # "reset.write"
    PROVE  ChangedOnce'
    BY DEF ChangedOnce, Resetting, At

\* A request is made, goes on or ends: no other slot is touched.
LEMMA Moved ==
    ASSUME TypeOK, NEW s \in Slots
    PROVE  /\ \A c : Begin(s, c) => call'[s] = c /\ \A t \in Slots \ {s} : call'[t] = call[t]
           /\ Done(s) => call'[s] = Idle /\ \A t \in Slots \ {s} : call'[t] = call[t]
           /\ \A pc : Goto(s, pc) => call'[s] = [call[s] EXCEPT !.pc = pc]
                                     /\ \A t \in Slots \ {s} : call'[t] = call[t]
    BY DEF TypeOK, Begin, Done, Goto

\* A row that is there has all of its columns.
LEMMA RowTyped ==
    ASSUME TypeOK, NEW i \in CodeIds, code[i] # NoCode
    PROVE  /\ code[i].attempts \in Nat /\ code[i].wrong \in Nat /\ code[i].accepted \in Nat
           /\ code[i].used \in BOOLEAN /\ code[i].ended \in BOOLEAN
    BY DEF TypeOK, Code

LEMMA CodesStart == Init => CodesInv
    <1> SUFFICES ASSUME Init PROVE CodesInv
        OBVIOUS
    <1> USE DEF Init
    <1>1. TypeOK
        <2>1. /\ registered \in BOOLEAN /\ verified \in BOOLEAN
              /\ client \in BOOLEAN /\ redis \in BOOLEAN /\ (redis => client)
            BY Zenon
        <2>2. calls \in 0..MaxCalls /\ faults \in 0..MaxFaults
            BY BoundsAssumption
        <2> QED BY <2>1, <2>2 DEF TypeOK
    <1>2. /\ Unused = {} /\ \A s \in Slots : call[s].pc = "idle"
          /\ \A i \in CodeIds : code[i] = NoCode
        BY DEF Unused, Idle
    <1>3. GuessLimit /\ WrongCounted /\ OneSender /\ AcceptedOnce
        BY <1>2 DEF GuessLimit, WrongCounted, OneSender, AcceptedOnce, At, Sends, Holds, Current, Accepts
    <1>4. HandedOnce /\ ChangedOnce
        BY <1>2 DEF HandedOnce, ChangedOnce, At, Takes, Resetting
    <1> QED BY <1>1, <1>3, <1>4 DEF CodesInv

-----------------------------------------------------------------------------
(* The codes.                                                              *)
CodeParts == GuessLimit /\ WrongCounted /\ OneSender /\ AcceptedOnce

\* A step that leaves the rows alone and lets no new guess through.
LEMMA CodePartsKept ==
    ASSUME CodeParts, code' = code, registered' = registered, crossed' = crossed, stray' = stray,
           doubled' = doubled,
           \A t \in Slots : \/ call'[t] = call[t]
                            \/ /\ call'[t].pc \notin {"verify.use"} \cup Sending
                               /\ ~At(t, "register.mail")
    PROVE  CodeParts'
    <1>1. GuessLimit'
        BY GuessKept DEF CodeParts
    <1>2. WrongCounted'
        BY DEF CodeParts, WrongCounted
    <1>3. OneSender'
        BY SenderKept DEF CodeParts, Current, Unused
    <1>4. AcceptedOnce'
        BY AcceptKept DEF CodeParts
    <1> QED BY <1>1, <1>2, <1>3, <1>4 DEF CodeParts

\* The user of a registration is inserted where no other is.
LEMMA RegisterInserting ==
    ASSUME TypeOK, CodeParts, NEW s \in Slots, RegisterUser(s)
    PROVE  CodeParts'
    <1>1. /\ \A t \in Slots \ {s} : call'[t] = call[t]
          /\ code' = code /\ registered' = registered /\ crossed' = crossed /\ stray' = stray
          /\ doubled' = doubled /\ At(s, "register.user") /\ \A t \in Slots : ~Holds(t)
        BY Moved DEF RegisterUser, codeVars, Committed
    <1>2. call[s] \in Send
        BY <1>1 DEF At, TypeOK, Send, Mail, Wrong, Use, Fetch, Reset, Idle
    <1>3. call'[s].pc = "idle" \/ (~registered /\ call'[s].pc = "register.code")
        <2>1. CASE Done(s)
            BY <2>1, Moved DEF Idle
        <2>2. CASE ~registered /\ Goto(s, "register.code")
            <3>1. call'[s] = [call[s] EXCEPT !.pc = "register.code"]
                BY <2>2, Moved
            <3> QED BY <1>2, <2>2, <3>1 DEF Send
        <2> QED BY <2>1, <2>2 DEF RegisterUser
    <1>4. GuessLimit' /\ WrongCounted' /\ AcceptedOnce'
        BY <1>1, <1>3, GuessKept, AcceptKept DEF CodeParts, WrongCounted
    <1>5. OneSender'
        <2>1. Current' = Current
            BY <1>1 DEF Current, Unused
        <2>2. \A t \in Slots : /\ Holds(t)' => t = s /\ ~registered
                               /\ Sends(t)' => Sends(t)
                               /\ At(t, "send.insert")' => At(t, "send.insert")
                               /\ ~At(t, "register.mail")
            BY <1>1, <1>3 DEF Holds, Sends, At
        <2>3. ~registered => Current = {}
            BY <2>2 DEF CodeParts, OneSender
        <2>4. \A q, t \in Slots : Holds(q)' /\ Holds(t)' => q = t
            BY <2>2
        <2>5. \A t \in Slots : Holds(t)' => ~registered'
            BY <1>1, <2>2
        <2>6. /\ \A t \in Slots : Sends(t)' => registered'
              /\ \A q, t \in Slots : Sends(q)' /\ Sends(t)' /\ q # t => q \in crossed'
              /\ \A t \in Slots \ crossed' : At(t, "send.insert")' => Current' = {}
              /\ \A i, j \in Current' : i = j
            BY <1>1, <2>1, <2>2 DEF CodeParts, OneSender
        <2>7. ~registered' => Current' = {}
            BY <1>1, <2>1, <2>3
        <2> QED BY <2>4, <2>5, <2>6, <2>7 DEF OneSender
    <1> QED BY <1>4, <1>5 DEF CodeParts

\* A new code has everything to come.
LEMMA Inserted ==
    ASSUME TypeOK, CodeParts, NEW s \in Slots, NEW i \in CodeIds, NEW v \in Values, Insert(i, v),
           \A t \in Slots \ {s} : call'[t] = call[t], call'[s].pc # "verify.use"
    PROVE  /\ GuessLimit' /\ WrongCounted' /\ AcceptedOnce'
           /\ code'[i].lost = FALSE /\ \A t \in Slots : ~Names(t, i)
           /\ \A j \in CodeIds \ {i} : code'[j] = code[j]
    <1>2. /\ code[i] = NoCode /\ \A t \in Slots : ~Names(t, i)
          /\ doubled' = doubled \ {i}
          /\ code' = [code EXCEPT ![i] = [value |-> v, attempts |-> 0, used |-> FALSE, ended |-> FALSE,
                                          lost |-> FALSE, wrong |-> 0, accepted |-> 0]]
        BY DEF Insert
    <1>3. /\ code'[i].attempts = 0 /\ code'[i].used = FALSE /\ code'[i].wrong = 0 /\ code'[i].accepted = 0
          /\ code'[i].lost = FALSE
          /\ \A j \in CodeIds \ {i} : code'[j] = code[j]
        BY <1>2 DEF TypeOK
    <1>4. GuessLimit'
        BY GuessKept DEF CodeParts
    <1>5. WrongCounted'
        BY <1>3 DEF CodeParts, WrongCounted
    <1>7. AcceptedOnce'
        <2>1. \A t \in Slots, j \in CodeIds : Accepts(t, j)' => Accepts(t, j) /\ j # i
            BY <1>2 DEF Accepts, Names
        <2>2. \A t \in Slots : ~Accepts(t, i)'
            BY <2>1
        <2> QED BY <1>2, <1>3, <2>1, <2>2 DEF CodeParts, AcceptedOnce
    <1> QED BY <1>2, <1>3, <1>4, <1>5, <1>7

LEMMA RegisterCoding ==
    ASSUME TypeOK, CodeParts, NEW s \in Slots, RegisterCode(s)
    PROVE  CodeParts'
    <1>1. PICK i \in CodeIds, v \in Values :
              /\ Insert(i, v) /\ stray' = stray \ {i}
              /\ call' = [call EXCEPT ![s] = [pc |-> "register.mail", id |-> i]]
        BY DEF RegisterCode
    <1>2. /\ call'[s] = [pc |-> "register.mail", id |-> i] /\ \A t \in Slots \ {s} : call'[t] = call[t]
          /\ At(s, "register.code") /\ registered' = registered /\ crossed' = crossed
        BY <1>1 DEF RegisterCode, TypeOK
    <1>3. /\ GuessLimit' /\ WrongCounted' /\ AcceptedOnce'
          /\ \A j \in CodeIds \ {i} : code'[j] = code[j]
        <2>1. call'[s].pc # "verify.use"
            BY <1>2
        <2>2. \A t \in Slots \ {s} : call'[t] = call[t]
            BY <1>2
        <2> QED BY <1>1, <2>1, <2>2, Inserted
    <1>4. OneSender'
        <2>1. Holds(s) /\ ~registered /\ \A t \in Slots : ~At(t, "register.mail")
            BY <1>2 DEF CodeParts, OneSender, Holds, At
        <2>2. Current = {}
            BY <2>1 DEF CodeParts, OneSender
        <2>3. \A j \in Current' : j = i
            BY <1>1, <1>3, <2>2 DEF Current, Unused
        <2>4. \A t \in Slots : /\ Holds(t)' => t = s
                               /\ ~Sends(t)' /\ ~At(t, "send.insert")'
            BY <1>2, <2>1 DEF CodeParts, OneSender, Holds, Sends, At
        <2>5. (At(s, "register.mail") /\ call[s].id = i)'
            BY <1>2 DEF At
        <2> HIDE DEF Current
        <2> QED BY <1>2, <2>1, <2>3, <2>4, <2>5 DEF OneSender
    <1> QED BY <1>3, <1>4 DEF CodeParts

LEMMA RegisterCommitting ==
    ASSUME TypeOK, CodeParts, NEW s \in Slots, RegisterCommit(s)
    PROVE  CodeParts'
    <1>1. /\ call'[s] = Idle /\ \A t \in Slots \ {s} : call'[t] = call[t]
          /\ At(s, "register.mail") /\ registered' = TRUE /\ crossed' = crossed
          /\ code' = code /\ stray' = stray /\ doubled' = doubled
        BY Moved DEF RegisterCommit
    <1>2. GuessLimit' /\ WrongCounted' /\ AcceptedOnce'
        BY <1>1, GuessKept, AcceptKept DEF CodeParts, WrongCounted, Idle
    <1>3. OneSender'
        <2>1. Current' = Current
            BY <1>1 DEF Current, Unused
        <2>2. \A t \in Slots : ~Sends(t) /\ (Holds(t) => t = s)
            BY <1>1 DEF CodeParts, OneSender, Holds, At
        <2>3. \A t \in Slots : ~Holds(t)' /\ ~Sends(t)' /\ ~At(t, "send.insert")'
            BY <1>1, <2>2 DEF Holds, Sends, At, Idle
        <2> HIDE DEF Current
        <2> QED BY <1>1, <2>1, <2>3 DEF CodeParts, OneSender
    <1> QED BY <1>2, <1>3 DEF CodeParts

\* All codes are deleted.
LEMMA OldCodesGo ==
    ASSUME TypeOK, CodeParts, NEW s \in Slots, code' = Deleted,
           call[s].pc \in {"register.again", "send.delete"},
           call'[s].pc \in {"idle", "send.insert"}, call'[s].pc = "send.insert" => Sends(s),
           \A t \in Slots \ {s} : call'[t] = call[t],
           registered' = registered, crossed' = crossed, doubled' = doubled
    PROVE  CodeParts'
    <1>2. \A i \in CodeIds : code'[i] = NoCode \/ (code'[i] = code[i] /\ i \notin Unused)
        BY DEF Deleted
    <1>3. Current' = {}
        BY <1>2 DEF Current, Unused
    <1>4. GuessLimit'
        BY GuessKept DEF CodeParts
    <1>5. WrongCounted'
        BY <1>2 DEF CodeParts, WrongCounted
    <1>6. OneSender'
        <2>1. \A t \in Slots : (Sends(t)' => Sends(t)) /\ (Holds(t)' => Holds(t))
            BY DEF Sends, Holds
        <2> HIDE DEF Current
        <2> QED BY <1>3, <2>1 DEF CodeParts, OneSender
    <1>7. AcceptedOnce'
        <2>1. \A t \in Slots, i \in CodeIds : Accepts(t, i)' => Accepts(t, i)
            BY DEF Accepts
        <2> QED BY <1>2, <2>1 DEF CodeParts, AcceptedOnce
    <1> QED BY <1>4, <1>5, <1>6, <1>7 DEF CodeParts

LEMMA RegisterDeleting ==
    ASSUME TypeOK, CodeParts, NEW s \in Slots, RegisterDelete(s)
    PROVE  CodeParts'
    <1>1. /\ call'[s].pc = "idle" /\ \A t \in Slots \ {s} : call'[t] = call[t]
          /\ call[s].pc = "register.again" /\ code' = Deleted
          /\ registered' = registered /\ crossed' = crossed /\ doubled' = doubled
        BY Moved DEF RegisterDelete, Idle, At
    <1> QED BY <1>1, OldCodesGo

LEMMA SendStarting ==
    ASSUME TypeOK, CodeParts, NEW s \in Slots, SendStart(s)
    PROVE  CodeParts'
    <1> DEFINE others == {t \in Slots : Sends(t)}
    <1>o. \A t \in Slots : t \in others <=> Sends(t)
        OBVIOUS
    <1>1. /\ call'[s] = [pc |-> "send.delete"] /\ \A t \in Slots \ {s} : call'[t] = call[t]
          /\ call[s] = Idle /\ code' = code /\ doubled' = doubled /\ stray' = stray
          /\ registered /\ registered' = registered
          /\ crossed' = IF others = {} THEN crossed \ {s} ELSE crossed \cup others \cup {s}
        BY Moved DEF SendStart, Begin
    <1>2. GuessLimit' /\ WrongCounted' /\ AcceptedOnce'
        BY <1>1, GuessKept, AcceptKept DEF CodeParts, WrongCounted
    <1>3. OneSender'
        <2>1. Current' = Current
            BY <1>1 DEF Current, Unused
        <2>2. \A t \in Slots : /\ Holds(t)' => Holds(t)
                               /\ At(t, "send.insert")' => t \in others /\ t # s
                               /\ Sends(t)' => t = s \/ t \in others
            BY <1>1 DEF Holds, At, Sends
        <2> HIDE DEF others
        <2>3. \A t \in Slots \ crossed' : ~At(t, "send.insert")'
            BY <1>1, <2>2
        <2>4. \A r, t \in Slots : Sends(r)' /\ Sends(t)' /\ r # t => r \in crossed'
            <3> SUFFICES ASSUME NEW r \in Slots, NEW t \in Slots, Sends(r)', Sends(t)', r # t
                         PROVE  r \in crossed'
                OBVIOUS
            <3>1. others # {}
                BY <2>2
            <3> QED BY <1>1, <2>2, <3>1
        <2> HIDE DEF Current
        <2> QED BY <1>1, <2>1, <2>2, <2>3, <2>4 DEF CodeParts, OneSender
    <1> QED BY <1>2, <1>3 DEF CodeParts

LEMMA SendDeleting ==
    ASSUME TypeOK, CodeParts, NEW s \in Slots, SendDelete(s)
    PROVE  CodeParts'
    <1>1. call'[s] = [call[s] EXCEPT !.pc = "send.insert"] /\ \A t \in Slots \ {s} : call'[t] = call[t]
        BY Moved DEF SendDelete
    <1>2. call'[s].pc = "send.insert"
        BY <1>1 DEF SendDelete, At, TypeOK, Send, Mail, Wrong, Use, Fetch, Reset, Idle
    <1>3. /\ call[s].pc = "send.delete" /\ Sends(s) /\ code' = Deleted
          /\ registered' = registered /\ crossed' = crossed /\ doubled' = doubled
        BY DEF SendDelete, At, Sends
    <1> QED BY <1>1, <1>2, <1>3, OldCodesGo

LEMMA SendInserting ==
    ASSUME TypeOK, CodeParts, NEW s \in Slots, SendInsert(s)
    PROVE  CodeParts'
    <1>1. /\ call'[s] = Idle /\ \A t \in Slots \ {s} : call'[t] = call[t]
          /\ At(s, "send.insert") /\ Sends(s) /\ registered' = registered /\ crossed' = crossed
        BY Moved DEF SendInsert, At, Sends
    <1>2. PICK i \in CodeIds, v \in Values :
              /\ Insert(i, v)
              /\ stray' = IF s \in crossed THEN stray \cup {i} ELSE stray \ {i}
        BY DEF SendInsert
    <1>3. /\ GuessLimit' /\ WrongCounted' /\ AcceptedOnce'
          /\ \A j \in CodeIds \ {i} : code'[j] = code[j]
        <2>1. call'[s].pc # "verify.use"
            BY <1>1 DEF Idle
        <2> QED BY <1>1, <1>2, <2>1, Inserted
    <1>4. OneSender'
        <2>1. /\ registered
              /\ \A q, t \in Slots : Sends(q) /\ Sends(t) /\ q # t => q \in crossed
              /\ \A t \in Slots : Holds(t) => ~registered
              /\ \A t \in Slots \ crossed : At(t, "send.insert") => Current = {}
              /\ \A i1, i2 \in Current : i1 = i2
            BY <1>1 DEF CodeParts, OneSender
        <2>2. \A t \in Slots : /\ Sends(t)' => Sends(t) /\ t # s
                               /\ Holds(t)' => Holds(t)
                               /\ At(t, "send.insert")' => At(t, "send.insert") /\ t # s /\ Sends(t)
            BY <1>1 DEF Sends, Holds, At, Idle
        <2>3. CASE s \in crossed
            <3>1. Current' \subseteq Current
                BY <1>2, <1>3, <2>3 DEF Current, Unused
            <3> HIDE DEF Current
            <3> QED BY <1>1, <2>1, <2>2, <3>1 DEF OneSender
        <2>4. CASE s \notin crossed
            <3>1. Current = {}
                BY <1>1, <2>1, <2>4
            <3>2. \A j \in Current' : j = i
                BY <1>2, <1>3, <2>4, <3>1 DEF Current, Unused
            <3>3. \A t \in Slots : At(t, "send.insert")' => t \in crossed
                BY <1>1, <2>1, <2>2
            <3> HIDE DEF Current
            <3> QED BY <1>1, <2>1, <2>2, <3>2, <3>3 DEF OneSender
        <2> QED BY <2>3, <2>4
    <1> QED BY <1>3, <1>4 DEF CodeParts

\* A registration is rolled back: its code is no user's.
LEMMA RollingBack ==
    ASSUME TypeOK, CodeParts, NEW S \in SUBSET Slots, RolledBack(S),
           registered' = registered, crossed' = crossed, stray' = stray, doubled' = doubled,
           \A s \in Slots : call'[s] = call[s] \/ (s \in S /\ call'[s] = Idle)
    PROVE  CodeParts'
    <1>1. ASSUME NEW i \in CodeIds
          PROVE  /\ code[i] = NoCode => code'[i] = NoCode
                 /\ code[i] # NoCode => /\ code'[i].used = code[i].used
                                        /\ code'[i].accepted = code[i].accepted
                                        /\ code'[i].wrong = code[i].wrong
                                        /\ code'[i].attempts = code[i].attempts
                                        /\ code[i].lost => code'[i].lost
                                        /\ (\E s \in S : At(s, "register.mail") /\ call[s].id = i)
                                               => code'[i].lost
        <2>1. code'[i] = code[i] \/ (code[i] # NoCode /\ code'[i] = [code[i] EXCEPT !.lost = TRUE])
            BY DEF RolledBack
        <2>2. code[i] # NoCode /\ (\E s \in S : At(s, "register.mail") /\ call[s].id = i)
                  => code'[i] = [code[i] EXCEPT !.lost = TRUE]
            BY DEF RolledBack
        <2>3. code[i] # NoCode => code[i] \in Code
            BY DEF TypeOK
        <2> QED BY <2>1, <2>2, <2>3 DEF Code
    <1>2. GuessLimit' /\ WrongCounted'
        BY <1>1, GuessKept DEF CodeParts, WrongCounted, Idle
    <1>3. OneSender'
        <2>1. Current' \subseteq Current
            BY <1>1 DEF Current, Unused
        <2>2. \A t \in S : At(t, "register.mail") => call[t].id \notin Current'
            BY <1>1 DEF Current, Unused
        <2>3. \A t \in Slots : \/ call'[t] = call[t]
                               \/ /\ call'[t].pc \notin Sending
                                  /\ At(t, "register.mail") => call[t].id \notin Current'
            BY <2>2 DEF Idle, Sending
        <2> HIDE DEF Current
        <2> QED BY <2>1, <2>3, SenderKept DEF CodeParts
    <1>4. AcceptedOnce'
        <2>1. \A t \in Slots, i \in CodeIds : Accepts(t, i)' => Accepts(t, i)
            BY DEF Accepts, Idle
        <2> QED BY <1>1, <2>1 DEF CodeParts, AcceptedOnce
    <1> QED BY <1>2, <1>3, <1>4 DEF CodeParts

LEMMA VerifyReading ==
    ASSUME TypeOK, CodeParts, NEW s \in Slots, NEW i \in CodeIds, VerifyRead(s, i)
    PROVE  CodeParts'
    <1>1. /\ call'[s] = [pc |-> "verify.use", id |-> i, value |-> code[i].value,
                         wrong |-> code[i].wrong]
          /\ \A t \in Slots \ {s} : call'[t] = call[t]
          /\ call[s] = Idle /\ code' = code
          /\ registered' = registered /\ crossed' = crossed /\ stray' = stray
          /\ i \in Unused /\ code[i] # NoCode /\ ~code[i].used /\ code[i].attempts < MaxAttempts
        BY Moved DEF VerifyRead, Begin, Unused
    <1>2. GuessLimit'
        <2>1. code[i].wrong < MaxAttempts
            BY <1>1, RowTyped, AttemptsAssumption DEF CodeParts, WrongCounted
        <2> QED BY <1>1, <2>1 DEF CodeParts, GuessLimit, At
    <1>3. WrongCounted'
        BY <1>1 DEF CodeParts, WrongCounted
    <1>4. OneSender'
        BY <1>1, SenderKept DEF CodeParts, Current, Unused, Sending, At, Idle
    <1>5. AcceptedOnce'
        <2>1. doubled \subseteq doubled' /\ (i \notin doubled' => \A t \in Slots : ~Accepts(t, i))
            BY DEF VerifyRead
        <2>2. \A t \in Slots, j \in CodeIds : Accepts(t, j)' => Accepts(t, j) \/ (t = s /\ j = i)
            BY <1>1 DEF Accepts
        <2> SUFFICES ASSUME NEW j \in CodeIds \ doubled'
                     PROVE  /\ \A q, t \in Slots : Accepts(q, j)' /\ Accepts(t, j)' => q = t
                            /\ code[j] # NoCode =>
                                   /\ code[j].accepted <= 1
                                   /\ ~code[j].used => code[j].accepted = 0
                                   /\ code[j].used => \A q \in Slots : ~Accepts(q, j)'
            BY <1>1 DEF AcceptedOnce
        <2>3. CASE j = i
            BY <1>1, <2>1, <2>2, <2>3 DEF CodeParts, AcceptedOnce
        <2>4. CASE j # i
            BY <1>1, <2>1, <2>2, <2>4 DEF CodeParts, AcceptedOnce
        <2> QED BY <2>3, <2>4
    <1> QED BY <1>2, <1>3, <1>4, <1>5 DEF CodeParts

LEMMA VerifyCounting ==
    ASSUME TypeOK, CodeParts, NEW s \in Slots, VerifyCount(s)
    PROVE  CodeParts'
    <1>1. /\ call'[s] = Idle /\ \A t \in Slots \ {s} : call'[t] = call[t]
          /\ registered' = registered /\ crossed' = crossed /\ stray' = stray /\ doubled' = doubled
          /\ At(s, "verify.count")
        BY Moved DEF VerifyCount
    <1>2. \A i \in CodeIds : i \notin Unused => code'[i] = code[i]
        BY DEF VerifyCount
    <1>3. \A i \in Unused :
              /\ code'[i].attempts = code[i].attempts + 1
              /\ code'[i].wrong = code[i].wrong + 1 \/ code'[i].wrong = code[i].wrong
              /\ code'[i].used = code[i].used /\ code'[i].accepted = code[i].accepted
              /\ code'[i].lost = code[i].lost
              /\ code[i] # NoCode
        <2> SUFFICES ASSUME NEW i \in Unused
                     PROVE  /\ code'[i].attempts = code[i].attempts + 1
                            /\ code'[i].wrong = code[i].wrong + 1 \/ code'[i].wrong = code[i].wrong
                            /\ code'[i].used = code[i].used /\ code'[i].accepted = code[i].accepted
                            /\ code'[i].lost = code[i].lost
                            /\ code[i] # NoCode
            OBVIOUS
        <2>1. i \in CodeIds /\ code[i] # NoCode /\ code[i] \in Code
            BY DEF Unused, TypeOK
        <2>2. code'[i] = [code[i] EXCEPT !.attempts = code[i].attempts + 1,
                              !.wrong = IF i \in call[s].saw THEN code[i].wrong + 1 ELSE code[i].wrong]
            BY <2>1 DEF VerifyCount
        <2> QED BY <2>1, <2>2 DEF Code
    <1>4. GuessLimit'
        BY <1>1, GuessKept DEF CodeParts, Idle
    <1>5. WrongCounted'
        <2> SUFFICES ASSUME NEW i \in CodeIds, code'[i] # NoCode
                     PROVE  code'[i].wrong <= code'[i].attempts
            BY DEF WrongCounted
        <2>1. CASE i \in Unused
            BY <1>3, <2>1, RowTyped DEF CodeParts, WrongCounted
        <2>2. CASE i \notin Unused
            BY <1>2, <2>2 DEF CodeParts, WrongCounted
        <2> QED BY <2>1, <2>2
    <1>6. OneSender'
        <2>1. Current' \subseteq Current
            BY <1>1, <1>2, <1>3 DEF Current, Unused
        <2>2. ~At(s, "register.mail") /\ call'[s].pc \notin Sending
            BY <1>1 DEF At, Idle, Sending
        <2> HIDE DEF Current
        <2> QED BY <1>1, <2>1, <2>2, SenderKept DEF CodeParts
    <1>7. AcceptedOnce'
        <2>1. \A t \in Slots, j \in CodeIds : Accepts(t, j)' => Accepts(t, j)
            BY <1>1 DEF Accepts, Idle
        <2>2. \A j \in CodeIds : code'[j] # NoCode => /\ code[j] # NoCode
                                                    /\ code'[j].used = code[j].used
                                                    /\ code'[j].accepted = code[j].accepted
            BY <1>2, <1>3
        <2> QED BY <1>1, <2>1, <2>2 DEF CodeParts, AcceptedOnce
    <1> QED BY <1>4, <1>5, <1>6, <1>7 DEF CodeParts

LEMMA VerifyUsing ==
    ASSUME TypeOK, CodeParts, NEW s \in Slots, VerifyUse(s)
    PROVE  CodeParts'
    <1> DEFINE i == call[s].id
    <1>1. /\ i \in CodeIds /\ Accepts(s, i) /\ At(s, "verify.use")
          /\ registered' = registered /\ crossed' = crossed /\ stray' = stray /\ doubled' = doubled
        BY DEF VerifyUse, Accepts, At, TypeOK, Send, Mail, Wrong, Use, Fetch, Reset, Idle
    <1>2. /\ \A t \in Slots \ {s} : call'[t] = call[t]
          /\ call'[s].pc = "verify.user"
        <2>1. Goto(s, "verify.user")
            BY DEF VerifyUse
        <2>2. [call[s] EXCEPT !.pc = "verify.user"].pc = "verify.user"
            BY <1>1 DEF At, TypeOK, Send, Mail, Wrong, Use, Fetch, Reset, Idle
        <2> QED BY <2>1, <2>2, Moved
    <1>3. \A j \in CodeIds \ {i} : code'[j] = code[j]
        BY DEF VerifyUse, TypeOK
    <1>4. code[i] = NoCode => code'[i] = NoCode
        BY DEF VerifyUse
    <1>5. code[i] # NoCode => /\ code'[i].used = TRUE /\ code'[i].accepted = code[i].accepted + 1
                              /\ code'[i].wrong = code[i].wrong
                              /\ code'[i].attempts = code[i].attempts /\ code'[i].lost = code[i].lost
        <2> SUFFICES ASSUME code[i] # NoCode
                     PROVE  /\ code'[i].used = TRUE /\ code'[i].accepted = code[i].accepted + 1
                            /\ code'[i].wrong = code[i].wrong /\ code'[i].lost = code[i].lost
                            /\ code'[i].attempts = code[i].attempts
            OBVIOUS
        <2>1. code' = [code EXCEPT ![i].used = TRUE, ![i].accepted = @ + 1]
            BY DEF VerifyUse
        <2>2. code'[i] = [code[i] EXCEPT !.used = TRUE, !.accepted = code[i].accepted + 1]
            BY <1>1, <2>1 DEF TypeOK
        <2>3. code[i] \in Code
            BY <1>1 DEF TypeOK
        <2> QED BY <2>2, <2>3 DEF Code
    <1>6. GuessLimit'
        BY <1>2, GuessKept DEF CodeParts
    <1>7. WrongCounted'
        BY <1>3, <1>4, <1>5 DEF CodeParts, WrongCounted
    <1>8. OneSender'
        <2>1. Current' \subseteq Current
            BY <1>1, <1>3, <1>4, <1>5 DEF Current, Unused
        <2>2. ~At(s, "register.mail") /\ call'[s].pc \notin Sending
            BY <1>1, <1>2 DEF At, Sending
        <2> HIDE DEF Current
        <2> QED BY <1>1, <1>2, <2>1, <2>2, SenderKept DEF CodeParts
    <1>9. AcceptedOnce'
        <2>1. \A t \in Slots, j \in CodeIds : Accepts(t, j)' => Accepts(t, j) /\ t # s
            BY <1>2 DEF Accepts
        <2> SUFFICES ASSUME NEW j \in CodeIds \ doubled
                     PROVE  /\ \A q, t \in Slots : Accepts(q, j)' /\ Accepts(t, j)' => q = t
                            /\ code'[j] # NoCode =>
                                   /\ code'[j].accepted <= 1
                                   /\ ~code'[j].used => code'[j].accepted = 0
                                   /\ code'[j].used => \A q \in Slots : ~Accepts(q, j)'
            BY <1>1 DEF AcceptedOnce
        <2>2. CASE j # i
            BY <1>3, <2>1, <2>2 DEF CodeParts, AcceptedOnce
        <2>3. CASE j = i
            <3>0. /\ \A t \in Slots : Accepts(t, j) => t = s
                  /\ code[j] # NoCode => code[j].accepted = 0
                <4>1. /\ \A q, t \in Slots : Accepts(q, j) /\ Accepts(t, j) => q = t
                      /\ code[j] # NoCode => /\ ~code[j].used => code[j].accepted = 0
                                             /\ code[j].used => \A q \in Slots : ~Accepts(q, j)
                    BY DEF CodeParts, AcceptedOnce
                <4>2. Accepts(s, j)
                    BY <1>1, <2>3
                <4> QED BY <4>1, <4>2
            <3>1. \A t \in Slots : ~Accepts(t, j)'
                BY <2>1, <3>0
            <3> QED BY <1>4, <1>5, <2>3, <3>0, <3>1
        <2> QED BY <2>2, <2>3
    <1> QED BY <1>6, <1>7, <1>8, <1>9 DEF CodeParts

LEMMA CodeEnding ==
    ASSUME TypeOK, CodeParts, NEW i \in CodeIds, CodeEnds(i)
    PROVE  CodeParts'
    <1>1. /\ call' = call /\ registered' = registered /\ crossed' = crossed /\ stray' = stray
          /\ doubled' = doubled
          /\ \A j \in CodeIds \ {i} : code'[j] = code[j]
          /\ code[i] # NoCode
        BY DEF CodeEnds, Unused
    <1>2. /\ code'[i].used = code[i].used /\ code'[i].accepted = code[i].accepted
          /\ code'[i].wrong = code[i].wrong /\ code'[i].attempts = code[i].attempts
          /\ code'[i].lost = code[i].lost
        <2>1. code'[i] = [code[i] EXCEPT !.ended = TRUE] /\ code[i] \in Code
            BY <1>1 DEF CodeEnds, TypeOK
        <2> QED BY <2>1 DEF Code
    <1>3. GuessLimit' /\ WrongCounted'
        BY <1>1, <1>2, GuessKept DEF CodeParts, WrongCounted
    <1>4. OneSender'
        <2>1. Current' \subseteq Current
            BY <1>1, <1>2 DEF Current, Unused
        <2> HIDE DEF Current
        <2> QED BY <1>1, <2>1, SenderKept DEF CodeParts
    <1>5. AcceptedOnce'
        BY <1>1, <1>2 DEF CodeParts, AcceptedOnce, Accepts
    <1> QED BY <1>3, <1>4, <1>5 DEF CodeParts

-----------------------------------------------------------------------------
(* The verifiers.                                                          *)

LEMMA VerifierStoring ==
    ASSUME TypeOK, HandedOnce, NEW s \in Slots, NEW v \in Verifiers, StoreVerifier(s, v)
    PROVE  HandedOnce'
    <1>1. /\ \A t \in Slots : call'[t] = call[t]
          /\ given' = given /\ shared' = shared
          /\ kept[v] = "unknown" /\ \A w \in Verifiers \ {v} : kept'[w] = kept[w]
        BY DEF StoreVerifier, Begin, TypeOK
    <1>2. \A t \in Slots, w \in Verifiers : Takes(t, w)' => Takes(t, w)
        BY <1>1 DEF Takes, At
    <1> QED BY <1>1, <1>2 DEF HandedOnce

LEMMA VerifierTaken ==
    ASSUME TypeOK, HandedOnce, NEW s \in Slots, NEW v \in Verifiers, TakeRedis(s, v)
    PROVE  HandedOnce'
    <1>1. /\ call'[s] = [pc |-> "pkce.del", of |-> v] /\ \A t \in Slots \ {s} : call'[t] = call[t]
          /\ call[s] = Idle /\ given' = given /\ kept' = kept /\ kept[v] = "redis"
        BY Moved DEF TakeRedis, Begin
    <1>2. shared \subseteq shared' /\ (v \notin shared' => \A t \in Slots : ~Takes(t, v))
        BY DEF TakeRedis
    <1>3. \A t \in Slots, w \in Verifiers : Takes(t, w)' => Takes(t, w) \/ (t = s /\ w = v)
        BY <1>1 DEF Takes, At
    <1> QED BY <1>1, <1>2, <1>3 DEF HandedOnce

LEMMA VerifierDeleted ==
    ASSUME TypeOK, HandedOnce, NEW s \in Slots, TakeDel(s)
    PROVE  HandedOnce'
    <1> PICK v \in Verifiers : v = call[s].of
        BY DEF TakeDel, At, TypeOK, Send, Mail, Wrong, Use, Fetch, Reset, Idle
    <1>1. /\ call'[s] = Idle /\ \A t \in Slots \ {s} : call'[t] = call[t]
          /\ Takes(s, v)
        BY Moved DEF TakeDel, Takes
    <1>2. \A t \in Slots, w \in Verifiers : Takes(t, w)' => Takes(t, w) /\ t # s
        BY <1>1 DEF Takes, At, Idle
    <1>3. /\ given' = [given EXCEPT ![v] = @ + 1]
          /\ kept' = [kept EXCEPT ![v] = IF redis THEN "gone" ELSE @]
          /\ shared' = IF redis THEN shared ELSE shared \cup {v}
        BY DEF TakeDel
    <1>4. \A w \in Verifiers \ {v} : given'[w] = given[w] /\ kept'[w] = kept[w]
        BY <1>3 DEF TypeOK
    <1>5. /\ shared \subseteq shared'
          /\ v \notin shared' => kept'[v] = "gone" /\ given'[v] = given[v] + 1
        BY <1>3 DEF TypeOK
    <1>6. ASSUME v \notin shared' PROVE given[v] = 0 /\ \A t \in Slots : Takes(t, v) => t = s
        BY <1>1, <1>5, <1>6 DEF HandedOnce
    <1> QED BY <1>2, <1>4, <1>5, <1>6 DEF HandedOnce

LEMMA VerifierFromMemory ==
    ASSUME TypeOK, HandedOnce, NEW s \in Slots, NEW v \in Verifiers, TakeMemory(s, v)
    PROVE  HandedOnce'
    <1>1. /\ \A t \in Slots : call'[t] = call[t]
          /\ shared' = shared /\ kept[v] = "memory"
          /\ given'[v] = given[v] + 1 /\ kept'[v] = "gone"
          /\ \A w \in Verifiers \ {v} : given'[w] = given[w] /\ kept'[w] = kept[w]
        BY DEF TakeMemory, Begin, TypeOK
    <1>2. \A t \in Slots, w \in Verifiers : Takes(t, w)' => Takes(t, w)
        BY <1>1 DEF Takes, At
    <1> QED BY <1>1, <1>2 DEF HandedOnce

\* An entry expires, or memory is lost; requests end with it.
LEMMA VerifierLost ==
    ASSUME HandedOnce, given' = given, shared' = shared,
           \A t \in Slots : call'[t] = call[t] \/ call'[t].pc # "pkce.del",
           \A v \in Verifiers : kept'[v] = kept[v] \/ kept'[v] = "gone"
    PROVE  HandedOnce'
    <1>1. \A t \in Slots, w \in Verifiers : Takes(t, w)' => Takes(t, w)
        BY DEF Takes, At
    <1> QED BY <1>1 DEF HandedOnce

-----------------------------------------------------------------------------
(* The reset tokens.                                                       *)

LEMMA ResetRequested ==
    ASSUME TypeOK, ChangedOnce, NEW s \in Slots, NEW r \in Resets, RequestReset(s, r)
    PROVE  ChangedOnce'
    <1>1. /\ \A t \in Slots : call'[t] = call[t]
          /\ resets' = resets /\ met' = met
          /\ reset[r] = "unknown" /\ \A q \in Resets \ {r} : reset'[q] = reset[q]
        BY DEF RequestReset, Begin, TypeOK
    <1>2. \A t \in Slots, q \in Resets : Resetting(t, q)' => Resetting(t, q)
        BY <1>1 DEF Resetting, At
    <1> QED BY <1>1, <1>2 DEF ChangedOnce

LEMMA ResetFound ==
    ASSUME TypeOK, ChangedOnce, NEW s \in Slots, NEW r \in Resets, ResetRead(s, r)
    PROVE  ChangedOnce'
    <1>1. /\ call'[s] = [pc |-> "reset.write", token |-> r]
          /\ \A t \in Slots \ {s} : call'[t] = call[t]
          /\ call[s] = Idle /\ reset' = reset /\ resets' = resets /\ reset[r] = "open"
        BY Moved DEF ResetRead, Begin
    <1>2. met \subseteq met' /\ (r \notin met' => \A t \in Slots : ~Resetting(t, r))
        BY DEF ResetRead, Resetting
    <1>3. \A t \in Slots, q \in Resets : Resetting(t, q)' => Resetting(t, q) \/ (t = s /\ q = r)
        BY <1>1 DEF Resetting, At
    <1> QED BY <1>1, <1>2, <1>3 DEF ChangedOnce

LEMMA ResetWritten ==
    ASSUME TypeOK, ChangedOnce, NEW s \in Slots, ResetWrite(s)
    PROVE  ChangedOnce'
    <1> PICK r \in Resets : r = call[s].token
        BY DEF ResetWrite, At, TypeOK, Send, Mail, Wrong, Use, Fetch, Reset, Idle
    <1>1. /\ call'[s] = Idle /\ \A t \in Slots \ {s} : call'[t] = call[t]
          /\ Resetting(s, r) /\ met' = met
        BY Moved DEF ResetWrite, Resetting
    <1>2. \A t \in Slots, q \in Resets : Resetting(t, q)' => Resetting(t, q) /\ t # s
        BY <1>1 DEF Resetting, At, Idle
    <1>3. /\ reset'[r] = "used" /\ resets'[r] = resets[r] + 1
          /\ \A q \in Resets \ {r} : reset'[q] = reset[q] /\ resets'[q] = resets[q]
        BY DEF ResetWrite, TypeOK
    <1>4. ASSUME r \notin met PROVE resets[r] = 0 /\ \A t \in Slots : Resetting(t, r) => t = s
        BY <1>1, <1>4 DEF ChangedOnce
    <1> QED BY <1>1, <1>2, <1>3, <1>4 DEF ChangedOnce

LEMMA ResetEnding ==
    ASSUME TypeOK, ChangedOnce, NEW r \in Resets, ResetEnds(r)
    PROVE  ChangedOnce'
    <1>1. /\ call' = call /\ resets' = resets /\ met' = met
          /\ reset'[r] = "ended" /\ \A q \in Resets \ {r} : reset'[q] = reset[q]
        BY DEF ResetEnds, TypeOK
    <1>2. \A t \in Slots, q \in Resets : Resetting(t, q)' => Resetting(t, q)
        BY <1>1 DEF Resetting, At
    <1> QED BY <1>1, <1>2 DEF ChangedOnce

-----------------------------------------------------------------------------
\* A step of a code leaves verifiers and tokens alone; likewise for the others.
LEMMA CodesStep == CodesInv /\ [Next]_vars => CodesInv'
    <1> SUFFICES ASSUME CodesInv, [Next]_vars PROVE CodesInv'
        OBVIOUS
    <1>t. TypeOK /\ TypeOK' /\ CodeParts /\ HandedOnce /\ ChangedOnce
        BY CodesTyped DEF CodesInv, CodeParts
    <1> SUFFICES CodeParts' /\ HandedOnce' /\ ChangedOnce'
        BY <1>t DEF CodesInv, CodeParts
    <1> DEFINE Quiet(pcs) == \A t \in Slots : call'[t] = call[t] \/ call'[t].pc \notin pcs
               Coding == {"verify.use"} \cup Sending
               Quieter == \A t \in Slots : call'[t] = call[t] \/ ~At(t, "register.mail")
               All == Coding \cup {"pkce.del", "reset.write"}
    <1>e. ASSUME NEW s \in Slots, Done(s) PROVE Quiet(All)
        BY <1>e, <1>t, Moved DEF Idle, Sending
    <1>c. ASSUME UNCHANGED codeVars, Quiet(Coding), Quieter PROVE CodeParts'
        BY <1>t, <1>c, CodePartsKept DEF codeVars
    <1>p. ASSUME UNCHANGED pkceVars, Quiet({"pkce.del"}) PROVE HandedOnce'
        BY <1>t, <1>p, HandedKept DEF pkceVars
    <1>r. ASSUME UNCHANGED resetVars, Quiet({"reset.write"}) PROVE ChangedOnce'
        BY <1>t, <1>r, ChangedKept DEF resetVars
    <1>1. ASSUME NEW s \in Slots, SendStart(s) PROVE CodeParts' /\ HandedOnce' /\ ChangedOnce'
        <2>1. Quiet({"pkce.del", "reset.write"})
            BY <1>1, <1>t, Moved DEF SendStart
        <2> QED BY <1>1, <1>t, <1>p, <1>r, <2>1, SendStarting DEF SendStart
    <1>2. ASSUME NEW s \in Slots, SendDelete(s) PROVE CodeParts' /\ HandedOnce' /\ ChangedOnce'
        <2>1. call'[s] = [call[s] EXCEPT !.pc = "send.insert"] /\ \A t \in Slots \ {s} : call'[t] = call[t]
            BY <1>2, <1>t, Moved DEF SendDelete
        <2>2. call'[s].pc = "send.insert"
            BY <1>2, <1>t, <2>1 DEF SendDelete, At, TypeOK, Send, Mail, Wrong, Use, Fetch, Reset, Idle
        <2>3. Quiet({"pkce.del", "reset.write"})
            BY <2>1, <2>2
        <2> QED BY <1>2, <1>t, <1>p, <1>r, <2>3, SendDeleting DEF SendDelete
    <1>3. ASSUME NEW s \in Slots, SendInsert(s) PROVE CodeParts' /\ HandedOnce' /\ ChangedOnce'
        BY <1>3, <1>t, <1>p, <1>r, <1>e, SendInserting DEF SendInsert
    <1>4. ASSUME NEW s \in Slots, NEW i \in CodeIds, VerifyRead(s, i)
          PROVE  CodeParts' /\ HandedOnce' /\ ChangedOnce'
        <2>1. Quiet({"pkce.del", "reset.write"})
            BY <1>4, <1>t, Moved DEF VerifyRead
        <2> QED BY <1>4, <1>t, <1>p, <1>r, <2>1, VerifyReading DEF VerifyRead
    <1>5. ASSUME NEW s \in Slots, NEW v \in Values, VerifyWrong(s, v)
          PROVE  CodeParts' /\ HandedOnce' /\ ChangedOnce'
        <2>1. Quiet(All) /\ Quieter
            BY <1>5, <1>t, Moved DEF VerifyWrong, Begin, Idle, At, Sending
        <2> QED BY <1>5, <1>c, <1>p, <1>r, <2>1 DEF VerifyWrong
    <1>6. ASSUME NEW s \in Slots, VerifyCount(s) PROVE CodeParts' /\ HandedOnce' /\ ChangedOnce'
        BY <1>6, <1>t, <1>p, <1>r, <1>e, VerifyCounting DEF VerifyCount
    <1>7. ASSUME NEW s \in Slots, VerifyUse(s) PROVE CodeParts' /\ HandedOnce' /\ ChangedOnce'
        <2>1. [call[s] EXCEPT !.pc = "verify.user"].pc = "verify.user"
            BY <1>7, <1>t DEF VerifyUse, At, TypeOK, Send, Mail, Wrong, Use, Fetch, Reset, Idle
        <2>2. Quiet({"pkce.del", "reset.write"})
            BY <1>7, <1>t, <2>1, Moved DEF VerifyUse
        <2> QED BY <1>7, <1>t, <1>p, <1>r, <2>2, VerifyUsing DEF VerifyUse
    <1>8. ASSUME NEW s \in Slots, VerifyUser(s) PROVE CodeParts' /\ HandedOnce' /\ ChangedOnce'
        <2>1. /\ Quiet(All) /\ code' = code /\ doubled' = doubled
              /\ registered' = registered /\ crossed' = crossed /\ stray' = stray
            BY <1>8, <1>e DEF VerifyUser
        <2>m. Quieter
            BY <1>8, <1>t, Moved DEF VerifyUser, At
        <2>2. CodeParts'
            BY <1>t, <2>1, <2>m, CodePartsKept
        <2> QED BY <1>8, <1>p, <1>r, <2>1, <2>2 DEF VerifyUser
    <1>9. ASSUME NEW i \in CodeIds, CodeEnds(i) PROVE CodeParts' /\ HandedOnce' /\ ChangedOnce'
        BY <1>9, <1>t, <1>p, <1>r, CodeEnding DEF CodeEnds
    <1>10. ASSUME NEW s \in Slots, NEW v \in Verifiers,
                  StoreVerifier(s, v) \/ TakeMemory(s, v)
           PROVE  CodeParts' /\ HandedOnce' /\ ChangedOnce'
        <2>1. Quiet(All) /\ Quieter
            BY <1>10, <1>t, Moved DEF StoreVerifier, TakeMemory, Begin, Idle, At, Sending
        <2>2. UNCHANGED codeVars /\ UNCHANGED resetVars
            BY <1>10 DEF StoreVerifier, TakeMemory
        <2> QED BY <1>10, <1>t, <1>c, <1>r, <2>1, <2>2, VerifierStoring, VerifierFromMemory
    <1>11. ASSUME NEW s \in Slots, NEW v \in Verifiers, TakeRedis(s, v)
           PROVE  CodeParts' /\ HandedOnce' /\ ChangedOnce'
        <2>1. Quiet(Coding \cup {"reset.write"}) /\ Quieter
            BY <1>11, <1>t, Moved DEF TakeRedis, Begin, Idle, At, Sending
        <2> QED BY <1>11, <1>t, <1>c, <1>r, <2>1, VerifierTaken DEF TakeRedis
    <1>12. ASSUME NEW s \in Slots, TakeDel(s) PROVE CodeParts' /\ HandedOnce' /\ ChangedOnce'
        <2>1. Quieter
            BY <1>12, <1>t, Moved DEF TakeDel, At
        <2> QED BY <1>12, <1>t, <1>c, <1>r, <1>e, <2>1, VerifierDeleted DEF TakeDel
    <1>13. ASSUME NEW v \in Verifiers, VerifierEnds(v)
           PROVE  CodeParts' /\ HandedOnce' /\ ChangedOnce'
        <2>1. \A w \in Verifiers : kept'[w] = kept[w] \/ kept'[w] = "gone"
            BY <1>13, <1>t DEF VerifierEnds, TypeOK
        <2> QED BY <1>13, <1>t, <1>c, <1>r, <2>1, VerifierLost DEF VerifierEnds
    <1>14. CASE RedisFails \/ RedisReturns
        <2>1. /\ UNCHANGED codeVars /\ UNCHANGED resetVars /\ call' = call
              /\ kept' = kept /\ given' = given /\ shared' = shared
            BY <1>14 DEF RedisFails, RedisReturns
        <2> QED BY <1>t, <1>c, <1>r, <2>1, VerifierLost
    <1>15. ASSUME NEW s \in Slots, NEW r \in Resets, RequestReset(s, r)
           PROVE  CodeParts' /\ HandedOnce' /\ ChangedOnce'
        <2>1. Quiet(All) /\ Quieter
            BY <1>15, <1>t, Moved DEF RequestReset, Begin, Idle, At, Sending
        <2> QED BY <1>15, <1>t, <1>c, <1>p, <2>1, ResetRequested DEF RequestReset
    <1>16. ASSUME NEW s \in Slots, NEW r \in Resets, ResetRead(s, r)
           PROVE  CodeParts' /\ HandedOnce' /\ ChangedOnce'
        <2>1. Quiet(Coding \cup {"pkce.del"}) /\ Quieter
            BY <1>16, <1>t, Moved DEF ResetRead, Begin, Idle, At, Sending
        <2> QED BY <1>16, <1>t, <1>c, <1>p, <2>1, ResetFound DEF ResetRead
    <1>17. ASSUME NEW s \in Slots, ResetWrite(s) PROVE CodeParts' /\ HandedOnce' /\ ChangedOnce'
        <2>1. Quieter
            BY <1>17, <1>t, Moved DEF ResetWrite, At
        <2> QED BY <1>17, <1>t, <1>c, <1>p, <1>e, <2>1, ResetWritten DEF ResetWrite
    <1>18. ASSUME NEW r \in Resets, ResetEnds(r) PROVE CodeParts' /\ HandedOnce' /\ ChangedOnce'
        BY <1>18, <1>t, <1>c, <1>p, ResetEnding DEF ResetEnds
    <1>19. ASSUME NEW s \in Slots, Abort(s) PROVE CodeParts' /\ HandedOnce' /\ ChangedOnce'
        <2>1. \A t \in Slots : call'[t] = call[t] \/ (t \in {s} /\ call'[t] = Idle)
            BY <1>19, <1>t, Moved DEF Abort
        <2>2. CodeParts'
            BY <1>19, <1>t, <2>1, RollingBack DEF Abort
        <2> QED BY <1>19, <1>p, <1>r, <1>e, <2>2 DEF Abort
    <1>20. CASE Restart
        <2>1. Quiet(All) /\ \A t \in Slots : call'[t] = Idle
            BY <1>20 DEF Restart, Idle, Sending
        <2>2. /\ given' = given /\ shared' = shared
              /\ \A v \in Verifiers : kept'[v] = kept[v] \/ kept'[v] = "gone"
            BY <1>20 DEF Restart
        <2>3. UNCHANGED resetVars
            BY <1>20 DEF Restart
        <2>4. CodeParts'
            BY <1>20, <1>t, <2>1, RollingBack DEF Restart
        <2> QED BY <1>t, <1>r, <2>1, <2>2, <2>3, <2>4, VerifierLost
    <1>21. CASE UNCHANGED vars
        BY <1>21, <1>c, <1>p, <1>r DEF vars
    <1>22. ASSUME NEW s \in Slots, Register(s) \/ RegisterAgain(s)
           PROVE  CodeParts' /\ HandedOnce' /\ ChangedOnce'
        <2>1. Quiet(All) /\ Quieter
            BY <1>22, <1>t, Moved DEF Register, RegisterAgain, Begin, Idle, At, Sending
        <2> QED BY <1>22, <1>c, <1>p, <1>r, <2>1 DEF Register, RegisterAgain
    <1>23. ASSUME NEW s \in Slots,
                  RegisterUser(s) \/ RegisterCode(s) \/ RegisterCommit(s) \/ RegisterDelete(s)
           PROVE  CodeParts' /\ HandedOnce' /\ ChangedOnce'
        <2>1. /\ \A t \in Slots \ {s} : call'[t] = call[t]
              /\ call'[s].pc \in {"idle", "register.code", "register.mail"}
            <3>1. CASE RegisterUser(s)
                <4>1. call[s] \in Send
                    BY <1>t, <3>1 DEF RegisterUser, At, TypeOK, Send, Mail, Wrong, Use, Fetch, Reset, Idle
                <4>2. CASE Done(s)
                    BY <1>t, <4>2, Moved DEF Idle
                <4>3. CASE Goto(s, "register.code")
                    <5>1. call'[s] = [call[s] EXCEPT !.pc = "register.code"]
                        BY <1>t, <4>3, Moved
                    <5>2. \A t \in Slots \ {s} : call'[t] = call[t]
                        BY <1>t, <4>3, Moved
                    <5> QED BY <4>1, <5>1, <5>2 DEF Send
                <4> QED BY <3>1, <4>2, <4>3 DEF RegisterUser
            <3>2. CASE RegisterCode(s)
                BY <1>t, <3>2 DEF RegisterCode, TypeOK
            <3>3. CASE RegisterCommit(s) \/ RegisterDelete(s)
                BY <1>t, <3>3, Moved DEF RegisterCommit, RegisterDelete, Idle
            <3> QED BY <1>23, <3>1, <3>2, <3>3
        <2>2. Quiet({"pkce.del"}) /\ Quiet({"reset.write"})
            BY <2>1
        <2>3. UNCHANGED pkceVars /\ UNCHANGED resetVars
            BY <1>23 DEF RegisterUser, RegisterCode, RegisterCommit, RegisterDelete
        <2> QED
            BY <1>23, <1>t, <1>p, <1>r, <2>2, <2>3, RegisterInserting, RegisterCoding,
               RegisterCommitting, RegisterDeleting
    <1> QED
        BY <1>1, <1>2, <1>3, <1>4, <1>5, <1>6, <1>7, <1>8, <1>9, <1>10, <1>11, <1>12, <1>13,
           <1>14, <1>15, <1>16, <1>17, <1>18, <1>19, <1>20, <1>21, <1>22, <1>23 DEF Next, Step

LEMMA CodesAlways == Spec => []CodesInv
    BY CodesStart, CodesStep, PTL DEF Spec

\* A code that was guessed wrong as often as allowed is not accepted any more,
\* and of the codes of the user one at most may be guessed, besides those sent by
\* requests that overlapped (verifyCode, register, resendVerificationCode), for
\* any number of codes, requests and guesses.
THEOREM GuessesStayBounded == Spec => []GuessesBounded
    <1>1. CodesInv => GuessesBounded
        <2> SUFFICES ASSUME CodesInv PROVE Cardinality(Current) <= 1
            BY DEF CodesInv, GuessesBounded, OneLiveCode, Current
        <2>1. \A i, j \in Current : i = j
            BY DEF CodesInv, OneSender
        <2>2. CASE Current = {}
            BY <2>2, FS_EmptySet
        <2>3. CASE Current # {}
            <3>1. PICK i : Current = {i}
                BY <2>1, <2>3
            <3>2. Cardinality({i}) = 1
                BY FS_Singleton
            <3> QED BY <3>1, <3>2
        <2> QED BY <2>2, <2>3
    <1> QED BY <1>1, CodesAlways, PTL

\* Codes, PKCE verifiers and reset tokens work once (verifyCode,
\* PkceService.getCodeVerifier, AuthService.resetPassword).
THEOREM SpentOnlyOnce == Spec => []SpentOnce
    <1>1. CodesInv => SpentOnce
        BY DEF CodesInv, SpentOnce, AcceptedOnce, HandedOnce, ChangedOnce,
               CodeAcceptedOnce, VerifierOnce, ResetOnce
    <1> QED BY <1>1, CodesAlways, PTL

-----------------------------------------------------------------------------
(* Counting.                                                               *)

LEMMA OneMore ==
    ASSUME NEW S, NEW T, NEW x, IsFiniteSet(S), x \notin S, T = S \cup {x}
    PROVE  IsFiniteSet(T) /\ Cardinality(T) = Cardinality(S) + 1
    BY FS_AddElement

LEMMA OneLess ==
    ASSUME NEW S, NEW T, NEW x, IsFiniteSet(S), x \in S, T = S \ {x}
    PROVE  IsFiniteSet(T) /\ Cardinality(T) = Cardinality(S) - 1
    BY FS_RemoveElement

-----------------------------------------------------------------------------
(* The limits of a role.                                                   *)

\* Invitations on their way, those not inserted yet, and those about to count.
Inviting == {s \in Slots : call[s] # Lim!Idle}
Early == {s \in Slots : Lim!At(s, "limit.reset") \/ Lim!At(s, "limit.insert")}
ToCount == {s \in Slots : Lim!At(s, "limit.count")}

LimitsTyped ==
    /\ limit \in Lim!Limit \cup {Lim!NoLimit} /\ period \in 0..MaxPeriods
    /\ since \in Nat /\ lost \in Nat /\ mixed \in BOOLEAN
    /\ call \in [Slots -> {Lim!Step(pc) : pc \in Lim!Steps} \cup {Lim!Idle}]
    /\ calls \in 0..AreaCalls["limits"] /\ faults \in 0..AreaFaults["limits"]

\* Only a limit is reset, and each request is counted, lost or inserted once.
LimitsInv ==
    /\ LimitsTyped
    /\ \A s \in Slots : Lim!At(s, "limit.reset") => limit.made
    /\ since + Cardinality(Early) <= calls
    /\ lost + Cardinality(Inviting) <= calls
    /\ limit.usage + Cardinality(Inviting) <= calls
    /\ limit.made /\ ~mixed => limit.usage + lost + Cardinality(ToCount) = since

LEMMA LimitsFinite ==
    /\ IsFiniteSet(Inviting) /\ Cardinality(Inviting) \in Nat
    /\ IsFiniteSet(Early) /\ Cardinality(Early) \in Nat
    /\ IsFiniteSet(ToCount) /\ Cardinality(ToCount) \in Nat
    <1>1. Inviting \subseteq Slots /\ Early \subseteq Slots /\ ToCount \subseteq Slots
        BY DEF Inviting, Early, ToCount
    <1> QED BY <1>1, AreasAssumption, FS_Subset, FS_CardinalityType

LEMMA LimitsStart == Lim!Init => LimitsInv
    <1> SUFFICES ASSUME Lim!Init PROVE LimitsInv
        OBVIOUS
    <1>1. LimitsTyped
        <2>1. /\ period \in 0..MaxPeriods /\ since \in Nat /\ lost \in Nat
              /\ calls \in 0..AreaCalls["limits"] /\ faults \in 0..AreaFaults["limits"]
            BY AreasAssumption DEF Lim!Init, Areas
        <2>2. /\ limit \in Lim!Limit \cup {Lim!NoLimit} /\ mixed \in BOOLEAN
              /\ call \in [Slots -> {Lim!Step(pc) : pc \in Lim!Steps} \cup {Lim!Idle}]
            BY DEF Lim!Init
        <2> QED BY <2>1, <2>2 DEF LimitsTyped
    <1>2. Inviting = {} /\ Early = {} /\ ToCount = {}
        BY DEF Lim!Init, Inviting, Early, ToCount, Lim!At, Lim!Idle
    <1>3. Cardinality({}) = 0
        BY FS_EmptySet
    <1> QED BY <1>1, <1>2, <1>3 DEF LimitsInv, Lim!Init, Lim!NoLimit, Lim!At, Lim!Idle

LEMMA LimitsHold == LimitsInv => Lim!TypeOK /\ Lim!UsageCounts
    <1> SUFFICES ASSUME LimitsInv PROVE Lim!TypeOK /\ Lim!UsageCounts
        OBVIOUS
    <1>1. Lim!UsageCounts
        BY DEF LimitsInv, Lim!UsageCounts, ToCount, Lim!Cardinality, Cardinality
    <1>2. Lim!TypeOK
        <2>1. since \in 0..AreaCalls["limits"] /\ lost \in 0..AreaCalls["limits"]
            <3>1. /\ Cardinality(Early) \in Nat /\ Cardinality(Inviting) \in Nat
                  /\ since \in Nat /\ lost \in Nat /\ calls \in 0..AreaCalls["limits"]
                  /\ AreaCalls["limits"] \in Nat
                BY LimitsFinite, AreasAssumption DEF LimitsInv, LimitsTyped, Areas
            <3>2. since + Cardinality(Early) <= calls /\ lost + Cardinality(Inviting) <= calls
                BY DEF LimitsInv
            <3> QED BY <3>1, <3>2
        <2> QED BY <2>1 DEF LimitsInv, LimitsTyped, Lim!TypeOK
    <1> QED BY <1>1, <1>2

LEMMA LimitShape ==
    ASSUME LimitsTyped
    PROVE  /\ limit.usage \in Nat /\ limit.made \in BOOLEAN /\ limit.renews \in BOOLEAN
           /\ limit.made => limit \in Lim!Limit
    <1>1. limit \in Lim!Limit \/ limit = Lim!NoLimit
        BY DEF LimitsTyped
    <1>2. CASE limit \in Lim!Limit
        <2>1. limit.usage \in 0..AreaCalls["limits"]
            BY <1>2 DEF Lim!Limit
        <2>2. limit.usage \in Nat
            BY <2>1
        <2>3. limit.made \in BOOLEAN /\ limit.renews \in BOOLEAN
            BY <1>2 DEF Lim!Limit
        <2> QED BY <1>2, <2>2, <2>3
    <1>3. CASE limit = Lim!NoLimit
        BY <1>3 DEF Lim!NoLimit
    <1> QED BY <1>1, <1>2, <1>3

\* What a request at one place, moved to another, does to the counts.
LEMMA LimitsMoved ==
    ASSUME LimitsTyped, NEW s \in Slots, NEW c, call' = [call EXCEPT ![s] = c]
    PROVE  /\ c # Lim!Idle => Inviting' = Inviting \cup {s}
           /\ c # Lim!Idle /\ s \in Inviting => Inviting' = Inviting
           /\ c = Lim!Idle => Inviting' = Inviting \ {s}
           /\ c.pc \in {"limit.reset", "limit.insert"} => Early' = Early \cup {s}
           /\ c.pc \in {"limit.reset", "limit.insert"} /\ s \in Early => Early' = Early
           /\ c.pc \notin {"limit.reset", "limit.insert"} => Early' = Early \ {s}
           /\ c.pc \notin {"limit.reset", "limit.insert"} /\ s \notin Early => Early' = Early
           /\ c.pc = "limit.count" => ToCount' = ToCount \cup {s}
           /\ c.pc # "limit.count" => ToCount' = ToCount \ {s}
           /\ c.pc # "limit.count" /\ s \notin ToCount => ToCount' = ToCount
    <1>1. call'[s] = c /\ \A t \in Slots \ {s} : call'[t] = call[t]
        BY DEF LimitsTyped
    <1>2. \A t : t \in Inviting' <=> t \in Slots /\ call'[t] # Lim!Idle
        BY DEF Inviting
    <1>3. \A t : t \in Early' <=> t \in Slots /\ call'[t].pc \in {"limit.reset", "limit.insert"}
        BY DEF Early, Lim!At
    <1>4. \A t : t \in ToCount' <=> t \in Slots /\ call'[t].pc = "limit.count"
        BY DEF ToCount, Lim!At
    <1>5. /\ c # Lim!Idle => Inviting' = Inviting \cup {s}
          /\ c # Lim!Idle /\ s \in Inviting => Inviting' = Inviting
          /\ c = Lim!Idle => Inviting' = Inviting \ {s}
        BY <1>1, <1>2 DEF Inviting
    <1>6. /\ c.pc \in {"limit.reset", "limit.insert"} => Early' = Early \cup {s}
          /\ c.pc \in {"limit.reset", "limit.insert"} /\ s \in Early => Early' = Early
          /\ c.pc \notin {"limit.reset", "limit.insert"} => Early' = Early \ {s}
          /\ c.pc \notin {"limit.reset", "limit.insert"} /\ s \notin Early => Early' = Early
        BY <1>1, <1>3 DEF Early, Lim!At
    <1>7. /\ c.pc = "limit.count" => ToCount' = ToCount \cup {s}
          /\ c.pc # "limit.count" => ToCount' = ToCount \ {s}
          /\ c.pc # "limit.count" /\ s \notin ToCount => ToCount' = ToCount
        BY <1>1, <1>4 DEF ToCount, Lim!At
    <1> QED BY <1>5, <1>6, <1>7

LEMMA LimitsStep == LimitsInv /\ [Lim!Next]_(Lim!vars) => LimitsInv'
    <1> SUFFICES ASSUME LimitsInv, [Lim!Next]_(Lim!vars) PROVE LimitsInv'
        OBVIOUS
    <1> USE DEF Lim!Counters
    <1>t. LimitsTyped
        BY DEF LimitsInv
    <1>a. /\ MaxPeriods \in Nat /\ AreaCalls["limits"] \in Nat /\ AreaFaults["limits"] \in Nat
          /\ calls \in Nat /\ faults \in Nat /\ period \in Nat /\ since \in Nat /\ lost \in Nat
        BY <1>t, AreasAssumption DEF Areas, LimitsTyped
    <1>1. ASSUME NEW value \in 1..MaxLimit, NEW renews \in BOOLEAN, Lim!CreateRoleLimit(value, renews)
          PROVE  LimitsInv'
        <2>1. /\ call' = call /\ since' = 0 /\ lost' = 0 /\ calls' = calls + 1 /\ calls < AreaCalls["limits"]
              /\ period' = period /\ faults' = faults
            BY <1>1 DEF Lim!CreateRoleLimit, Lim!Made
        <2>2. /\ limit' = [value |-> value, usage |-> 0, reset |-> period, renews |-> renews, made |-> TRUE]
              /\ mixed' = Lim!Counting
            BY <1>1 DEF Lim!CreateRoleLimit
        <2>3. limit' \in Lim!Limit /\ limit'.made = TRUE /\ limit'.usage = 0
            BY <1>a, <1>t, <2>2 DEF Lim!Limit, LimitsTyped
        <2>4. mixed' \in BOOLEAN /\ (~mixed' => ToCount = {})
            BY <2>2 DEF Lim!Counting, ToCount
        <2>5. LimitsTyped'
            BY <1>t, <1>a, <2>1, <2>3, <2>4 DEF LimitsTyped
        <2>6. Inviting' = Inviting /\ Early' = Early /\ ToCount' = ToCount
            BY <2>1 DEF Inviting, Early, ToCount, Lim!At
        <2>7. /\ since' + Cardinality(Early') <= calls'
              /\ lost' + Cardinality(Inviting') <= calls'
              /\ limit'.usage + Cardinality(Inviting') <= calls'
            BY <1>a, <2>1, <2>3, <2>6, LimitsFinite DEF LimitsInv
        <2>8. ~mixed' => limit'.usage + lost' + Cardinality(ToCount') = since'
            BY <2>1, <2>3, <2>4, <2>6, FS_EmptySet
        <2> QED BY <2>3, <2>5, <2>7, <2>8 DEF LimitsInv
    <1>2. ASSUME NEW value \in 1..MaxLimit, NEW renews \in BOOLEAN, Lim!UpdateRoleLimit(value, renews)
          PROVE  LimitsInv'
        <2>1. /\ call' = call /\ since' = since /\ lost' = lost /\ calls' = calls + 1
              /\ calls < AreaCalls["limits"] /\ period' = period /\ faults' = faults
            BY <1>2 DEF Lim!UpdateRoleLimit, Lim!Made
        <2>2. /\ limit.made /\ limit' = [limit EXCEPT !.value = value, !.renews = renews]
              /\ mixed' = mixed
            BY <1>2 DEF Lim!UpdateRoleLimit
        <2>3. /\ limit' \in Lim!Limit /\ limit'.made = limit.made /\ limit'.usage = limit.usage
            BY <1>t, <2>2, LimitShape DEF Lim!Limit
        <2>5. LimitsTyped'
            BY <1>t, <1>a, <2>1, <2>2, <2>3 DEF LimitsTyped
        <2>6. Inviting' = Inviting /\ Early' = Early /\ ToCount' = ToCount
            BY <2>1 DEF Inviting, Early, ToCount, Lim!At
        <2>7. /\ since' + Cardinality(Early') <= calls'
              /\ lost' + Cardinality(Inviting') <= calls'
              /\ limit'.usage + Cardinality(Inviting') <= calls'
            BY <1>a, <1>t, <2>1, <2>3, <2>6, LimitsFinite, LimitShape DEF LimitsInv
        <2>8. ~mixed' => limit'.usage + lost' + Cardinality(ToCount') = since'
            BY <2>1, <2>2, <2>3, <2>6 DEF LimitsInv
        <2> QED BY <2>2, <2>3, <2>5, <2>7, <2>8 DEF LimitsInv
    <1>3. ASSUME NEW s \in Slots, Lim!CheckRoleLimit(s) PROVE LimitsInv'
        <2> DEFINE to == IF Lim!ShouldReset THEN "limit.reset" ELSE "limit.insert"
        <2>1. /\ call[s] = Lim!Idle /\ call' = [call EXCEPT ![s] = Lim!Step(to)]
              /\ since' = since /\ lost' = lost /\ calls' = calls + 1
              /\ calls < AreaCalls["limits"] /\ period' = period /\ faults' = faults /\ limit' = limit
            BY <1>3 DEF Lim!CheckRoleLimit, Lim!Made, Lim!Goto, Lim!limits
        <2>2. mixed' = mixed
            BY <1>3 DEF Lim!CheckRoleLimit, Lim!limits
        <2>3. Lim!Step(to).pc = to /\ Lim!Step(to) # Lim!Idle /\ Lim!Step(to) \in {Lim!Step(pc) : pc \in Lim!Steps}
            BY DEF Lim!Step, Lim!Idle, Lim!Steps
        <2>4. /\ s \notin Inviting /\ s \notin Early /\ s \notin ToCount
              /\ Inviting' = Inviting \cup {s} /\ Early' = Early \cup {s} /\ ToCount' = ToCount \ {s}
            <3>1. s \notin Inviting /\ s \notin Early /\ s \notin ToCount
                BY <2>1 DEF Inviting, Early, ToCount, Lim!At, Lim!Idle
            <3>2. to \in {"limit.reset", "limit.insert"} /\ to # "limit.count"
                OBVIOUS
            <3> HIDE DEF to
            <3> QED BY <1>t, <2>1, <2>3, <3>1, <3>2, LimitsMoved
        <2>5. LimitsTyped'
            <3>1. call' \in [Slots -> {Lim!Step(pc) : pc \in Lim!Steps} \cup {Lim!Idle}]
                BY <1>t, <2>1, <2>3 DEF LimitsTyped
            <3> QED BY <1>t, <1>a, <2>1, <2>2, <3>1 DEF LimitsTyped
        <2>6. /\ Cardinality(Inviting') = Cardinality(Inviting) + 1
              /\ Cardinality(Early') = Cardinality(Early) + 1 /\ ToCount' = ToCount
            BY <2>4, LimitsFinite, OneMore
        <2>7. /\ since' + Cardinality(Early') <= calls'
              /\ lost' + Cardinality(Inviting') <= calls'
              /\ limit'.usage + Cardinality(Inviting') <= calls'
            BY <1>a, <1>t, <2>1, <2>6, LimitsFinite, LimitShape DEF LimitsInv
        <2>8. \A t \in Slots : Lim!At(t, "limit.reset")' => limit.made
            <3>1. to = "limit.reset" => limit.made
                BY DEF Lim!ShouldReset
            <3> HIDE DEF to
            <3> QED BY <1>t, <2>1, <2>3, <3>1 DEF LimitsInv, LimitsTyped, Lim!At
        <2> QED BY <2>1, <2>2, <2>5, <2>6, <2>7, <2>8 DEF LimitsInv
    <1>4. ASSUME NEW s \in Slots, Lim!ResetRoleLimitUsage(s) PROVE LimitsInv'
        <2>1. /\ call[s].pc = "limit.reset" /\ call' = [call EXCEPT ![s] = Lim!Step("limit.insert")]
              /\ since' = 0 /\ lost' = 0 /\ calls' = calls /\ period' = period /\ faults' = faults
              /\ limit' = [limit EXCEPT !.usage = 0, !.reset = period]
            BY <1>4 DEF Lim!ResetRoleLimitUsage, Lim!Goto, Lim!At
        <2>2. mixed' = Lim!Counting /\ mixed' \in BOOLEAN /\ (~mixed' => ToCount = {})
            BY <1>4 DEF Lim!ResetRoleLimitUsage, Lim!Counting, ToCount
        <2>3. limit.made
            BY <2>1 DEF LimitsInv, Lim!At
        <2>4. limit' \in Lim!Limit /\ limit'.made = limit.made /\ limit'.usage = 0
            <3>1. limit \in Lim!Limit /\ period \in 0..MaxPeriods /\ 0 \in 0..AreaCalls["limits"]
                BY <1>a, <1>t, <2>3, LimitShape DEF LimitsTyped
            <3> QED BY <2>1, <3>1 DEF Lim!Limit
        <2>5. LimitsTyped'
            <3>1. Lim!Step("limit.insert") \in {Lim!Step(pc) : pc \in Lim!Steps}
                BY DEF Lim!Steps
            <3>2. call' \in [Slots -> {Lim!Step(pc) : pc \in Lim!Steps} \cup {Lim!Idle}]
                BY <1>t, <2>1, <3>1 DEF LimitsTyped
            <3> QED BY <1>t, <1>a, <2>1, <2>2, <2>4, <3>2 DEF LimitsTyped
        <2>6. Inviting' = Inviting /\ Early' = Early /\ ToCount' = ToCount
            <3>1. s \in Inviting /\ s \in Early /\ s \notin ToCount
                BY <2>1 DEF Inviting, Early, ToCount, Lim!At, Lim!Idle
            <3>2. Lim!Step("limit.insert").pc = "limit.insert" /\ Lim!Step("limit.insert") # Lim!Idle
                BY DEF Lim!Step, Lim!Idle
            <3> QED BY <1>t, <2>1, <3>1, <3>2, LimitsMoved
        <2>7. /\ since' + Cardinality(Early') <= calls'
              /\ lost' + Cardinality(Inviting') <= calls'
              /\ limit'.usage + Cardinality(Inviting') <= calls'
            BY <1>a, <1>t, <2>1, <2>4, <2>6, LimitsFinite, LimitShape DEF LimitsInv
        <2>8. ~mixed' => limit'.usage + lost' + Cardinality(ToCount') = since'
            BY <2>1, <2>2, <2>4, <2>6, FS_EmptySet
        <2> QED BY <2>3, <2>4, <2>5, <2>7, <2>8 DEF LimitsInv
    <1>5. ASSUME NEW s \in Slots, Lim!InsertInvitation(s) PROVE LimitsInv'
        <2>1. /\ call[s].pc = "limit.insert" /\ call' = [call EXCEPT ![s] = Lim!Step("limit.count")]
              /\ since' = since + 1 /\ lost' = lost /\ calls' = calls /\ period' = period
              /\ faults' = faults /\ limit' = limit
            BY <1>5 DEF Lim!InsertInvitation, Lim!Goto, Lim!At
        <2>2. mixed' = mixed
            BY <1>5 DEF Lim!InsertInvitation
        <2>4. /\ s \in Inviting /\ s \in Early /\ s \notin ToCount
              /\ Inviting' = Inviting /\ Early' = Early \ {s} /\ ToCount' = ToCount \cup {s}
            <3>1. s \in Inviting /\ s \in Early /\ s \notin ToCount
                BY <2>1 DEF Inviting, Early, ToCount, Lim!At, Lim!Idle
            <3>2. Lim!Step("limit.count").pc = "limit.count" /\ Lim!Step("limit.count") # Lim!Idle
                BY DEF Lim!Step, Lim!Idle
            <3> QED BY <1>t, <2>1, <3>1, <3>2, LimitsMoved
        <2>5. LimitsTyped'
            <3>1. Lim!Step("limit.count") \in {Lim!Step(pc) : pc \in Lim!Steps}
                BY DEF Lim!Steps
            <3>2. call' \in [Slots -> {Lim!Step(pc) : pc \in Lim!Steps} \cup {Lim!Idle}]
                BY <1>t, <2>1, <3>1 DEF LimitsTyped
            <3> QED BY <1>t, <1>a, <2>1, <2>2, <3>2 DEF LimitsTyped
        <2>6. /\ Cardinality(Early') = Cardinality(Early) - 1
              /\ Cardinality(ToCount') = Cardinality(ToCount) + 1
            BY <2>4, LimitsFinite, OneMore, OneLess
        <2>7. /\ since' + Cardinality(Early') <= calls'
              /\ lost' + Cardinality(Inviting') <= calls'
              /\ limit'.usage + Cardinality(Inviting') <= calls'
            BY <1>a, <1>t, <2>1, <2>4, <2>6, LimitsFinite, LimitShape DEF LimitsInv
        <2>8. limit.made /\ ~mixed => limit'.usage + lost' + Cardinality(ToCount') = since'
            <3> SUFFICES ASSUME limit.made /\ ~mixed
                         PROVE  limit'.usage + lost' + Cardinality(ToCount') = since'
                OBVIOUS
            <3>1. limit.usage + lost + Cardinality(ToCount) = since
                BY DEF LimitsInv
            <3> QED BY <1>a, <1>t, <2>1, <2>6, <3>1, LimitsFinite, LimitShape
        <2>9. \A t \in Slots : Lim!At(t, "limit.reset")' => limit.made
            BY <1>t, <2>1 DEF LimitsInv, LimitsTyped, Lim!At, Lim!Step
        <2> QED BY <2>1, <2>2, <2>5, <2>7, <2>8, <2>9 DEF LimitsInv
    <1>6. ASSUME NEW s \in Slots, Lim!IncrementRoleLimitUsage(s) PROVE LimitsInv'
        <2>1. /\ call[s].pc = "limit.count" /\ call' = [call EXCEPT ![s] = Lim!Idle]
              /\ since' = since /\ lost' = lost /\ calls' = calls /\ period' = period
              /\ faults' = faults
              /\ limit' = IF limit.made THEN [limit EXCEPT !.usage = @ + 1] ELSE limit
            BY <1>6 DEF Lim!IncrementRoleLimitUsage, Lim!Done, Lim!At
        <2>2. mixed' = mixed
            BY <1>6 DEF Lim!IncrementRoleLimitUsage
        <2>4. /\ s \in Inviting /\ s \notin Early /\ s \in ToCount
              /\ Inviting' = Inviting \ {s} /\ Early' = Early /\ ToCount' = ToCount \ {s}
            <3>1. s \in Inviting /\ s \notin Early /\ s \in ToCount
                BY <2>1 DEF Inviting, Early, ToCount, Lim!At, Lim!Idle
            <3>2. Lim!Idle.pc = "idle"
                BY DEF Lim!Idle
            <3> QED BY <1>t, <2>1, <3>1, <3>2, LimitsMoved
        <2>6. /\ Cardinality(Inviting') = Cardinality(Inviting) - 1
              /\ Cardinality(ToCount') = Cardinality(ToCount) - 1
            BY <2>4, LimitsFinite, OneLess
        <2>3. /\ limit'.made = limit.made
              /\ limit.made => limit'.usage = limit.usage + 1 /\ limit' = [limit EXCEPT !.usage = limit.usage + 1]
              /\ ~limit.made => limit' = limit
            BY <1>t, <2>1, LimitShape DEF Lim!Limit
        <2>7. /\ since' + Cardinality(Early') <= calls'
              /\ lost' + Cardinality(Inviting') <= calls'
              /\ limit'.usage + Cardinality(Inviting') <= calls'
            BY <1>a, <1>t, <2>1, <2>3, <2>4, <2>6, LimitsFinite, LimitShape DEF LimitsInv
        <2>8. limit.made /\ ~mixed => limit'.usage + lost' + Cardinality(ToCount') = since'
            <3> SUFFICES ASSUME limit.made /\ ~mixed
                         PROVE  limit'.usage + lost' + Cardinality(ToCount') = since'
                OBVIOUS
            <3>1. limit.usage + lost + Cardinality(ToCount) = since
                BY DEF LimitsInv
            <3> QED BY <1>a, <1>t, <2>1, <2>3, <2>6, <3>1, LimitsFinite, LimitShape
        <2>5. LimitsTyped'
            <3>1. call' \in [Slots -> {Lim!Step(pc) : pc \in Lim!Steps} \cup {Lim!Idle}]
                BY <1>t, <2>1 DEF LimitsTyped
            <3>2. limit' \in Lim!Limit \cup {Lim!NoLimit}
                <4>1. CASE ~limit.made
                    BY <1>t, <2>3, <4>1 DEF LimitsTyped
                <4>2. CASE limit.made
                    <5>1. limit \in Lim!Limit
                        BY <1>t, <4>2, LimitShape
                    <5>2. limit.usage + 1 \in 0..AreaCalls["limits"]
                        BY <1>a, <1>t, <2>4, LimitsFinite, LimitShape, FS_EmptySet, <2>3, <2>6, <2>7, <4>2
                        DEF LimitsInv, LimitsTyped
                    <5> QED BY <2>3, <4>2, <5>1, <5>2 DEF Lim!Limit
                <4> QED BY <4>1, <4>2
            <3> QED BY <1>t, <1>a, <2>1, <2>2, <3>1, <3>2 DEF LimitsTyped
        <2>9. \A t \in Slots : Lim!At(t, "limit.reset")' => limit.made
            BY <1>t, <2>1 DEF LimitsInv, LimitsTyped, Lim!At, Lim!Idle
        <2> QED BY <2>2, <2>3, <2>5, <2>7, <2>8, <2>9 DEF LimitsInv
    <1>7. ASSUME NEW s \in Slots, Lim!StatementFails(s) PROVE LimitsInv'
        <2>1. /\ since' = since /\ calls' = calls /\ period' = period /\ limit' = limit
              /\ faults' = faults + 1 /\ faults < AreaFaults["limits"]
            BY <1>7 DEF Lim!StatementFails
        <2>2. mixed' = mixed
            BY <1>7 DEF Lim!StatementFails
        <2>3. PICK c \in {Lim!Step("limit.insert"), Lim!Idle} :
                  /\ call' = [call EXCEPT ![s] = c]
                  /\ \/ call[s].pc = "limit.reset" /\ c = Lim!Step("limit.insert") /\ lost' = lost
                     \/ call[s].pc = "limit.insert" /\ c = Lim!Idle /\ lost' = lost
                     \/ call[s].pc = "limit.count" /\ c = Lim!Idle /\ lost' = lost + 1
            BY <1>7 DEF Lim!StatementFails, Lim!At, Lim!Goto, Lim!Done
        <2>4. /\ Lim!Step("limit.insert").pc = "limit.insert" /\ Lim!Step("limit.insert") # Lim!Idle
              /\ Lim!Idle.pc = "idle" /\ Lim!Step("limit.insert") \in {Lim!Step(pc) : pc \in Lim!Steps}
            BY DEF Lim!Step, Lim!Idle, Lim!Steps
        <2>5. LimitsTyped'
            <3>1. call' \in [Slots -> {Lim!Step(pc) : pc \in Lim!Steps} \cup {Lim!Idle}]
                BY <1>t, <2>3, <2>4 DEF LimitsTyped
            <3>2. lost' \in Nat
                BY <1>a, <2>3
            <3> QED BY <1>t, <1>a, <2>1, <2>2, <3>1, <3>2 DEF LimitsTyped
        <2>9. \A t \in Slots : Lim!At(t, "limit.reset")' => limit.made
            BY <1>t, <2>3, <2>4 DEF LimitsInv, LimitsTyped, Lim!At
        <2>6. /\ Cardinality(Early') <= Cardinality(Early)
              /\ lost' + Cardinality(Inviting') <= lost + Cardinality(Inviting)
              /\ lost' + Cardinality(ToCount') = lost + Cardinality(ToCount)
              /\ Cardinality(Inviting') <= Cardinality(Inviting)
            <3>1. CASE call[s].pc = "limit.reset"
                <4>1. s \in Inviting /\ s \in Early /\ s \notin ToCount
                    BY <3>1 DEF Inviting, Early, ToCount, Lim!At, Lim!Idle
                <4>2. Inviting' = Inviting /\ Early' = Early /\ ToCount' = ToCount
                    BY <1>t, <2>3, <2>4, <3>1, <4>1, LimitsMoved
                <4> QED BY <1>a, <2>3, <3>1, <4>2, LimitsFinite
            <3>2. CASE call[s].pc = "limit.insert"
                <4>1. s \in Inviting /\ s \in Early /\ s \notin ToCount
                    BY <3>2 DEF Inviting, Early, ToCount, Lim!At, Lim!Idle
                <4>2. Inviting' = Inviting \ {s} /\ Early' = Early \ {s} /\ ToCount' = ToCount
                    BY <1>t, <2>3, <2>4, <3>2, <4>1, LimitsMoved
                <4>3. /\ Cardinality(Inviting') = Cardinality(Inviting) - 1
                      /\ Cardinality(Early') = Cardinality(Early) - 1
                    BY <4>1, <4>2, LimitsFinite, OneLess
                <4> QED BY <1>a, <2>3, <3>2, <4>2, <4>3, LimitsFinite
            <3>3. CASE call[s].pc = "limit.count"
                <4>1. s \in Inviting /\ s \notin Early /\ s \in ToCount
                    BY <3>3 DEF Inviting, Early, ToCount, Lim!At, Lim!Idle
                <4>2. Inviting' = Inviting \ {s} /\ Early' = Early /\ ToCount' = ToCount \ {s}
                    BY <1>t, <2>3, <2>4, <3>3, <4>1, LimitsMoved
                <4>3. /\ Cardinality(Inviting') = Cardinality(Inviting) - 1
                      /\ Cardinality(ToCount') = Cardinality(ToCount) - 1
                    BY <4>1, <4>2, LimitsFinite, OneLess
                <4> QED BY <1>a, <2>3, <3>3, <4>2, <4>3, LimitsFinite
            <3> QED BY <2>3, <3>1, <3>2, <3>3
        <2>f. /\ Cardinality(Early') \in Nat /\ Cardinality(Inviting') \in Nat /\ Cardinality(ToCount') \in Nat
              /\ lost' \in Nat
            <3>1. Inviting' \subseteq Slots /\ Early' \subseteq Slots /\ ToCount' \subseteq Slots
                BY DEF Inviting, Early, ToCount
            <3> QED BY <2>5, <3>1, AreasAssumption, FS_Subset, FS_CardinalityType DEF LimitsTyped
        <2>7. /\ since' + Cardinality(Early') <= calls'
              /\ lost' + Cardinality(Inviting') <= calls'
              /\ limit'.usage + Cardinality(Inviting') <= calls'
            BY <1>a, <1>t, <2>1, <2>6, <2>f, LimitsFinite, LimitShape DEF LimitsInv
        <2>8. limit.made /\ ~mixed => limit'.usage + lost' + Cardinality(ToCount') = since'
            <3> SUFFICES ASSUME limit.made /\ ~mixed
                         PROVE  limit'.usage + lost' + Cardinality(ToCount') = since'
                OBVIOUS
            <3>1. limit.usage + lost + Cardinality(ToCount) = since
                BY DEF LimitsInv
            <3> QED BY <1>a, <1>t, <2>1, <2>6, <2>f, <3>1, LimitsFinite, LimitShape
        <2> QED BY <2>1, <2>2, <2>5, <2>7, <2>8, <2>9 DEF LimitsInv
    <1>8. ASSUME \/ Lim!PeriodPasses \/ UNCHANGED Lim!vars PROVE LimitsInv'
        <2>1. /\ call' = call /\ since' = since /\ lost' = lost /\ calls' = calls
              /\ faults' = faults /\ limit' = limit /\ period' \in 0..MaxPeriods
            BY <1>8, <1>a, <1>t DEF Lim!PeriodPasses, Lim!vars, Lim!limits, LimitsTyped
        <2>2. mixed' = mixed
            BY <1>8 DEF Lim!PeriodPasses, Lim!vars, Lim!limits
        <2>3. Inviting' = Inviting /\ Early' = Early /\ ToCount' = ToCount
            BY <2>1 DEF Inviting, Early, ToCount, Lim!At
        <2>4. LimitsTyped'
            BY <1>t, <2>1, <2>2 DEF LimitsTyped
        <2> QED BY <2>1, <2>2, <2>3, <2>4 DEF LimitsInv, Lim!At
    <1> QED BY <1>1, <1>2, <1>3, <1>4, <1>5, <1>6, <1>7, <1>8 DEF Lim!Next

-----------------------------------------------------------------------------
(* The offers.                                                             *)

Makes(s) == call[s].pc \in {"offer.plans", "offer.cycles"}
Strips(s) == call[s].pc \in {"offer.strip", "offer.drop"}
Deletes(s) == call[s].pc = "offer.delete" \/ Strips(s)

\* What is not there yet: no row names the offer, and no request does.
Unmade ==
    /\ \A o \in Offers : ~asked[o].made =>
           offer[o] = Off!NoOffer /\ plansOf[o] = {} /\ cyclesOf[o] = 0 /\ o \notin usage
    /\ \A s \in Slots : call[s] # Off!Idle => asked[call[s].offer].made
    /\ \A a \in applied : asked[a[1]].made

\* One request at most creates an offer; together with the rows that are there,
\* those it has still to insert are what was asked for.
OneMaker ==
    /\ \A s, t \in Slots : Makes(s) /\ Makes(t) /\ call[s].offer = call[t].offer => s = t
    /\ \A s \in Slots : Makes(s) =>
           /\ Off!At(s, "offer.plans") => call[s].plans # {}
           /\ Off!At(s, "offer.cycles") => call[s].plans = {} /\ call[s].cycles # 0
           /\ cyclesOf[call[s].offer] + call[s].cycles <= 2
StillDue(s, o) ==
    /\ Off!There(o)
    /\ plansOf[o] \cup call[s].plans = asked[o].plans
    /\ cyclesOf[o] + call[s].cycles = asked[o].cycles
Due == \A s \in Slots : Makes(s) /\ call[s].offer \notin spoilt => StillDue(s, call[s].offer)

\* An offer that is about to be deleted was not used, or is known to have been
\* used meanwhile.
DeletedUnused ==
    \A s \in Slots : Deletes(s) => call[s].offer \notin usage \ missed

\* What is deleted while it is being made is spoilt.
Apart == \A s, t \in Slots : Strips(s) /\ Makes(t) /\ call[t].offer = call[s].offer => call[s].offer \in spoilt

OffersInv ==
    /\ Apart
    /\ Off!TypeOK /\ Unmade /\ OneMaker /\ Due /\ DeletedUnused
    /\ Off!OfferIsWhole /\ Off!AppliedAsAsked /\ Off!UsedIsKept /\ Off!DatesOrdered

LEMMA AddingShape ==
    ASSUME NEW o \in Offers, NEW ps \in SUBSET Plans, NEW n \in 0..2
    PROVE  /\ Off!Adding(o, ps, n) \in Off!Request \cup {Off!Idle}
           /\ Off!Adding(o, ps, n) = Off!Idle => ps = {} /\ n = 0
           /\ Off!Adding(o, ps, n) # Off!Idle =>
                  /\ Off!Adding(o, ps, n).offer = o
                  /\ Off!Adding(o, ps, n).plans = ps
                  /\ Off!Adding(o, ps, n).cycles = n
                  /\ Off!Adding(o, ps, n).pc = IF ps # {} THEN "offer.plans" ELSE "offer.cycles"
                  /\ ps # {} \/ n # 0
    BY DEF Off!Adding, Off!Request, Off!Idle

LEMMA OfferMoved ==
    ASSUME Off!TypeOK, NEW s \in Slots
    PROVE  /\ \A c : Off!Begin(s, c) => call'[s] = c /\ \A t \in Slots \ {s} : call'[t] = call[t]
           /\ \A c : call' = [call EXCEPT ![s] = c] =>
                     call'[s] = c /\ \A t \in Slots \ {s} : call'[t] = call[t]
           /\ Off!Done(s) => call'[s] = Off!Idle /\ \A t \in Slots \ {s} : call'[t] = call[t]
    BY DEF Off!TypeOK, Off!Begin, Off!Done

LEMMA OfferRequest ==
    ASSUME Off!TypeOK, NEW s \in Slots, call[s] # Off!Idle
    PROVE  /\ call[s] \in Off!Request /\ call[s].offer \in Offers
           /\ call[s].plans \in SUBSET Plans /\ call[s].cycles \in 0..2
    BY DEF Off!TypeOK, Off!Request

LEMMA OffersStart == Off!Init => OffersInv
    <1> SUFFICES ASSUME Off!Init PROVE OffersInv
        OBVIOUS
    <1>1. Off!TypeOK
        BY AreasAssumption DEF Off!Init, Off!TypeOK, Areas
    <1>2. \A s \in Slots : call[s] = Off!Idle /\ call[s].pc = "idle"
        BY DEF Off!Init, Off!Idle
    <1>3. Apart /\ Unmade /\ OneMaker /\ Due /\ DeletedUnused
        BY <1>2 DEF Off!Init, Apart, Unmade, OneMaker, Due, DeletedUnused, Makes, Deletes, Strips, Off!At
    <1>4. \A o \in Offers : offer[o].gone = TRUE /\ offer[o].ordered = TRUE
        BY DEF Off!Init, Off!NoOffer
    <1>5. Off!OfferIsWhole /\ Off!AppliedAsAsked /\ Off!UsedIsKept /\ Off!DatesOrdered
        BY <1>4 DEF Off!Init, Off!OfferIsWhole, Off!AppliedAsAsked, Off!UsedIsKept, Off!DatesOrdered,
                    Off!There
    <1> QED BY <1>1, <1>3, <1>5 DEF OffersInv

LEMMA OffersTyped == OffersInv /\ [Off!Next]_(Off!vars) => Off!TypeOK'
    <1> SUFFICES ASSUME OffersInv, [Off!Next]_(Off!vars) PROVE Off!TypeOK'
        OBVIOUS
    <1>t. Off!TypeOK
        BY DEF OffersInv
    <1>a. AreaCalls["offers"] \in Nat /\ AreaFaults["offers"] \in Nat
        BY AreasAssumption DEF Areas
    <1> USE DEF Off!Counters, Off!tables, Off!history, Off!Mine
    <1>i. ASSUME NEW s \in Slots, Off!Done(s) PROVE call' \in [Slots -> Off!Request \cup {Off!Idle}]
        BY <1>t, <1>i DEF Off!Done, Off!TypeOK
    <1>b. ASSUME NEW s \in Slots, NEW c \in Off!Request \cup {Off!Idle}, Off!Begin(s, c)
          PROVE  /\ call' \in [Slots -> Off!Request \cup {Off!Idle}]
                 /\ calls' \in 0..AreaCalls["offers"] /\ faults' \in 0..AreaFaults["offers"]
        BY <1>a, <1>t, <1>b DEF Off!Begin, Off!TypeOK
    <1>f. ASSUME faults < AreaFaults["offers"], faults' = faults + 1
          PROVE  faults' \in 0..AreaFaults["offers"]
        BY <1>a, <1>t, <1>f DEF Off!TypeOK
    <1>1. ASSUME NEW s \in Slots, NEW o \in Offers, NEW ps \in SUBSET Plans, NEW n \in 0..2,
                 Off!CreateOffer(s, o, ps, n)
          PROVE  Off!TypeOK'
        <2>1. offer' \in [Offers -> Off!Offer \cup {Off!NoOffer}]
            BY <1>1, <1>t DEF Off!CreateOffer, Off!Offer, Off!TypeOK
        <2>2. asked' \in [Offers -> [made : BOOLEAN, plans : SUBSET Plans, cycles : 0..2]]
            BY <1>1, <1>t DEF Off!CreateOffer, Off!TypeOK
        <2>3. Off!Begin(s, Off!Adding(o, ps, n))
            BY <1>1 DEF Off!CreateOffer
        <2>4. UNCHANGED <<plansOf, cyclesOf, usage, applied, missed, loose, spoilt>>
            BY <1>1 DEF Off!CreateOffer
        <2> QED BY <1>t, <1>b, <2>1, <2>2, <2>3, <2>4, AddingShape DEF Off!TypeOK
    <1>2. ASSUME NEW s \in Slots, NEW p \in Plans, Off!AddPlan(s, p) PROVE Off!TypeOK'
        <2>1. call[s] # Off!Idle
            BY <1>2 DEF Off!AddPlan, Off!At, Off!Idle
        <2>2. Off!Adding(call[s].offer, call[s].plans \ {p}, call[s].cycles) \in Off!Request \cup {Off!Idle}
            BY <1>t, <2>1, OfferRequest, AddingShape
        <2>3. call' \in [Slots -> Off!Request \cup {Off!Idle}]
            BY <1>2, <1>t, <2>2 DEF Off!AddPlan, Off!TypeOK
        <2>4. plansOf' \in [Offers -> SUBSET Plans]
            BY <1>2, <1>t DEF Off!AddPlan, Off!TypeOK
        <2>5. UNCHANGED <<offer, cyclesOf, usage, Off!history, Off!Counters>>
            BY <1>2 DEF Off!AddPlan
        <2> QED BY <1>t, <2>3, <2>4, <2>5 DEF Off!TypeOK
    <1>3. ASSUME NEW s \in Slots, Off!AddCycle(s) PROVE Off!TypeOK'
        <2>1. call[s] # Off!Idle /\ Makes(s) /\ Off!At(s, "offer.cycles")
            BY <1>3 DEF Off!AddCycle, Off!At, Off!Idle, Makes
        <2>2. /\ call[s].offer \in Offers /\ call[s].cycles \in 1..2
              /\ cyclesOf[call[s].offer] + call[s].cycles <= 2
            <3>1. call[s].cycles # 0 /\ cyclesOf[call[s].offer] + call[s].cycles <= 2
                BY <2>1 DEF OffersInv, OneMaker
            <3>2. call[s].cycles \in 0..2 /\ call[s].offer \in Offers
                BY <1>t, <2>1, OfferRequest
            <3> QED BY <3>1, <3>2
        <2>3. Off!Adding(call[s].offer, {}, call[s].cycles - 1) \in Off!Request \cup {Off!Idle}
            <3>1. call[s].cycles - 1 \in 0..2 /\ {} \in SUBSET Plans
                BY <2>2
            <3> QED BY <2>2, <3>1, AddingShape
        <2>4. call' \in [Slots -> Off!Request \cup {Off!Idle}]
            BY <1>3, <1>t, <2>3 DEF Off!AddCycle, Off!TypeOK
        <2>5. cyclesOf' \in [Offers -> 0..2]
            <3>1. cyclesOf[call[s].offer] + 1 \in 0..2
                <4>1. cyclesOf[call[s].offer] \in 0..2
                    BY <1>t, <2>2 DEF Off!TypeOK
                <4> QED BY <2>2, <4>1
            <3> QED BY <1>3, <1>t, <2>2, <3>1 DEF Off!AddCycle, Off!TypeOK
        <2>6. UNCHANGED <<offer, plansOf, usage, Off!history, Off!Counters>>
            BY <1>3 DEF Off!AddCycle
        <2> QED BY <1>t, <2>4, <2>5, <2>6 DEF Off!TypeOK
    <1>4. ASSUME NEW s \in Slots, NEW o \in Offers, NEW yes \in BOOLEAN,
                 Off!UpdateOffer(s, o, yes) \/ Off!UpdateOneDate(s, o, yes) \/ Off!UpdateBothDates(s, o)
          PROVE  Off!TypeOK'
        <2>1. offer[o] \in Off!Offer
            <3>1. offer[o] # Off!NoOffer
                BY <1>4 DEF Off!UpdateOffer, Off!UpdateOneDate, Off!UpdateBothDates, Off!There, Off!NoOffer
            <3> QED BY <1>t, <3>1 DEF Off!TypeOK
        <2>2. [offer[o] EXCEPT !.active = yes] \in Off!Offer /\ [offer[o] EXCEPT !.ordered = yes] \in Off!Offer
              /\ [offer[o] EXCEPT !.ordered = TRUE] \in Off!Offer
            BY <2>1 DEF Off!Offer
        <2>3. offer' \in [Offers -> Off!Offer \cup {Off!NoOffer}]
            BY <1>4, <1>t, <2>2 DEF Off!UpdateOffer, Off!UpdateOneDate, Off!UpdateBothDates, Off!TypeOK
        <2>4. Off!Begin(s, Off!Idle) /\ loose' \subseteq Offers
            BY <1>4, <1>t DEF Off!UpdateOffer, Off!UpdateOneDate, Off!UpdateBothDates, Off!TypeOK
        <2>5. UNCHANGED <<plansOf, cyclesOf, usage, asked, applied, missed, spoilt>>
            BY <1>4 DEF Off!UpdateOffer, Off!UpdateOneDate, Off!UpdateBothDates
        <2> QED BY <1>t, <1>b, <2>3, <2>4, <2>5 DEF Off!TypeOK
    <1>5. ASSUME NEW s \in Slots, NEW o \in Offers, Off!DeleteOffer(s, o) PROVE Off!TypeOK'
        <2>1. [pc |-> IF o \in usage THEN "offer.retire" ELSE "offer.delete", offer |-> o,
                 plans |-> {}, cycles |-> 0] \in Off!Request
            BY DEF Off!Request
        <2> QED BY <1>t, <1>5, <1>b, <2>1 DEF Off!DeleteOffer, Off!TypeOK
    <1>6. ASSUME NEW s \in Slots, Off!Retire(s) PROVE Off!TypeOK'
        <2>1. call[s] # Off!Idle
            BY <1>6 DEF Off!Retire, Off!At, Off!Idle
        <2>2. call[s].offer \in Offers
            BY <1>t, <2>1, OfferRequest
        <2>3. Off!There(call[s].offer) => [offer[call[s].offer] EXCEPT !.active = FALSE] \in Off!Offer
            <3>1. Off!There(call[s].offer) => offer[call[s].offer] \in Off!Offer
                BY <1>t, <2>2 DEF Off!There, Off!NoOffer, Off!TypeOK
            <3> QED BY <3>1 DEF Off!Offer
        <2>4. offer' \in [Offers -> Off!Offer \cup {Off!NoOffer}]
            BY <1>6, <1>t, <2>2, <2>3 DEF Off!Retire, Off!TypeOK
        <2> QED BY <1>6, <1>t, <1>i, <2>4 DEF Off!Retire, Off!TypeOK
    <1>7. ASSUME NEW s \in Slots, Off!DeleteCycles(s) \/ Off!DeletePlans(s) PROVE Off!TypeOK'
        <2>1. call[s] # Off!Idle
            BY <1>7 DEF Off!DeleteCycles, Off!DeletePlans, Off!At, Off!Idle
        <2>2. call[s].offer \in Offers /\ call[s] \in Off!Request
            BY <1>t, <2>1, OfferRequest
        <2>3. /\ [call[s] EXCEPT !.pc = "offer.strip"] \in Off!Request
              /\ [call[s] EXCEPT !.pc = "offer.drop"] \in Off!Request
            BY <2>2 DEF Off!Request
        <2>4. call' \in [Slots -> Off!Request \cup {Off!Idle}]
            BY <1>7, <1>t, <2>3 DEF Off!DeleteCycles, Off!DeletePlans, Off!TypeOK
        <2>5. /\ plansOf' \in [Offers -> SUBSET Plans]
              /\ cyclesOf' \in [Offers -> 0..2] /\ spoilt' \subseteq Offers
            BY <1>7, <1>t, <2>2 DEF Off!DeleteCycles, Off!DeletePlans, Off!TypeOK
        <2> QED BY <1>7, <1>t, <2>4, <2>5 DEF Off!DeleteCycles, Off!DeletePlans, Off!TypeOK
    <1>12. ASSUME NEW s \in Slots, Off!Delete(s) PROVE Off!TypeOK'
        <2>1. offer' \in [Offers -> Off!Offer \cup {Off!NoOffer}]
            BY <1>12, <1>t DEF Off!Delete, Off!TypeOK
        <2> QED BY <1>12, <1>t, <1>i, <2>1 DEF Off!Delete, Off!TypeOK
    <1>8. ASSUME NEW s \in Slots, NEW o \in Offers, NEW p \in Plans,
                 Off!ApplyOfferCode(s, o, p) \/ Off!RecordOfferUsage(s, o, p)
          PROVE  Off!TypeOK'
        <2>1. Off!Begin(s, Off!Idle)
            BY <1>8 DEF Off!ApplyOfferCode, Off!RecordOfferUsage
        <2>2. /\ applied' \subseteq Offers \X Plans \X BOOLEAN
              /\ usage' \subseteq Offers /\ missed' \subseteq Offers
            <3>1. (Off!Creating(o) \/ Off!Stripping(o)) \in BOOLEAN
                BY DEF Off!Creating, Off!Stripping
            <3>2. applied' = applied \/ applied' = applied \cup {<<o, p, Off!Creating(o) \/ Off!Stripping(o)>>}
                BY <1>8 DEF Off!ApplyOfferCode, Off!RecordOfferUsage
            <3>3. applied' \subseteq Offers \X Plans \X BOOLEAN
                <4> PICK half : half = (Off!Creating(o) \/ Off!Stripping(o))
                    OBVIOUS
                <4>1. half \in BOOLEAN /\ (applied' = applied \/ applied' = applied \cup {<<o, p, half>>})
                    BY <3>1, <3>2
                <4>2. applied \subseteq Offers \X Plans \X BOOLEAN
                    BY <1>t DEF Off!TypeOK
                <4>3. <<o, p, half>> \in Offers \X Plans \X BOOLEAN
                    BY <4>1
                <4> QED BY <4>1, <4>2, <4>3
            <3> QED BY <1>8, <1>t, <3>3 DEF Off!ApplyOfferCode, Off!RecordOfferUsage, Off!TypeOK
        <2>3. UNCHANGED <<offer, plansOf, cyclesOf, asked, loose, spoilt>>
            BY <1>8 DEF Off!ApplyOfferCode, Off!RecordOfferUsage
        <2> QED BY <1>t, <1>b, <2>1, <2>2, <2>3 DEF Off!TypeOK
    <1>9. ASSUME NEW s \in Slots, Off!RequestFails(s) PROVE Off!TypeOK'
        <2>1. spoilt' \subseteq Offers
            <3>1. call[s].offer \in Offers
                BY <1>9, <1>t, OfferRequest DEF Off!RequestFails
            <3> QED BY <1>9, <1>t, <3>1 DEF Off!RequestFails, Off!TypeOK
        <2> QED BY <1>9, <1>t, <1>i, <1>f, <2>1 DEF Off!RequestFails, Off!TypeOK
    <1>10. CASE Off!Crash
        <2>1. spoilt' \subseteq Offers
            <3>1. \A t \in Slots : Off!Halfway(t) => call[t].offer \in Offers
                BY <1>t, OfferRequest DEF Off!Halfway, Off!Idle
            <3> QED BY <1>10, <1>t, <3>1 DEF Off!Crash, Off!TypeOK
        <2>2. call' \in [Slots -> Off!Request \cup {Off!Idle}]
            BY <1>10 DEF Off!Crash
        <2> QED BY <1>10, <1>t, <1>f, <2>1, <2>2 DEF Off!Crash, Off!TypeOK
    <1>11. CASE UNCHANGED Off!vars
        BY <1>11, <1>t DEF Off!vars, Off!TypeOK
    <1> QED BY <1>1, <1>2, <1>3, <1>4, <1>5, <1>6, <1>7, <1>8, <1>9, <1>10, <1>11, <1>12 DEF Off!Next

\* Everything but the types.
OffersCore ==
    /\ Apart /\ Unmade /\ OneMaker /\ Due /\ DeletedUnused
    /\ Off!OfferIsWhole /\ Off!AppliedAsAsked /\ Off!UsedIsKept /\ Off!DatesOrdered

\* Requests that end: what they create is given up and known to be spoilt.
LEMMA OffersGivenUp ==
    ASSUME OffersInv, UNCHANGED <<offer, plansOf, cyclesOf, usage, asked, applied, missed, loose>>,
           \A t \in Slots : call'[t] = call[t] \/ call'[t] = Off!Idle,
           spoilt \subseteq spoilt',
           \A o \in Offers : Off!Creating(o) => Off!Creating(o)' \/ o \in spoilt',
           \A o \in Offers : Off!Stripping(o) => Off!Stripping(o)' \/ o \in spoilt'
    PROVE  OffersCore'
    <1>1. \A t \in Slots : call'[t] # Off!Idle => call'[t] = call[t]
        OBVIOUS
    <1>2. \A t \in Slots : Makes(t)' \/ Deletes(t)' => call'[t] # Off!Idle
        BY DEF Makes, Deletes, Strips, Off!At, Off!Idle
    <1>3. Unmade'
        BY <1>1 DEF OffersInv, Unmade
    <1>4. OneMaker'
        BY <1>1, <1>2 DEF OffersInv, OneMaker, Makes, Off!At
    <1>5. Due'
        BY <1>1, <1>2 DEF OffersInv, Due, StillDue, Makes, Off!There
    <1>6. DeletedUnused'
        BY <1>1, <1>2 DEF OffersInv, DeletedUnused, Deletes, Strips
    <1>7. Off!OfferIsWhole'
        BY DEF OffersInv, Off!OfferIsWhole, Off!There
    <1>8. Off!AppliedAsAsked' /\ Off!UsedIsKept' /\ Off!DatesOrdered'
        BY DEF OffersInv, Off!AppliedAsAsked, Off!UsedIsKept, Off!DatesOrdered, Off!There
    <1>a. Apart'
        BY <1>1, <1>2 DEF OffersInv, Apart, Makes, Deletes, Strips
    <1> QED BY <1>3, <1>4, <1>5, <1>6, <1>7, <1>8, <1>a DEF OffersCore

\* The offers' own rows change, but none appears or goes.
LEMMA OffersUpdated ==
    ASSUME OffersInv, UNCHANGED <<plansOf, cyclesOf, usage, asked, applied, missed, spoilt>>,
           \A t \in Slots : call'[t] = call[t] \/ (call'[t] = Off!Idle /\ ~Makes(t) /\ ~Strips(t)),
           \A o \in Offers : offer'[o].gone = offer[o].gone /\ (offer[o].gone => offer'[o] = offer[o]),
           Off!DatesOrdered'
    PROVE  OffersCore'
    <1>1. \A t \in Slots : call'[t] # Off!Idle => call'[t] = call[t]
        OBVIOUS
    <1>2. \A t \in Slots : Makes(t)' \/ Deletes(t)' => call'[t] # Off!Idle
        BY DEF Makes, Deletes, Strips, Off!At, Off!Idle
    <1>3. Unmade'
        BY <1>1 DEF OffersInv, Unmade, Off!NoOffer
    <1>4. OneMaker'
        BY <1>1, <1>2 DEF OffersInv, OneMaker, Makes, Off!At
    <1>o. Off!TypeOK
        BY DEF OffersInv
    <1>5. Due'
        <2> SUFFICES ASSUME NEW t \in Slots, Makes(t)', call'[t].offer \notin spoilt'
                     PROVE  StillDue(t, call[t].offer)' /\ call'[t] = call[t]
            BY DEF Due, StillDue
        <2>1. call'[t] = call[t] /\ call[t] # Off!Idle /\ Makes(t)
            BY <1>1, <1>2 DEF Makes
        <2>2. call[t].offer \in Offers
            BY <1>o, <2>1, OfferRequest
        <2> QED BY <2>1, <2>2 DEF OffersInv, Due, StillDue, Off!There
    <1>6. DeletedUnused'
        BY <1>1, <1>2 DEF OffersInv, DeletedUnused, Deletes, Strips
    <1>7. Off!OfferIsWhole'
        <2>1. \A o \in Offers : Off!Creating(o) => Off!Creating(o)'
            BY DEF Off!Creating, Makes
        <2>2. \A o \in Offers : Off!Stripping(o) => Off!Stripping(o)'
            BY DEF Off!Stripping, Strips
        <2> QED BY <2>1, <2>2 DEF OffersInv, Off!OfferIsWhole, Off!There
    <1>8. Off!AppliedAsAsked' /\ Off!UsedIsKept'
        BY <1>o DEF OffersInv, Off!AppliedAsAsked, Off!UsedIsKept, Off!There, Off!TypeOK
    <1>a. Apart'
        BY <1>1, <1>2 DEF OffersInv, Apart, Makes, Deletes, Strips
    <1> QED BY <1>3, <1>4, <1>5, <1>6, <1>7, <1>8, <1>a DEF OffersCore

LEMMA OfferCreated ==
    ASSUME OffersInv, NEW s \in Slots, NEW o \in Offers, NEW ps \in SUBSET Plans, NEW n \in 0..2,
           Off!CreateOffer(s, o, ps, n)
    PROVE  OffersCore'
    <1> PICK c : c = Off!Adding(o, ps, n)
        OBVIOUS
    <1>t. Off!TypeOK
        BY DEF OffersInv
    <1>1. /\ UNCHANGED <<plansOf, cyclesOf, usage, applied, missed, loose, spoilt>>
          /\ ~asked[o].made /\ call[s] = Off!Idle
          /\ offer'[o] = [active |-> TRUE, ordered |-> TRUE, gone |-> FALSE]
          /\ asked'[o] = [made |-> TRUE, plans |-> ps, cycles |-> n]
          /\ \A q \in Offers \ {o} : offer'[q] = offer[q] /\ asked'[q] = asked[q]
        BY <1>t DEF Off!CreateOffer, Off!Begin, Off!TypeOK
    <1>2. call'[s] = c /\ \A t \in Slots \ {s} : call'[t] = call[t]
        BY <1>t, OfferMoved DEF Off!CreateOffer
    <1>3. /\ plansOf[o] = {} /\ cyclesOf[o] = 0 /\ o \notin usage
          /\ \A t \in Slots : call[t] # Off!Idle => call[t].offer # o
          /\ \A a \in applied : a[1] # o
        BY <1>1 DEF OffersInv, Unmade
    <1>c. /\ c = Off!Idle => ps = {} /\ n = 0
          /\ c # Off!Idle => /\ c.offer = o /\ c.plans = ps /\ c.cycles = n
                             /\ c.pc = IF ps # {} THEN "offer.plans" ELSE "offer.cycles"
                             /\ ps # {} \/ n # 0
        BY AddingShape
    <1>m. /\ \A t \in Slots : Makes(t)' => call'[t] # Off!Idle
          /\ \A t \in Slots : Makes(t) => call[t] # Off!Idle
          /\ \A t \in Slots : Deletes(t) => call[t] # Off!Idle
          /\ \A t \in Slots : Deletes(t)' => call'[t] # Off!Idle
        BY DEF Makes, Deletes, Strips, Off!At, Off!Idle
    <1>r. \A t \in Slots : call[t] # Off!Idle => call[t].offer \in Offers \ {o}
        BY <1>t, <1>3, OfferRequest
    <1>4. Unmade'
        <2>1. \A a \in applied : a[1] \in Offers
            BY <1>t DEF Off!TypeOK
        <2> QED BY <1>1, <1>2, <1>3, <1>c, <1>r, <2>1 DEF OffersInv, Unmade
    <1>5. OneMaker'
        <2>1. \A t \in Slots \ {s} : Makes(t)' => Makes(t) /\ call[t].offer # o
            BY <1>2, <1>3, <1>m DEF Makes
        <2>2. Makes(s)' => c.offer = o
            BY <1>2, <1>c, <1>m
        <2>3. \A q, t \in Slots : Makes(q)' /\ Makes(t)' /\ call'[q].offer = call'[t].offer => q = t
            BY <1>2, <2>1, <2>2 DEF OffersInv, OneMaker
        <2>4. Makes(s)' => /\ c.pc = "offer.plans" => c.plans # {}
                           /\ c.pc = "offer.cycles" => c.plans = {} /\ c.cycles # 0
                           /\ cyclesOf[c.offer] + c.cycles <= 2
            BY <1>2, <1>3, <1>c, <1>m
        <2>5. \A t \in Slots \ {s} : Makes(t)' =>
                  /\ call[t].pc = "offer.plans" => call[t].plans # {}
                  /\ call[t].pc = "offer.cycles" => call[t].plans = {} /\ call[t].cycles # 0
                  /\ cyclesOf[call[t].offer] + call[t].cycles <= 2
            BY <2>1 DEF OffersInv, OneMaker, Off!At
        <2> QED BY <1>1, <1>2, <2>3, <2>4, <2>5 DEF OneMaker, Off!At
    <1>6. Due'
        <2> SUFFICES ASSUME NEW t \in Slots, Makes(t)', call'[t].offer \notin spoilt
                     PROVE  /\ ~offer'[call'[t].offer].gone
                            /\ plansOf'[call'[t].offer] \cup call'[t].plans = asked'[call'[t].offer].plans
                            /\ cyclesOf'[call'[t].offer] + call'[t].cycles = asked'[call'[t].offer].cycles
            BY <1>1 DEF Due, StillDue, Off!There
        <2>1. CASE t = s
            <3>1. call'[t] = c /\ c # Off!Idle
                BY <1>2, <1>m, <2>1
            <3>2. offer'[o].gone = FALSE /\ asked'[o].plans = ps /\ asked'[o].cycles = n
                BY <1>1
            <3>3. 0 + n = n
                OBVIOUS
            <3> QED BY <1>1, <1>3, <1>c, <3>1, <3>2, <3>3 DEF StillDue, Off!There
        <2>2. CASE t # s
            <3>1. call'[t] = call[t] /\ Makes(t) /\ call[t].offer \in Offers \ {o}
                BY <1>2, <1>m, <1>r, <2>2 DEF Makes
            <3> QED BY <1>1, <3>1 DEF OffersInv, Due, StillDue, Off!There
        <2> QED BY <2>1, <2>2
    <1>7. DeletedUnused'
        <2>1. ~Deletes(s)'
            BY <1>2, <1>c, <1>m DEF Deletes, Strips
        <2> QED BY <1>1, <1>2, <2>1 DEF OffersInv, DeletedUnused, Deletes, Strips
    <1>8. Off!OfferIsWhole'
        <2>1. \A q \in Offers \ {o} : Off!Creating(q) => Off!Creating(q)'
            <3>1. \A t \in Slots : Makes(t) => t # s
                BY <1>1, <1>m
            <3> QED BY <1>2, <3>1 DEF Off!Creating, Makes
        <2>2. ~Off!Creating(o)' => ps = {} /\ n = 0
            <3>1. c # Off!Idle => Off!Creating(o)'
                BY <1>2, <1>c DEF Off!Creating
            <3> QED BY <1>c, <3>1
        <2>4. \A q \in Offers : Off!Stripping(q) => Off!Stripping(q)'
            <3>1. \A t \in Slots : Strips(t) => t # s
                BY <1>1, <1>m DEF Deletes
            <3> QED BY <1>2, <3>1 DEF Off!Stripping, Strips
        <2>3. asked'[o].plans = ps /\ asked'[o].cycles = n
            BY <1>1
        <2> QED BY <1>1, <1>3, <2>1, <2>2, <2>3, <2>4 DEF OffersInv, Off!OfferIsWhole, Off!There
    <1>9. Off!AppliedAsAsked'
        <2>1. \A a \in applied : a[1] \in Offers \ {o}
            BY <1>t, <1>3 DEF Off!TypeOK
        <2> QED BY <1>1, <2>1 DEF OffersInv, Off!AppliedAsAsked
    <1>10. Off!UsedIsKept' /\ Off!DatesOrdered'
        BY <1>1, <1>t DEF OffersInv, Off!UsedIsKept, Off!DatesOrdered, Off!There, Off!TypeOK
    <1>a. Apart'
        <2>1. \A t \in Slots : Strips(t)' => t # s /\ Strips(t) /\ call'[t] = call[t] /\ call[t].offer # o
            BY <1>2, <1>3, <1>c, <1>m DEF Deletes, Strips
        <2>2. \A t \in Slots \ {s} : Makes(t)' => Makes(t) /\ call'[t] = call[t]
            BY <1>2 DEF Makes
        <2>3. Makes(s)' => call'[s].offer = o
            BY <1>2, <1>c, <1>m
        <2> QED BY <1>1, <2>1, <2>2, <2>3 DEF OffersInv, Apart
    <1> QED BY <1>4, <1>5, <1>6, <1>7, <1>8, <1>9, <1>10, <1>a DEF OffersCore

\* A creation inserts one more of its rows.
LEMMA OfferRowAdded ==
    ASSUME OffersInv, Off!TypeOK', NEW s \in Slots, Makes(s),
           NEW ps \in SUBSET call[s].plans, NEW n \in 0..call[s].cycles,
           UNCHANGED <<offer, usage, asked, applied, missed, loose, spoilt>>,
           call' = [call EXCEPT ![s] = Off!Adding(call[s].offer, ps, n)],
           \A q \in Offers \ {call[s].offer} : plansOf'[q] = plansOf[q] /\ cyclesOf'[q] = cyclesOf[q],
           plansOf'[call[s].offer] \cup ps = plansOf[call[s].offer] \cup call[s].plans,
           cyclesOf'[call[s].offer] + n = cyclesOf[call[s].offer] + call[s].cycles
    PROVE  OffersCore'
    <1>t. Off!TypeOK
        BY DEF OffersInv
    <1>s. call[s] # Off!Idle
        BY DEF Makes, Off!Idle
    <1> PICK o \in Offers : o = call[s].offer
        BY <1>t, <1>s, OfferRequest
    <1> PICK c : c = Off!Adding(o, ps, n)
        OBVIOUS
    <1>p. ps \in SUBSET Plans /\ n \in 0..2
        BY <1>t, <1>s, OfferRequest
    <1>c. /\ c = Off!Idle => ps = {} /\ n = 0
          /\ c # Off!Idle => /\ c.offer = o /\ c.plans = ps /\ c.cycles = n
                             /\ c.pc = IF ps # {} THEN "offer.plans" ELSE "offer.cycles"
                             /\ ps # {} \/ n # 0
        BY <1>p, AddingShape
    <1>2. call'[s] = c /\ \A t \in Slots \ {s} : call'[t] = call[t]
        BY <1>t, OfferMoved
    <1>m. /\ \A t \in Slots : Makes(t)' => call'[t] # Off!Idle
          /\ \A t \in Slots : Makes(t) => call[t] # Off!Idle
          /\ \A t \in Slots : Deletes(t)' => call'[t] # Off!Idle
        BY DEF Makes, Deletes, Strips, Off!At, Off!Idle
    <1>n. \A t \in Slots : Makes(t)' => Makes(t) /\ call'[t].offer = call[t].offer
        BY <1>2, <1>c, <1>m DEF Makes
    <1>u. asked[o].made
        BY <1>s DEF OffersInv, Unmade
    <1>o. \A t \in Slots \ {s} : Makes(t) => call[t].offer \in Offers \ {o}
        BY <1>t, <1>m, OfferRequest DEF OffersInv, OneMaker
    <1>d. \/ o \in spoilt
          \/ /\ Off!There(o) /\ plansOf'[o] \cup ps = asked[o].plans
             /\ cyclesOf'[o] + n = asked[o].cycles
        BY DEF OffersInv, Due, StillDue
    <1>3. Unmade'
        BY <1>2, <1>c, <1>u DEF OffersInv, Unmade
    <1>4. OneMaker'
        <2>1. \A q, t \in Slots : Makes(q)' /\ Makes(t)' /\ call'[q].offer = call'[t].offer => q = t
            BY <1>n DEF OffersInv, OneMaker
        <2>2. Makes(s)' => /\ c.pc = "offer.plans" => c.plans # {}
                           /\ c.pc = "offer.cycles" => c.plans = {} /\ c.cycles # 0
                           /\ cyclesOf'[c.offer] + c.cycles <= 2
            BY <1>2, <1>c, <1>m DEF OffersInv, OneMaker
        <2>3. \A t \in Slots \ {s} : Makes(t)' =>
                  /\ call[t].pc = "offer.plans" => call[t].plans # {}
                  /\ call[t].pc = "offer.cycles" => call[t].plans = {} /\ call[t].cycles # 0
                  /\ cyclesOf'[call[t].offer] + call[t].cycles <= 2
            BY <1>n, <1>o DEF OffersInv, OneMaker, Off!At
        <2> QED BY <1>2, <2>1, <2>2, <2>3 DEF OneMaker, Off!At
    <1>5. Due'
        <2> SUFFICES ASSUME NEW t \in Slots, Makes(t)', call'[t].offer \notin spoilt
                     PROVE  /\ ~offer'[call'[t].offer].gone
                            /\ plansOf'[call'[t].offer] \cup call'[t].plans = asked'[call'[t].offer].plans
                            /\ cyclesOf'[call'[t].offer] + call'[t].cycles = asked'[call'[t].offer].cycles
            BY DEF Due, StillDue, Off!There
        <2>1. CASE t = s
            BY <1>2, <1>c, <1>m, <1>d, <2>1 DEF StillDue, Off!There
        <2>2. CASE t # s
            <3>1. call'[t] = call[t] /\ Makes(t) /\ call[t].offer \in Offers \ {o}
                BY <1>2, <1>n, <1>o, <2>2
            <3> QED BY <3>1 DEF OffersInv, Due, StillDue, Off!There
        <2> QED BY <2>1, <2>2
    <1>6. DeletedUnused'
        <2>1. ~Deletes(s)'
            BY <1>2, <1>c, <1>m DEF Deletes, Strips
        <2> QED BY <1>2, <2>1 DEF OffersInv, DeletedUnused, Deletes, Strips
    <1>7. Off!OfferIsWhole'
        <2>1. \A q \in Offers \ {o} : Off!Creating(q) => Off!Creating(q)'
            BY <1>2 DEF Off!Creating
        <2>2. ~Off!Creating(o)' => ps = {} /\ n = 0
            <3>1. c # Off!Idle => Off!Creating(o)'
                BY <1>2, <1>c DEF Off!Creating
            <3> QED BY <1>c, <3>1
        <2>5. \A q \in Offers : Off!Stripping(q) => Off!Stripping(q)'
            <3>1. ~Strips(s)
                BY DEF Makes, Strips
            <3> QED BY <1>2, <3>1 DEF Off!Stripping, Strips
        <2>3. n = 0 => cyclesOf'[o] + n = cyclesOf'[o] \/ o \in spoilt
            <3>1. cyclesOf'[o] \in 0..2
                BY DEF Off!TypeOK
            <3> QED BY <3>1
        <2>4. ASSUME ~Off!Creating(o)', o \notin spoilt, ~Off!Stripping(o)
              PROVE  plansOf'[o] = asked[o].plans /\ cyclesOf'[o] = asked[o].cycles
            <3>1. /\ ps = {} /\ n = 0 /\ plansOf'[o] \cup ps = asked[o].plans
                  /\ cyclesOf'[o] + n = asked[o].cycles
                BY <1>d, <2>2, <2>4
            <3> QED BY <2>3, <2>4, <3>1
        <2> QED BY <2>1, <2>4, <2>5 DEF OffersInv, Off!OfferIsWhole, Off!There
    <1>8. Off!AppliedAsAsked' /\ Off!UsedIsKept' /\ Off!DatesOrdered'
        BY DEF OffersInv, Off!AppliedAsAsked, Off!UsedIsKept, Off!DatesOrdered, Off!There
    <1>a. Apart'
        <2>1. \A t \in Slots : Strips(t)' => Strips(t) /\ call'[t].offer = call[t].offer
            <3>1. ~Strips(s)'
                BY <1>2, <1>c DEF Strips, Off!Idle
            <3> QED BY <1>2, <3>1 DEF Strips
        <2> QED BY <1>n, <2>1 DEF OffersInv, Apart
    <1> QED BY <1>3, <1>4, <1>5, <1>6, <1>7, <1>8, <1>a DEF OffersCore

LEMMA OfferLeaves ==
    ASSUME OffersInv, NEW s \in Slots, NEW o \in Offers, Off!DeleteOffer(s, o)
    PROVE  OffersCore'
    <1>t. Off!TypeOK
        BY DEF OffersInv
    <1>1. /\ UNCHANGED <<offer, plansOf, cyclesOf, usage, asked, applied, missed, loose, spoilt>>
          /\ call[s] = Off!Idle /\ ~offer[o].gone
        BY DEF Off!DeleteOffer, Off!Begin, Off!tables, Off!history, Off!There
    <1>2. /\ call'[s] = [pc |-> IF o \in usage THEN "offer.retire" ELSE "offer.delete", offer |-> o,
                         plans |-> {}, cycles |-> 0]
          /\ \A t \in Slots \ {s} : call'[t] = call[t]
        BY <1>t, OfferMoved DEF Off!DeleteOffer
    <1>3. call'[s].offer = o /\ (call'[s].pc = "offer.delete" => o \notin usage)
        BY <1>2
    <1>4. ~Makes(s) /\ ~Makes(s)'
        BY <1>1, <1>2 DEF Makes, Off!Idle
    <1>5. Unmade'
        <2>1. asked[o].made
            BY <1>1 DEF OffersInv, Unmade, Off!NoOffer
        <2> QED BY <1>1, <1>2, <1>3, <2>1 DEF OffersInv, Unmade
    <1>6. \A t \in Slots : Makes(t)' => Makes(t) /\ call'[t] = call[t]
        BY <1>2, <1>4 DEF Makes
    <1>7. OneMaker' /\ Due'
        BY <1>1, <1>6 DEF OffersInv, OneMaker, Due, StillDue, Off!At, Off!There
    <1>8. DeletedUnused'
        BY <1>1, <1>2, <1>3 DEF OffersInv, DeletedUnused, Deletes, Strips
    <1>9. Off!OfferIsWhole'
        <2>1. \A q \in Offers : Off!Creating(q) => Off!Creating(q)'
            BY <1>2, <1>4 DEF Off!Creating, Makes
        <2>2. \A q \in Offers : Off!Stripping(q) => Off!Stripping(q)'
            <3>1. ~Strips(s)
                BY <1>1 DEF Strips, Off!Idle
            <3> QED BY <1>2, <3>1 DEF Off!Stripping, Strips
        <2> QED BY <1>1, <2>1, <2>2 DEF OffersInv, Off!OfferIsWhole, Off!There
    <1>10. Off!AppliedAsAsked' /\ Off!UsedIsKept' /\ Off!DatesOrdered'
        BY <1>1 DEF OffersInv, Off!AppliedAsAsked, Off!UsedIsKept, Off!DatesOrdered, Off!There
    <1>a. Apart'
        <2>1. \A t \in Slots : Strips(t)' => Strips(t) /\ call'[t] = call[t]
            BY <1>2 DEF Strips
        <2> QED BY <1>1, <1>6, <2>1 DEF OffersInv, Apart
    <1> QED BY <1>5, <1>7, <1>8, <1>9, <1>10, <1>a DEF OffersCore

\* A deletion takes the rows first, ...
LEMMA OfferStripped ==
    ASSUME OffersInv, NEW s \in Slots, Off!DeleteCycles(s) \/ Off!DeletePlans(s)
    PROVE  OffersCore'
    <1>t. Off!TypeOK
        BY DEF OffersInv
    <1>s. call[s] # Off!Idle /\ Deletes(s) /\ ~Makes(s)
        BY DEF Off!DeleteCycles, Off!DeletePlans, Off!At, Off!Idle, Makes, Deletes, Strips
    <1>r. call[s] \in Off!Request
        BY <1>t, <1>s, OfferRequest
    <1> PICK o \in Offers : o = call[s].offer
        BY <1>t, <1>s, OfferRequest
    <1>1. /\ \A q \in Offers \ {o} : plansOf'[q] = plansOf[q] /\ cyclesOf'[q] = cyclesOf[q]
          /\ cyclesOf'[o] = 0 \/ cyclesOf'[o] = cyclesOf[o]
          /\ plansOf'[o] = {} \/ plansOf'[o] = plansOf[o]
          /\ UNCHANGED <<offer, usage, asked, applied, missed, loose>>
        BY <1>t DEF Off!DeleteCycles, Off!DeletePlans, Off!Mine, Off!TypeOK, Off!history
    <1>2. /\ call'[s] # Off!Idle /\ call'[s].offer = o /\ Strips(s)' /\ ~Makes(s)'
          /\ \A t \in Slots \ {s} : call'[t] = call[t]
        <2>1. PICK pc \in {"offer.strip", "offer.drop"} : call' = [call EXCEPT ![s].pc = pc]
            BY DEF Off!DeleteCycles, Off!DeletePlans
        <2>2. call'[s] = [call[s] EXCEPT !.pc = pc] /\ \A t \in Slots \ {s} : call'[t] = call[t]
            BY <1>t, <2>1 DEF Off!TypeOK
        <2>3. call'[s].pc = pc /\ call'[s].offer = o
            BY <1>r, <2>2 DEF Off!Request
        <2> QED BY <2>2, <2>3 DEF Strips, Makes, Off!Idle
    <1>3. spoilt \subseteq spoilt' /\ (Off!Creating(o) => o \in spoilt' \/ Off!Stripping(o))
        BY <1>s DEF Off!DeleteCycles, Off!DeletePlans, Off!Mine, Off!Stripping, Deletes, Strips, Off!At, Off!history
    <1>d. \A t \in Slots : Makes(t) /\ call[t].offer = o => o \in spoilt'
        <2>1. CASE Off!DeleteCycles(s)
            BY <2>1 DEF Off!DeleteCycles, Off!Mine, Off!Creating, Makes
        <2>2. CASE Off!DeletePlans(s)
            <3>1. Strips(s)
                BY <2>2 DEF Off!DeletePlans, Off!At, Strips
            <3> QED BY <1>3, <3>1 DEF OffersInv, Apart
        <2> QED BY <2>1, <2>2
    <1>6. \A t \in Slots : Makes(t)' => Makes(t) /\ call'[t] = call[t] /\ call[t].offer \in Offers /\ t # s
        <2>1. \A t \in Slots : Makes(t) => call[t] # Off!Idle
            BY DEF Makes, Off!Idle
        <2> QED BY <1>t, <1>2, <2>1, OfferRequest DEF Makes
    <1>u. asked[o].made
        BY <1>s DEF OffersInv, Unmade
    <1>7. Unmade'
        BY <1>1, <1>2, <1>u DEF OffersInv, Unmade
    <1>8. OneMaker'
        <2>1. \A t \in Slots : Makes(t)' => cyclesOf'[call[t].offer] + call[t].cycles <= 2
            <3> SUFFICES ASSUME NEW t \in Slots, Makes(t)'
                         PROVE  cyclesOf'[call[t].offer] + call[t].cycles <= 2
                OBVIOUS
            <3>0. Makes(t) /\ call[t] # Off!Idle /\ cyclesOf[call[t].offer] + call[t].cycles <= 2
                BY <1>6 DEF OffersInv, OneMaker, Makes, Off!Idle
            <3>1. CASE call[t].offer = o /\ cyclesOf'[o] = 0
                <4>1. call[t].cycles \in 0..2
                    BY <1>t, <3>0, OfferRequest
                <4> QED BY <3>1, <4>1
            <3>2. CASE call[t].offer # o \/ cyclesOf'[o] = cyclesOf[o]
                BY <1>1, <1>6, <3>0, <3>2
            <3> QED BY <1>1, <3>1, <3>2
        <2> QED BY <1>6, <2>1 DEF OffersInv, OneMaker, Off!At
    <1>9. Due'
        <2> SUFFICES ASSUME NEW t \in Slots, Makes(t)', call'[t].offer \notin spoilt'
                     PROVE  /\ ~offer'[call'[t].offer].gone
                            /\ plansOf'[call'[t].offer] \cup call'[t].plans = asked'[call'[t].offer].plans
                            /\ cyclesOf'[call'[t].offer] + call'[t].cycles = asked'[call'[t].offer].cycles
            BY DEF Due, StillDue, Off!There
        <2>1. call[t].offer # o
            BY <1>d, <1>6
        <2> QED BY <1>1, <1>3, <1>6, <2>1 DEF OffersInv, Due, StillDue, Off!There
    <1>10. DeletedUnused'
        BY <1>1, <1>2, <1>s DEF OffersInv, DeletedUnused, Deletes, Strips
    <1>a. Apart'
        BY <1>2, <1>3, <1>6, <1>d DEF OffersInv, Apart, Strips
    <1>11. Off!OfferIsWhole'
        <2>1. \A q \in Offers : Off!Creating(q) => Off!Creating(q)'
            BY <1>2, <1>s DEF Off!Creating, Makes
        <2>2. Off!Stripping(o)'
            BY <1>2 DEF Off!Stripping, Strips
        <2>3. \A q \in Offers \ {o} : Off!Stripping(q) => Off!Stripping(q)'
            BY <1>2 DEF Off!Stripping
        <2> QED BY <1>1, <1>3, <2>1, <2>2, <2>3 DEF OffersInv, Off!OfferIsWhole, Off!There
    <1>12. Off!UsedIsKept'
        BY <1>1 DEF OffersInv, Off!UsedIsKept, Off!There
    <1>13. Off!AppliedAsAsked' /\ Off!DatesOrdered'
        BY <1>1, <1>3 DEF OffersInv, Off!AppliedAsAsked, Off!DatesOrdered
    <1> QED BY <1>7, <1>8, <1>9, <1>10, <1>11, <1>12, <1>13, <1>a DEF OffersCore

\* ... and then the offer.
LEMMA OfferDeleted ==
    ASSUME OffersInv, NEW s \in Slots, Off!Delete(s)
    PROVE  OffersCore'
    <1>t. Off!TypeOK
        BY DEF OffersInv
    <1>s. call[s] # Off!Idle /\ Deletes(s) /\ Strips(s) /\ ~Makes(s)
        BY DEF Off!Delete, Off!At, Off!Idle, Makes, Deletes, Strips
    <1> PICK o \in Offers : o = call[s].offer
        BY <1>t, <1>s, OfferRequest
    <1>1. /\ offer'[o] = Off!NoOffer /\ \A q \in Offers \ {o} : offer'[q] = offer[q]
          /\ UNCHANGED <<plansOf, cyclesOf, usage, asked, applied, missed, loose, spoilt>>
        BY <1>t DEF Off!Delete, Off!Mine, Off!TypeOK, Off!history
    <1>2. call'[s] = Off!Idle /\ \A t \in Slots \ {s} : call'[t] = call[t]
        BY <1>t, OfferMoved DEF Off!Delete
    <1>4. \A t \in Slots : call'[t] # Off!Idle => call'[t] = call[t]
        BY <1>2
    <1>5. \A t \in Slots : Makes(t)' \/ Deletes(t)' => call'[t] # Off!Idle
        BY DEF Makes, Deletes, Strips, Off!Idle
    <1>6. \A t \in Slots : Makes(t)' => Makes(t) /\ call'[t] = call[t]
        BY <1>4, <1>5 DEF Makes
    <1>u. asked[o].made
        BY <1>s DEF OffersInv, Unmade
    <1>7. Unmade'
        BY <1>1, <1>4, <1>u DEF OffersInv, Unmade
    <1>8. OneMaker'
        BY <1>1, <1>6 DEF OffersInv, OneMaker, Off!At
    <1>a. Apart'
        BY <1>1, <1>4, <1>5, <1>6 DEF OffersInv, Apart, Deletes, Strips
    <1>9. Due'
        <2> SUFFICES ASSUME NEW t \in Slots, Makes(t)', call'[t].offer \notin spoilt
                     PROVE  StillDue(t, call[t].offer)' /\ call'[t] = call[t]
            BY <1>1 DEF Due, StillDue
        <2>1. Makes(t) /\ call'[t] = call[t] /\ call[t].offer # o
            BY <1>s, <1>6 DEF OffersInv, Apart
        <2>2. call[t].offer \in Offers
            BY <1>t, <2>1, OfferRequest DEF Makes, Off!Idle
        <2> QED BY <1>1, <2>1, <2>2 DEF OffersInv, Due, StillDue, Off!There
    <1>10. DeletedUnused'
        BY <1>1, <1>4, <1>5 DEF OffersInv, DeletedUnused, Deletes, Strips
    <1>11. Off!OfferIsWhole'
        <2>1. \A q \in Offers : Off!Creating(q) => Off!Creating(q)'
            BY <1>2, <1>s DEF Off!Creating, Makes
        <2>2. \A q \in Offers \ {o} : Off!Stripping(q) => Off!Stripping(q)'
            BY <1>2 DEF Off!Stripping
        <2> QED BY <1>1, <2>1, <2>2 DEF OffersInv, Off!OfferIsWhole, Off!There, Off!NoOffer
    <1>12. Off!UsedIsKept'
        <2>1. o \notin usage \ missed
            BY <1>s DEF OffersInv, DeletedUnused
        <2> QED BY <1>1, <1>t, <2>1 DEF OffersInv, Off!UsedIsKept, Off!There, Off!TypeOK
    <1>13. Off!AppliedAsAsked' /\ Off!DatesOrdered'
        BY <1>1 DEF OffersInv, Off!AppliedAsAsked, Off!DatesOrdered, Off!NoOffer
    <1> QED BY <1>7, <1>8, <1>9, <1>10, <1>11, <1>12, <1>13, <1>a DEF OffersCore

\* An offer is applied, or its use recorded.
LEMMA OfferUsed ==
    ASSUME OffersInv, NEW s \in Slots, NEW o \in Offers, NEW p \in Plans,
           Off!ApplyOfferCode(s, o, p) \/ Off!RecordOfferUsage(s, o, p)
    PROVE  OffersCore'
    <1>t. Off!TypeOK
        BY DEF OffersInv
    <1>1. /\ UNCHANGED <<offer, plansOf, cyclesOf, asked, loose, spoilt>>
          /\ call[s] = Off!Idle /\ Off!Begin(s, Off!Idle)
        BY DEF Off!ApplyOfferCode, Off!RecordOfferUsage, Off!Begin, Off!tables
    <1>2. \A t \in Slots : call'[t] = call[t]
        BY <1>t, <1>1, OfferMoved
    <1>3. \/ usage' = usage /\ missed' = missed
          \/ /\ usage' = usage \cup {o} /\ Off!There(o) /\ applied' = applied
             /\ missed \subseteq missed' /\ (Off!Deleting(o) => o \in missed')
        BY DEF Off!ApplyOfferCode, Off!RecordOfferUsage, Off!tables
    <1>4. applied' = applied \/ (offer[o].active /\ Off!ApplyOfferCode(s, o, p))
        BY DEF Off!ApplyOfferCode, Off!RecordOfferUsage
    <1>5. Unmade'
        <2>1. offer[o].active \/ Off!There(o) => asked[o].made
            BY DEF OffersInv, Unmade, Off!There, Off!NoOffer
        <2>2. \A a \in applied' : asked[a[1]].made
            <3>1. CASE applied' = applied
                BY <3>1 DEF OffersInv, Unmade
            <3>2. CASE offer[o].active /\ Off!ApplyOfferCode(s, o, p)
                BY <2>1, <3>2 DEF OffersInv, Unmade, Off!ApplyOfferCode
            <3> QED BY <1>4, <3>1, <3>2
        <2> QED BY <1>1, <1>2, <1>3, <2>1, <2>2 DEF OffersInv, Unmade
    <1>6. OneMaker' /\ Due'
        BY <1>1, <1>2 DEF OffersInv, OneMaker, Due, StillDue, Makes, Off!At, Off!There
    <1>7. DeletedUnused'
        BY <1>1, <1>2, <1>3 DEF OffersInv, DeletedUnused, Deletes, Strips, Off!At, Off!Deleting, Off!Stripping
    <1>8. Off!OfferIsWhole'
        BY <1>1, <1>2 DEF OffersInv, Off!OfferIsWhole, Off!There, Off!Creating, Off!Stripping
    <1>9. Off!UsedIsKept'
        BY <1>1, <1>3 DEF OffersInv, Off!UsedIsKept, Off!There
    <1>10. Off!AppliedAsAsked'
        <2>1. CASE applied' = applied
            BY <1>1, <2>1 DEF OffersInv, Off!AppliedAsAsked
        <2>2. CASE offer[o].active /\ Off!ApplyOfferCode(s, o, p)
            <3>1. /\ applied' = applied \cup {<<o, p, Off!Creating(o) \/ Off!Stripping(o)>>}
                  /\ plansOf[o] = {} \/ p \in plansOf[o]
                BY <2>2 DEF Off!ApplyOfferCode
            <3>2. Off!There(o)
                <4>1. offer[o] # Off!NoOffer
                    BY <2>2 DEF Off!NoOffer
                <4>2. offer[o].gone \in {FALSE}
                    BY <1>t, <4>1 DEF Off!TypeOK, Off!Offer
                <4> QED BY <4>2 DEF Off!There
            <3>3. asked[o].plans = {} \/ p \in asked[o].plans \/ Off!Creating(o) \/ Off!Stripping(o) \/ o \in spoilt
                BY <3>1, <3>2 DEF OffersInv, Off!OfferIsWhole
            <3> PICK half : half = (Off!Creating(o) \/ Off!Stripping(o))
                OBVIOUS
            <3>4. half \in BOOLEAN
                BY DEF Off!Creating, Off!Stripping
            <3>5. applied' = applied \cup {<<o, p, half>>}
                BY <3>1
            <3>6. asked[o].plans = {} \/ p \in asked[o].plans \/ half \/ o \in spoilt
                BY <3>3
            <3>7. \A a \in applied' : a \in applied \/ (a[1] = o /\ a[2] = p /\ a[3] = half)
                BY <3>5
            <3> QED BY <1>1, <3>4, <3>6, <3>7 DEF OffersInv, Off!AppliedAsAsked
        <2> QED BY <1>4, <2>1, <2>2
    <1>11. Off!DatesOrdered'
        BY <1>1 DEF OffersInv, Off!DatesOrdered
    <1>a. Apart'
        BY <1>1, <1>2 DEF OffersInv, Apart, Makes, Strips
    <1> QED BY <1>5, <1>6, <1>7, <1>8, <1>9, <1>10, <1>11, <1>a DEF OffersCore

LEMMA OffersStep == OffersInv /\ [Off!Next]_(Off!vars) => OffersInv'
    <1> SUFFICES ASSUME OffersInv, [Off!Next]_(Off!vars) PROVE OffersInv'
        OBVIOUS
    <1>t. Off!TypeOK /\ Off!TypeOK'
        BY OffersTyped DEF OffersInv
    <1> SUFFICES OffersCore'
        BY <1>t DEF OffersInv, OffersCore
    <1> USE DEF Off!Counters, Off!tables, Off!history, Off!Mine
    <1>1. ASSUME NEW s \in Slots, NEW o \in Offers, NEW ps \in SUBSET Plans, NEW n \in 0..2,
                 Off!CreateOffer(s, o, ps, n)
          PROVE  OffersCore'
        BY <1>1, OfferCreated
    <1>2. ASSUME NEW s \in Slots, NEW p \in Plans, Off!AddPlan(s, p) PROVE OffersCore'
        <2>1. /\ Makes(s) /\ call[s] # Off!Idle /\ p \in call[s].plans
              /\ UNCHANGED <<offer, cyclesOf, usage, asked, applied, missed, loose, spoilt>>
              /\ call' = [call EXCEPT ![s] = Off!Adding(call[s].offer, call[s].plans \ {p}, call[s].cycles)]
            BY <1>2 DEF Off!AddPlan, Off!At, Off!Idle, Makes
        <2>2. call[s].offer \in Offers /\ call[s].cycles \in 0..call[s].cycles
            BY <1>t, <2>1, OfferRequest
        <2>3. /\ plansOf'[call[s].offer] = plansOf[call[s].offer] \cup {p}
              /\ \A q \in Offers \ {call[s].offer} : plansOf'[q] = plansOf[q]
            BY <1>2, <1>t, <2>2 DEF Off!AddPlan, Off!TypeOK
        <2>4. plansOf'[call[s].offer] \cup (call[s].plans \ {p}) = plansOf[call[s].offer] \cup call[s].plans
            BY <2>1, <2>3
        <2> QED BY <1>t, <2>1, <2>2, <2>3, <2>4, OfferRowAdded
    <1>3. ASSUME NEW s \in Slots, Off!AddCycle(s) PROVE OffersCore'
        <2>1. /\ Makes(s) /\ call[s] # Off!Idle /\ Off!At(s, "offer.cycles")
              /\ UNCHANGED <<offer, plansOf, usage, asked, applied, missed, loose, spoilt>>
              /\ call' = [call EXCEPT ![s] = Off!Adding(call[s].offer, {}, call[s].cycles - 1)]
            BY <1>3 DEF Off!AddCycle, Off!At, Off!Idle, Makes
        <2>2. call[s].plans = {} /\ call[s].cycles # 0
            BY <2>1 DEF OffersInv, OneMaker
        <2>3. call[s].offer \in Offers /\ call[s].cycles \in 0..2
            BY <1>t, <2>1, OfferRequest
        <2>4. /\ cyclesOf'[call[s].offer] = cyclesOf[call[s].offer] + 1
              /\ \A q \in Offers \ {call[s].offer} : cyclesOf'[q] = cyclesOf[q]
              /\ cyclesOf[call[s].offer] \in 0..2
            BY <1>3, <1>t, <2>3 DEF Off!AddCycle, Off!TypeOK
        <2>5. /\ cyclesOf'[call[s].offer] + (call[s].cycles - 1) = cyclesOf[call[s].offer] + call[s].cycles
              /\ call[s].cycles - 1 \in 0..call[s].cycles
            BY <2>2, <2>3, <2>4
        <2>6. {} \in SUBSET call[s].plans /\ plansOf'[call[s].offer] \cup {} = plansOf[call[s].offer] \cup call[s].plans
            BY <2>1, <2>2
        <2> QED BY <1>t, <2>1, <2>4, <2>5, <2>6, OfferRowAdded
    <1>4. ASSUME NEW s \in Slots, NEW o \in Offers, NEW yes \in BOOLEAN,
                 Off!UpdateOffer(s, o, yes) \/ Off!UpdateOneDate(s, o, yes) \/ Off!UpdateBothDates(s, o)
          PROVE  OffersCore'
        <2>1. /\ ~offer[o].gone /\ call[s] = Off!Idle /\ Off!Begin(s, Off!Idle)
              /\ UNCHANGED <<plansOf, cyclesOf, usage, asked, applied, missed, spoilt>>
            BY <1>4 DEF Off!UpdateOffer, Off!UpdateOneDate, Off!UpdateBothDates, Off!There, Off!Begin
        <2>2. offer[o] \in Off!Offer
            BY <1>t, <2>1 DEF Off!NoOffer, Off!TypeOK
        <2>3. /\ \A q \in Offers \ {o} : offer'[q] = offer[q]
              /\ offer'[o].gone = offer[o].gone
              /\ offer'[o].ordered \/ o \in loose' \/ ~offer[o].ordered
              /\ \A q \in Offers \ {o} : q \in loose => q \in loose'
              /\ offer'[o].ordered \/ o \notin loose \/ o \in loose'
            <3>1. CASE Off!UpdateOffer(s, o, yes)
                <4>1. offer'[o] = [offer[o] EXCEPT !.active = yes] /\ loose' = loose
                    BY <1>t, <3>1 DEF Off!UpdateOffer, Off!TypeOK
                <4>2. offer'[o].gone = offer[o].gone /\ offer'[o].ordered = offer[o].ordered
                    BY <2>2, <4>1 DEF Off!Offer
                <4> QED BY <1>t, <3>1, <4>1, <4>2 DEF Off!UpdateOffer, Off!TypeOK
            <3>2. CASE Off!UpdateOneDate(s, o, yes)
                <4>1. offer'[o] = [offer[o] EXCEPT !.ordered = yes] /\ loose' = loose \cup {o}
                    BY <1>t, <3>2 DEF Off!UpdateOneDate, Off!TypeOK
                <4>2. offer'[o].gone = offer[o].gone
                    BY <2>2, <4>1 DEF Off!Offer
                <4> QED BY <1>t, <3>2, <4>1, <4>2 DEF Off!UpdateOneDate, Off!TypeOK
            <3>3. CASE Off!UpdateBothDates(s, o)
                <4>1. offer'[o] = [offer[o] EXCEPT !.ordered = TRUE] /\ loose' = loose \ {o}
                    BY <1>t, <3>3 DEF Off!UpdateBothDates, Off!TypeOK
                <4>2. offer'[o].gone = offer[o].gone /\ offer'[o].ordered = TRUE
                    BY <2>2, <4>1 DEF Off!Offer
                <4> QED BY <1>t, <3>3, <4>1, <4>2 DEF Off!UpdateBothDates, Off!TypeOK
            <3> QED BY <1>4, <3>1, <3>2, <3>3
        <2>4. Off!DatesOrdered'
            BY <2>3 DEF OffersInv, Off!DatesOrdered
        <2>5. \A t \in Slots : call'[t] = call[t]
            BY <1>t, <2>1, OfferMoved
        <2> QED BY <2>1, <2>3, <2>4, <2>5, OffersUpdated
    <1>5. ASSUME NEW s \in Slots, NEW o \in Offers, Off!DeleteOffer(s, o) PROVE OffersCore'
        BY <1>5, OfferLeaves
    <1>6. ASSUME NEW s \in Slots, Off!Retire(s) PROVE OffersCore'
        <2>1. /\ call[s] # Off!Idle /\ ~Makes(s) /\ ~Strips(s)
              /\ UNCHANGED <<plansOf, cyclesOf, usage, asked, applied, missed, loose, spoilt>>
            BY <1>6 DEF Off!Retire, Off!At, Off!Idle, Makes, Strips
        <2>2. call[s].offer \in Offers
            BY <1>t, <2>1, OfferRequest
        <2>3. \A q \in Offers : offer'[q].gone = offer[q].gone /\ offer'[q].ordered = offer[q].ordered
                                  /\ (offer[q].gone => offer'[q] = offer[q])
            <3>1. CASE ~Off!There(call[s].offer)
                BY <1>6, <3>1 DEF Off!Retire
            <3>2. CASE Off!There(call[s].offer)
                <4>1. offer[call[s].offer] \in Off!Offer
                    BY <1>t, <2>2, <3>2 DEF Off!NoOffer, Off!TypeOK, Off!There
                <4>2. offer' = [offer EXCEPT ![call[s].offer].active = FALSE]
                    BY <1>6, <3>2 DEF Off!Retire
                <4>3. offer'[call[s].offer] = [offer[call[s].offer] EXCEPT !.active = FALSE]
                    BY <1>t, <2>2, <4>2 DEF Off!TypeOK
                <4>4. /\ offer'[call[s].offer].gone = offer[call[s].offer].gone
                      /\ offer'[call[s].offer].ordered = offer[call[s].offer].ordered
                    BY <4>1, <4>3 DEF Off!Offer
                <4>5. \A q \in Offers \ {call[s].offer} : offer'[q] = offer[q]
                    BY <1>t, <4>2 DEF Off!TypeOK
                <4> QED BY <3>2, <4>4, <4>5 DEF Off!There
            <3> QED BY <3>1, <3>2
        <2>4. Off!DatesOrdered'
            BY <2>1, <2>3 DEF OffersInv, Off!DatesOrdered
        <2>5. \A t \in Slots : call'[t] = call[t] \/ (call'[t] = Off!Idle /\ ~Makes(t) /\ ~Strips(t))
            BY <1>6, <1>t, <2>1, OfferMoved DEF Off!Retire
        <2> QED BY <2>1, <2>3, <2>4, <2>5, OffersUpdated
    <1>7. ASSUME NEW s \in Slots, Off!DeleteCycles(s) \/ Off!DeletePlans(s) PROVE OffersCore'
        BY <1>7, OfferStripped
    <1>12. ASSUME NEW s \in Slots, Off!Delete(s) PROVE OffersCore'
        BY <1>12, OfferDeleted
    <1>8. ASSUME NEW s \in Slots, NEW o \in Offers, NEW p \in Plans,
                 Off!ApplyOfferCode(s, o, p) \/ Off!RecordOfferUsage(s, o, p)
          PROVE  OffersCore'
        BY <1>8, OfferUsed
    <1>9. ASSUME NEW s \in Slots, Off!RequestFails(s) PROVE OffersCore'
        <2>1. /\ call'[s] = Off!Idle /\ \A t \in Slots \ {s} : call'[t] = call[t]
              /\ UNCHANGED <<offer, plansOf, cyclesOf, usage, asked, applied, missed, loose>>
            BY <1>9, <1>t, OfferMoved DEF Off!RequestFails
        <2>2. /\ spoilt \subseteq spoilt'
              /\ Makes(s) \/ Strips(s) => call[s].offer \in spoilt'
            BY <1>9 DEF Off!RequestFails, Off!Halfway, Makes, Strips
        <2>3. \A o \in Offers : Off!Creating(o) => Off!Creating(o)' \/ o \in spoilt'
            BY <2>1, <2>2 DEF Off!Creating, Makes
        <2>4. \A o \in Offers : Off!Stripping(o) => Off!Stripping(o)' \/ o \in spoilt'
            BY <2>1, <2>2 DEF Off!Stripping, Strips
        <2> QED BY <2>1, <2>2, <2>3, <2>4, OffersGivenUp
    <1>10. CASE Off!Crash
        <2>1. /\ \A t \in Slots : call'[t] = Off!Idle
              /\ UNCHANGED <<offer, plansOf, cyclesOf, usage, asked, applied, missed, loose>>
              /\ spoilt \subseteq spoilt'
              /\ \A o \in Offers : Off!Creating(o) \/ Off!Stripping(o) => o \in spoilt'
            BY <1>10 DEF Off!Crash, Off!Halfway, Off!Creating, Off!Stripping
        <2> QED BY <2>1, OffersGivenUp
    <1>11. CASE UNCHANGED Off!vars
        <2>1. /\ call' = call /\ spoilt' = spoilt
              /\ UNCHANGED <<offer, plansOf, cyclesOf, usage, asked, applied, missed, loose>>
            BY <1>11 DEF Off!vars
        <2>2. \A o \in Offers : Off!Creating(o) => Off!Creating(o)'
            BY <2>1 DEF Off!Creating
        <2>3. \A o \in Offers : Off!Stripping(o) => Off!Stripping(o)'
            BY <2>1 DEF Off!Stripping
        <2> QED BY <2>1, <2>2, <2>3, OffersGivenUp
    <1> QED BY <1>1, <1>2, <1>3, <1>4, <1>5, <1>6, <1>7, <1>8, <1>9, <1>10, <1>11, <1>12 DEF Off!Next

-----------------------------------------------------------------------------
(* The permissions on a resource.                                          *)

Shaped ==
    /\ allowed \in [Members -> [Shr!Kinds -> Shr!Row \cup {Shr!NoRow}]]
    /\ sharers \subseteq Members
    /\ call \in [Slots -> Shr!Request \cup {Shr!Idle}]

\* The request in slot s comes from whom checkAccess allowed to share: an
\* administrator, the creator, or somebody who has been given the right.
Entitled(s) == Shr!At(s, "grant.insert") => call[s].by \in Shr!Roots \cup sharers

\* Whoever has or had a row to share is among the sharers.
Remembered == \A u \in Members : allowed[u]["share"] # Shr!NoRow => u \in sharers

RootedInv ==
    Shaped /\ Shr!PermissionsRooted /\ Remembered /\ Shr!SharingDiesOut /\ \A s \in Slots : Entitled(s)

-----------------------------------------------------------------------------
LEMMA GrantShape ==
    ASSUME Shaped, NEW s \in Slots, Shr!At(s, "grant.insert")
    PROVE  /\ call[s].by \in Members \cup Admins /\ call[s].user \in Members
           /\ call[s].kind \in Shr!Kinds /\ call[s].ends \in BOOLEAN
    BY DEF Shaped, Shr!At, Shr!Request, Shr!Idle

LEMMA RevokeShape ==
    ASSUME Shaped, NEW s \in Slots, Shr!At(s, "revoke.delete")
    PROVE  call[s].user \in Members /\ call[s].kinds \subseteq Shr!Kinds
    BY DEF Shaped, Shr!At, Shr!Request, Shr!Idle

\* checkAccess allows nobody to share but the roots and the sharers ...
LEMMA MaySay ==
    ASSUME Remembered, NEW u \in Members \cup Admins, Shr!CheckAccess(u, "share")
    PROVE  u \in Shr!Roots \cup sharers
    BY DEF Remembered, Shr!CheckAccess, Shr!Owns, Shr!CheckResourcePermission, Shr!Live, Shr!Roots

\* ... and, once the others have lost the right, nobody but the roots.
LEMMA OnlyRootsSay ==
    ASSUME Shr!Dry, NEW u \in Members \cup Admins, Shr!CheckAccess(u, "share")
    PROVE  u \in Shr!Roots
    BY DEF Shr!Dry, Shr!CheckAccess, Shr!Owns, Shr!CheckResourcePermission, Shr!Roots

\* What a step has to keep so that nobody gets the right back by it.
LEMMA DryKept ==
    ASSUME Shr!Dry,
           \A u \in Members : Shr!Live(u, "share")' => Shr!Live(u, "share") \/ u \in Shr!Roots,
           \A s \in Slots : (call'[s].pc = "grant.insert" /\ call'[s].by \notin Shr!Roots)
                                => call'[s] = call[s]
    PROVE  Shr!Dry'
    BY DEF Shr!Dry, Shr!At, Shr!Roots

LEMMA Settled ==
    ASSUME Shr!SharingDiesOut, NEW brought \in BOOLEAN, Shr!Settle(brought), ~brought /\ Shr!Dry => Shr!Dry'
    PROVE  Shr!SharingDiesOut'
    BY DEF Shr!SharingDiesOut, Shr!Settle

-----------------------------------------------------------------------------
LEMMA RootedInit == Shr!Init => RootedInv
    <1> SUFFICES ASSUME Shr!Init PROVE RootedInv
        OBVIOUS
    <1>1. Shaped
        BY DEF Shr!Init, Shaped
    <1>2. /\ \A u \in Members, k \in Shr!Kinds : allowed[u][k] = Shr!NoRow
          /\ \A s \in Slots : call[s].pc = "idle"
        BY DEF Shr!Init, Shr!Idle
    <1>3. "share" \in Shr!Kinds
        BY DEF Shr!Kinds
    <1>4. Shr!Dry
        BY <1>2, <1>3 DEF Shr!Dry, Shr!Live, Shr!At
    <1> QED
        BY <1>1, <1>2, <1>3, <1>4
        DEF RootedInv, Shr!PermissionsRooted, Remembered, Shr!SharingDiesOut, Entitled, Shr!At

\* A request is made or ends, or time passes: no row gets another granter.
LEMMA RowsAlone ==
    ASSUME RootedInv, call' \in [Slots -> Shr!Request \cup {Shr!Idle}], sharers' = sharers,
           allowed' \in [Members -> [Shr!Kinds -> Shr!Row \cup {Shr!NoRow}]],
           \A u \in Members, k \in Shr!Kinds : allowed'[u][k] # Shr!NoRow =>
               allowed[u][k] # Shr!NoRow /\ allowed'[u][k].by = allowed[u][k].by,
           \A s \in Slots : Entitled(s)', Shr!SharingDiesOut'
    PROVE  RootedInv'
    <1>1. "share" \in Shr!Kinds
        BY DEF Shr!Kinds
    <1>2. Shaped'
        BY DEF RootedInv, Shaped
    <1>3. Shr!PermissionsRooted'
        BY DEF RootedInv, Shr!PermissionsRooted, Shr!Roots
    <1>4. Remembered'
        BY <1>1 DEF RootedInv, Remembered
    <1> QED
        BY <1>2, <1>3, <1>4 DEF RootedInv

LEMMA Requesting ==
    ASSUME RootedInv, NEW s \in Slots, NEW c \in Shr!Request \cup {Shr!Idle}, Shr!Begin(s, c),
           c.pc = "grant.insert" => /\ c.by \in Members \cup Admins
                                    /\ Shr!CheckAccess(c.by, "share")
    PROVE  RootedInv'
    <1>1. /\ call' = [call EXCEPT ![s] = c] /\ allowed' = allowed /\ sharers' = sharers
          /\ Shr!Settle(FALSE)
        BY DEF Shr!Begin
    <1>2. call' \in [Slots -> Shr!Request \cup {Shr!Idle}]
        BY <1>1 DEF RootedInv, Shaped
    <1>3. call'[s] = c /\ \A t \in Slots \ {s} : call'[t] = call[t]
        BY <1>1 DEF RootedInv, Shaped
    <1>4. \A t \in Slots : Entitled(t)'
        BY <1>1, <1>3, MaySay DEF RootedInv, Entitled, Shr!At, Shr!Roots
    <1>5. ASSUME Shr!Dry PROVE Shr!Dry'
        <2>1. c.pc = "grant.insert" => c.by \in Shr!Roots
            BY <1>5, OnlyRootsSay
        <2>2. \A u \in Members : Shr!Live(u, "share")' => Shr!Live(u, "share")
            BY <1>1 DEF Shr!Live
        <2> QED
            BY <1>3, <1>5, <2>1, <2>2, DryKept
    <1>6. Shr!SharingDiesOut'
        BY <1>1, <1>5, Settled DEF RootedInv
    <1> QED
        BY <1>1, <1>2, <1>4, <1>6, RowsAlone DEF RootedInv, Shaped

LEMMA Ending ==
    ASSUME RootedInv, NEW s \in Slots, Shr!Done(s)
    PROVE  /\ call' \in [Slots -> Shr!Request \cup {Shr!Idle}]
           /\ \A t \in Slots : call'[t].pc = "grant.insert" => call'[t] = call[t]
    BY DEF RootedInv, Shaped, Shr!Done, Shr!Idle

LEMMA EntitledKept ==
    ASSUME RootedInv, \A t \in Slots : call'[t].pc = "grant.insert" => call'[t] = call[t],
           sharers \subseteq sharers'
    PROVE  \A t \in Slots : Entitled(t)'
    BY DEF RootedInv, Entitled, Shr!At, Shr!Roots

LEMMA Granting ==
    ASSUME RootedInv, NEW s \in Slots, Shr!GrantInsert(s)
    PROVE  RootedInv'
    <1> DEFINE c == call[s]
               free == allowed[c.user][c.kind] = Shr!NoRow
               fresh == [there |-> TRUE, by |-> c.by, ends |-> c.ends, over |-> FALSE]
    <1>1. /\ c.by \in Members \cup Admins /\ c.user \in Members
          /\ c.kind \in Shr!Kinds /\ c.ends \in BOOLEAN /\ c.by \in Shr!Roots \cup sharers
        BY GrantShape DEF Shr!GrantInsert, RootedInv, Entitled
    <1>2. /\ call' \in [Slots -> Shr!Request \cup {Shr!Idle}]
          /\ \A t \in Slots : call'[t].pc = "grant.insert" => call'[t] = call[t]
        BY Ending DEF Shr!GrantInsert
    <1>3. fresh \in Shr!Row
        BY <1>1 DEF Shr!Row
    <1>4. Shr!Settle(free /\ c.by \in Shr!Roots /\ c.kind = "share")
        BY DEF Shr!GrantInsert
    <1>5. CASE ~free
        <2>1. allowed' = allowed /\ sharers' = sharers
            BY <1>5 DEF Shr!GrantInsert
        <2>2. \A t \in Slots : Entitled(t)'
            BY <1>2, <2>1, EntitledKept
        <2>3. ASSUME Shr!Dry PROVE Shr!Dry'
            BY <1>2, <2>1, <2>3, DryKept DEF Shr!Live
        <2>4. Shr!SharingDiesOut'
            BY <1>4, <2>3, Settled DEF RootedInv
        <2> QED
            BY <1>2, <2>1, <2>2, <2>4, RowsAlone DEF RootedInv, Shaped
    <1>6. CASE free
        <2>1. /\ allowed' = [allowed EXCEPT ![c.user][c.kind] = fresh]
              /\ sharers' = IF c.kind = "share" THEN sharers \cup {c.user} ELSE sharers
            BY <1>6 DEF Shr!GrantInsert
        <2>2. sharers \subseteq sharers' /\ sharers' \subseteq Members
            BY <1>1, <2>1 DEF RootedInv, Shaped
        <2>3. \A u \in Members, k \in Shr!Kinds :
                  allowed'[u][k] = IF u = c.user /\ k = c.kind THEN fresh ELSE allowed[u][k]
            BY <1>1, <2>1 DEF RootedInv, Shaped
        <2>4. allowed' \in [Members -> [Shr!Kinds -> Shr!Row \cup {Shr!NoRow}]]
            BY <1>1, <1>3, <2>1 DEF RootedInv, Shaped
        <2>5. Shr!PermissionsRooted'
            <3> SUFFICES ASSUME NEW u \in Members, NEW k \in Shr!Kinds, allowed'[u][k] # Shr!NoRow
                         PROVE  allowed'[u][k].by \in Shr!Roots \cup sharers'
                BY DEF Shr!PermissionsRooted, Shr!Roots
            <3>1. CASE u = c.user /\ k = c.kind
                BY <1>1, <2>2, <2>3, <3>1
            <3>2. CASE ~(u = c.user /\ k = c.kind)
                BY <2>2, <2>3, <3>2 DEF RootedInv, Shr!PermissionsRooted
            <3> QED
                BY <3>1, <3>2
        <2>6. Remembered'
            BY <2>1, <2>2, <2>3 DEF RootedInv, Remembered, Shr!Kinds
        <2>7. \A t \in Slots : Entitled(t)'
            BY <1>2, <2>2, EntitledKept
        <2>8. ASSUME Shr!Dry, ~(free /\ c.by \in Shr!Roots /\ c.kind = "share") PROVE Shr!Dry'
            <3>1. c.by \in Shr!Roots
                BY <2>8 DEF Shr!Dry, Shr!GrantInsert
            <3>2. c.kind # "share"
                BY <1>6, <2>8, <3>1
            <3>3. \A u \in Members : allowed'[u]["share"] = allowed[u]["share"]
                BY <2>3, <3>2 DEF Shr!Kinds
            <3>4. \A u \in Members : Shr!Live(u, "share")' => Shr!Live(u, "share")
                BY <3>3 DEF Shr!Live
            <3> QED
                BY <1>2, <2>8, <3>4, DryKept
        <2>9. Shr!SharingDiesOut'
            BY <1>4, <2>8, Settled DEF RootedInv
        <2> QED
            BY <1>2, <2>2, <2>4, <2>5, <2>6, <2>7, <2>9 DEF RootedInv, Shaped
    <1> QED
        BY <1>5, <1>6

LEMMA Revoking ==
    ASSUME RootedInv, NEW s \in Slots, Shr!RevokeDelete(s)
    PROVE  RootedInv'
    <1> DEFINE c == call[s]
    <1>1. c.user \in Members /\ c.kinds \subseteq Shr!Kinds
        BY RevokeShape DEF Shr!RevokeDelete, RootedInv
    <1>2. /\ call' \in [Slots -> Shr!Request \cup {Shr!Idle}]
          /\ \A t \in Slots : call'[t].pc = "grant.insert" => call'[t] = call[t]
        BY Ending DEF Shr!RevokeDelete
    <1>3. /\ allowed' = [allowed EXCEPT ![c.user] =
                          [k \in Shr!Kinds |-> IF k \in c.kinds THEN Shr!NoRow ELSE allowed[c.user][k]]]
          /\ sharers' = sharers /\ Shr!Settle(FALSE)
        BY DEF Shr!RevokeDelete
    <1>4. \A u \in Members, k \in Shr!Kinds :
              allowed'[u][k] = IF u = c.user /\ k \in c.kinds THEN Shr!NoRow ELSE allowed[u][k]
        BY <1>1, <1>3 DEF RootedInv, Shaped
    <1>5. allowed' \in [Members -> [Shr!Kinds -> Shr!Row \cup {Shr!NoRow}]]
        BY <1>1, <1>3 DEF RootedInv, Shaped
    <1>6. \A t \in Slots : Entitled(t)'
        BY <1>2, <1>3, EntitledKept
    <1>7. ASSUME Shr!Dry PROVE Shr!Dry'
        <2>1. \A u \in Members : Shr!Live(u, "share")' => Shr!Live(u, "share")
            BY <1>4 DEF Shr!Live, Shr!Kinds
        <2> QED
            BY <1>2, <1>7, <2>1, DryKept
    <1>8. Shr!SharingDiesOut'
        BY <1>3, <1>7, Settled DEF RootedInv
    <1>9. \A u \in Members, k \in Shr!Kinds : allowed'[u][k] # Shr!NoRow =>
              allowed[u][k] # Shr!NoRow /\ allowed'[u][k].by = allowed[u][k].by
        BY <1>4
    <1> QED
        BY <1>2, <1>3, <1>5, <1>6, <1>8, <1>9, RowsAlone

LEMMA Expiring ==
    ASSUME RootedInv, NEW u \in Members, NEW k \in Shr!Kinds, Shr!Expire(u, k)
    PROVE  RootedInv'
    <1>1. /\ allowed' = [allowed EXCEPT ![u][k].over = TRUE] /\ sharers' = sharers /\ call' = call
          /\ Shr!Live(u, k) /\ Shr!Settle(FALSE)
        BY DEF Shr!Expire
    <1>2. allowed[u][k] \in Shr!Row
        BY <1>1 DEF RootedInv, Shaped, Shr!Live
    <1>3. [allowed[u][k] EXCEPT !.over = TRUE] \in Shr!Row
        BY <1>2 DEF Shr!Row
    <1>4. \A v \in Members, l \in Shr!Kinds :
              allowed'[v][l] = IF v = u /\ l = k THEN [allowed[u][k] EXCEPT !.over = TRUE] ELSE allowed[v][l]
        BY <1>1 DEF RootedInv, Shaped
    <1>5. allowed' \in [Members -> [Shr!Kinds -> Shr!Row \cup {Shr!NoRow}]]
        BY <1>1, <1>3 DEF RootedInv, Shaped
    <1>6. [allowed[u][k] EXCEPT !.over = TRUE].by = allowed[u][k].by /\ allowed[u][k] # Shr!NoRow
        BY <1>1, <1>2 DEF Shr!Row, Shr!Live
    <1>7. \A t \in Slots : Entitled(t)'
        BY <1>1, EntitledKept
    <1>8. ASSUME Shr!Dry PROVE Shr!Dry'
        <2>1. [allowed[u][k] EXCEPT !.over = TRUE].over
            BY <1>2 DEF Shr!Row
        <2>2. \A v \in Members : Shr!Live(v, "share")' => Shr!Live(v, "share")
            BY <1>4, <2>1 DEF Shr!Live, Shr!Kinds
        <2> QED
            BY <1>1, <1>8, <2>2, DryKept
    <1>9. Shr!SharingDiesOut'
        BY <1>1, <1>8, Settled DEF RootedInv
    <1>10. \A v \in Members, l \in Shr!Kinds : allowed'[v][l] # Shr!NoRow =>
               allowed[v][l] # Shr!NoRow /\ allowed'[v][l].by = allowed[v][l].by
        BY <1>4, <1>6
    <1>11. call' \in [Slots -> Shr!Request \cup {Shr!Idle}]
        BY <1>1 DEF RootedInv, Shaped
    <1> QED
        BY <1>1, <1>5, <1>7, <1>9, <1>10, <1>11, RowsAlone

LEMMA Breaking ==
    ASSUME RootedInv, NEW s \in Slots, Shr!RequestFails(s)
    PROVE  RootedInv'
    <1>1. allowed' = allowed /\ sharers' = sharers /\ Shr!Settle(FALSE)
        BY DEF Shr!RequestFails
    <1>2. /\ call' \in [Slots -> Shr!Request \cup {Shr!Idle}]
          /\ \A t \in Slots : call'[t].pc = "grant.insert" => call'[t] = call[t]
        BY Ending DEF Shr!RequestFails
    <1>3. \A t \in Slots : Entitled(t)'
        BY <1>1, <1>2, EntitledKept
    <1>4. ASSUME Shr!Dry PROVE Shr!Dry'
        BY <1>1, <1>2, <1>4, DryKept DEF Shr!Live
    <1>5. Shr!SharingDiesOut'
        BY <1>1, <1>4, Settled DEF RootedInv
    <1> QED
        BY <1>1, <1>2, <1>3, <1>5, RowsAlone DEF RootedInv, Shaped

LEMMA RootedStep == RootedInv /\ [Shr!Next]_(Shr!vars) => RootedInv'
    <1> SUFFICES ASSUME RootedInv, [Shr!Next]_(Shr!vars) PROVE RootedInv'
        OBVIOUS
    <1>1. CASE UNCHANGED Shr!vars
        <2>1. allowed' = allowed /\ sharers' = sharers /\ dry' = dry /\ call' = call
            BY <1>1 DEF Shr!vars
        <2> QED
            BY <2>1 DEF RootedInv, Shaped, Shr!PermissionsRooted, Remembered, Shr!SharingDiesOut, Entitled,
                        Shr!Dry, Shr!Live, Shr!At
    <1>2. ASSUME NEW s \in Slots, NEW by \in Members \cup Admins, NEW u \in Members, NEW k \in Shr!Kinds,
                 NEW ends \in BOOLEAN, Shr!GrantStart(s, by, u, k, ends)
          PROVE  RootedInv'
        <2> DEFINE c == [pc |-> "grant.insert", by |-> by, user |-> u, kind |-> k, ends |-> ends]
        <2>1. c \in Shr!Request
            BY DEF Shr!Request
        <2> QED
            BY <1>2, <2>1, Requesting DEF Shr!GrantStart
    <1>3. ASSUME NEW s \in Slots, NEW by \in Members \cup Admins, NEW u \in Members,
                 NEW ks \in {{"read"}, {"share"}, Shr!Kinds}, Shr!RevokeStart(s, by, u, ks)
          PROVE  RootedInv'
        <2> DEFINE c == [pc |-> "revoke.delete", user |-> u, kinds |-> ks]
        <2>1. c \in Shr!Request
            BY DEF Shr!Request, Shr!Kinds
        <2> QED
            BY <1>3, <2>1, Requesting DEF Shr!RevokeStart
    <1>4. ASSUME NEW s \in Slots, Shr!GrantInsert(s) \/ Shr!RevokeDelete(s) \/ Shr!RequestFails(s)
          PROVE  RootedInv'
        BY <1>4, Granting, Revoking, Breaking
    <1>5. ASSUME NEW u \in Members, NEW k \in Shr!Kinds, Shr!Expire(u, k) PROVE RootedInv'
        BY <1>5, Expiring
    <1> QED
        BY <1>1, <1>2, <1>3, <1>4, <1>5 DEF Shr!Next

LEMMA SharesTyped == Shr!TypeOK /\ [Shr!Next]_(Shr!vars) => Shr!TypeOK'
    <1> SUFFICES ASSUME Shr!TypeOK, [Shr!Next]_(Shr!vars) PROVE Shr!TypeOK'
        OBVIOUS
    <1>a. AreaCalls["shares"] \in Nat /\ AreaFaults["shares"] \in Nat
        BY AreasAssumption DEF Areas
    <1> USE DEF Shr!Counters
    <1> DEFINE Ordered == \A u \in Members, k \in Shr!Kinds :
                              allowed[u][k] # Shr!NoRow => (allowed[u][k].over => allowed[u][k].ends)
    <1>s. ASSUME NEW b \in BOOLEAN, Shr!Settle(b) PROVE dry' \in BOOLEAN
        BY <1>s DEF Shr!Settle
    <1>b. ASSUME NEW s \in Slots, NEW c \in Shr!Request, Shr!Begin(s, c) PROVE Shr!TypeOK'
        <2>1. /\ call' \in [Slots -> Shr!Request \cup {Shr!Idle}] /\ allowed' = allowed /\ sharers' = sharers
              /\ calls < AreaCalls["shares"] /\ calls' = calls + 1 /\ faults' = faults
            BY <1>b DEF Shr!Begin, Shr!TypeOK
        <2>2. calls' \in 0..AreaCalls["shares"]
            BY <1>a, <2>1 DEF Shr!TypeOK
        <2>3. dry' \in BOOLEAN
            BY <1>b, <1>s DEF Shr!Begin
        <2> QED BY <2>1, <2>2, <2>3 DEF Shr!TypeOK
    <1>1. ASSUME NEW s \in Slots, NEW by \in Members \cup Admins, NEW u \in Members, NEW k \in Shr!Kinds,
                 NEW ends \in BOOLEAN, Shr!GrantStart(s, by, u, k, ends)
          PROVE  Shr!TypeOK'
        <2>1. [pc |-> "grant.insert", by |-> by, user |-> u, kind |-> k, ends |-> ends] \in Shr!Request
            BY DEF Shr!Request
        <2> QED BY <1>1, <1>b, <2>1 DEF Shr!GrantStart
    <1>2. ASSUME NEW s \in Slots, NEW by \in Members \cup Admins, NEW u \in Members,
                 NEW ks \in {{"read"}, {"share"}, Shr!Kinds}, Shr!RevokeStart(s, by, u, ks)
          PROVE  Shr!TypeOK'
        <2>1. [pc |-> "revoke.delete", user |-> u, kinds |-> ks] \in Shr!Request
            BY DEF Shr!Request, Shr!Kinds
        <2> QED BY <1>2, <1>b, <2>1 DEF Shr!RevokeStart
    <1>3. ASSUME NEW s \in Slots, Shr!GrantInsert(s) PROVE Shr!TypeOK'
        <2> DEFINE c == call[s]
                   free == allowed[c.user][c.kind] = Shr!NoRow
                   fresh == [there |-> TRUE, by |-> c.by, ends |-> c.ends, over |-> FALSE]
        <2>1. /\ c.by \in Members \cup Admins /\ c.user \in Members /\ c.kind \in Shr!Kinds /\ c.ends \in BOOLEAN
            BY <1>3 DEF Shr!GrantInsert, Shr!At, Shr!TypeOK, Shr!Request, Shr!Idle
        <2>2. fresh \in Shr!Row /\ fresh.over = FALSE
            BY <2>1 DEF Shr!Row
        <2>3. /\ call' \in [Slots -> Shr!Request \cup {Shr!Idle}] /\ UNCHANGED <<calls, faults>>
              /\ sharers' \subseteq Members
            BY <1>3, <2>1 DEF Shr!GrantInsert, Shr!Done, Shr!TypeOK
        <2>4. dry' \in BOOLEAN
            BY <1>3 DEF Shr!GrantInsert, Shr!Settle
        <2>5. CASE ~free
            <3>1. allowed' = allowed
                BY <1>3, <2>5 DEF Shr!GrantInsert
            <3> QED BY <2>3, <2>4, <3>1 DEF Shr!TypeOK
        <2>6. CASE free
            <3>1. allowed' = [allowed EXCEPT ![c.user][c.kind] = fresh]
                BY <1>3, <2>6 DEF Shr!GrantInsert
            <3>2. \A u \in Members, k \in Shr!Kinds :
                      allowed'[u][k] = IF u = c.user /\ k = c.kind THEN fresh ELSE allowed[u][k]
                BY <2>1, <3>1 DEF Shr!TypeOK
            <3>3. allowed' \in [Members -> [Shr!Kinds -> Shr!Row \cup {Shr!NoRow}]]
                BY <2>1, <2>2, <3>1 DEF Shr!TypeOK
            <3>4. \A u \in Members, k \in Shr!Kinds :
                      allowed'[u][k] # Shr!NoRow => (allowed'[u][k].over => allowed'[u][k].ends)
                BY <2>2, <3>2 DEF Shr!TypeOK
            <3> QED BY <2>3, <2>4, <3>3, <3>4 DEF Shr!TypeOK
        <2> QED BY <2>5, <2>6
    <1>4. ASSUME NEW s \in Slots, Shr!RevokeDelete(s) PROVE Shr!TypeOK'
        <2> DEFINE c == call[s]
        <2>1. c.user \in Members /\ c.kinds \subseteq Shr!Kinds
            BY <1>4 DEF Shr!RevokeDelete, Shr!At, Shr!TypeOK, Shr!Request, Shr!Idle
        <2>2. /\ call' \in [Slots -> Shr!Request \cup {Shr!Idle}] /\ UNCHANGED <<calls, faults, sharers>>
              /\ allowed' = [allowed EXCEPT ![c.user] =
                                 [k \in Shr!Kinds |-> IF k \in c.kinds THEN Shr!NoRow ELSE allowed[c.user][k]]]
            BY <1>4, <2>1 DEF Shr!RevokeDelete, Shr!Done, Shr!TypeOK
        <2>3. dry' \in BOOLEAN
            BY <1>4, <1>s DEF Shr!RevokeDelete
        <2>4. \A u \in Members, k \in Shr!Kinds :
                  allowed'[u][k] = IF u = c.user /\ k \in c.kinds THEN Shr!NoRow ELSE allowed[u][k]
            BY <2>1, <2>2 DEF Shr!TypeOK
        <2>5. allowed' \in [Members -> [Shr!Kinds -> Shr!Row \cup {Shr!NoRow}]]
            BY <2>1, <2>2 DEF Shr!TypeOK
        <2>6. \A u \in Members, k \in Shr!Kinds :
                  allowed'[u][k] # Shr!NoRow => (allowed'[u][k].over => allowed'[u][k].ends)
            BY <2>4 DEF Shr!TypeOK
        <2> QED BY <2>2, <2>3, <2>5, <2>6 DEF Shr!TypeOK
    <1>5. ASSUME NEW u \in Members, NEW k \in Shr!Kinds, Shr!Expire(u, k) PROVE Shr!TypeOK'
        <2>1. /\ allowed' = [allowed EXCEPT ![u][k].over = TRUE] /\ UNCHANGED <<sharers, call, calls, faults>>
              /\ allowed[u][k] # Shr!NoRow /\ allowed[u][k].ends
            BY <1>5 DEF Shr!Expire, Shr!Live
        <2>2. dry' \in BOOLEAN
            BY <1>5, <1>s DEF Shr!Expire
        <2>3. allowed[u][k] \in Shr!Row
            BY <2>1 DEF Shr!TypeOK
        <2>4. /\ [allowed[u][k] EXCEPT !.over = TRUE] \in Shr!Row
              /\ [allowed[u][k] EXCEPT !.over = TRUE].ends = allowed[u][k].ends
            BY <2>3 DEF Shr!Row
        <2>5. \A v \in Members, l \in Shr!Kinds :
                  allowed'[v][l] = IF v = u /\ l = k THEN [allowed[u][k] EXCEPT !.over = TRUE] ELSE allowed[v][l]
            BY <2>1 DEF Shr!TypeOK
        <2>6. allowed' \in [Members -> [Shr!Kinds -> Shr!Row \cup {Shr!NoRow}]]
            BY <2>1, <2>4 DEF Shr!TypeOK
        <2>7. \A v \in Members, l \in Shr!Kinds :
                  allowed'[v][l] # Shr!NoRow => (allowed'[v][l].over => allowed'[v][l].ends)
            BY <2>1, <2>4, <2>5 DEF Shr!TypeOK
        <2> QED BY <2>1, <2>2, <2>6, <2>7 DEF Shr!TypeOK
    <1>6. ASSUME NEW s \in Slots, Shr!RequestFails(s) PROVE Shr!TypeOK'
        <2>1. /\ call' \in [Slots -> Shr!Request \cup {Shr!Idle}] /\ UNCHANGED <<allowed, sharers, calls>>
              /\ faults < AreaFaults["shares"] /\ faults' = faults + 1
            BY <1>6 DEF Shr!RequestFails, Shr!Done, Shr!TypeOK
        <2>2. faults' \in 0..AreaFaults["shares"]
            BY <1>a, <2>1 DEF Shr!TypeOK
        <2>3. dry' \in BOOLEAN
            BY <1>6, <1>s DEF Shr!RequestFails
        <2> QED BY <2>1, <2>2, <2>3 DEF Shr!TypeOK
    <1>7. CASE UNCHANGED Shr!vars
        BY <1>7 DEF Shr!vars, Shr!TypeOK
    <1> QED BY <1>1, <1>2, <1>3, <1>4, <1>5, <1>6, <1>7 DEF Shr!Next

LEMMA SharesStart == Shr!Init => Shr!TypeOK
    <1> SUFFICES ASSUME Shr!Init PROVE Shr!TypeOK
        OBVIOUS
    <1>1. calls \in 0..AreaCalls["shares"] /\ faults \in 0..AreaFaults["shares"]
        BY AreasAssumption DEF Shr!Init, Areas
    <1> QED BY <1>1 DEF Shr!Init, Shr!TypeOK

-----------------------------------------------------------------------------
(* The events of the gateway.                                              *)

\* What an event may say of a facet, and the handlers that are about to tell.
Fits(f, v) == IF f = "text" THEN v \in Evt!Texts ELSE v \in {"off", "on"}
Tellings == UNION {[D -> Evt!Settings] : D \in SUBSET Evt!Facets}
Handler == [pc : Evt!Handlers, tell : Tellings, crossed : SUBSET Evt!Facets]

EventsTyped ==
    /\ row \in [Evt!Facets -> Evt!Settings] /\ \A f \in Evt!Facets : Fits(f, row[f])
    /\ told \in [Evt!Facets -> Evt!Settings] /\ \A f \in Evt!Facets : Fits(f, told[f])
    /\ doubtful \subseteq Evt!Facets
    /\ call \in [Slots -> Handler \cup {Evt!Idle}]
    /\ \A s \in Slots : call[s] # Evt!Idle =>
           /\ call[s].crossed \subseteq DOMAIN call[s].tell
           /\ \A f \in DOMAIN call[s].tell : Fits(f, call[s].tell[f])
    /\ calls \in 0..AreaCalls["events"] /\ faults \in 0..AreaFaults["events"]

\* The handlers that read the message again tell of its columns.
Rereading ==
    \A s \in Slots : Evt!Rereads(s) \/ Evt!At(s, "enrich") => DOMAIN call[s].tell = Evt!Columns

\* Everybody who is about to tell of f tells what is so.
Told(f) == \A t \in Slots : Evt!Tells(t, f) => call[t].tell[f] = row[f]

\* They do if an event that nobody has crossed is among them, or f is beyond
\* doubt; then, too, the last event about f told what is so, if none is on its
\* way.
Uncrossed ==
    \A s \in Slots, f \in Evt!Facets :
        Evt!Tells(s, f) /\ f \notin call[s].crossed => Told(f)
Beyond ==
    \A f \in Evt!Facets \ doubtful :
        Told(f) /\ ((\A t \in Slots : ~Evt!Tells(t, f)) => told[f] = row[f])

EventsInv == EventsTyped /\ Rereading /\ Uncrossed /\ Beyond

LEMMA TellingShape ==
    ASSUME NEW tell \in Tellings
    PROVE  /\ DOMAIN tell \subseteq Evt!Facets /\ tell \in [DOMAIN tell -> Evt!Settings]
           /\ \A f \in DOMAIN tell : tell[f] \in Evt!Settings
    BY DEF Tellings

LEMMA TellingMade ==
    ASSUME NEW D \in SUBSET Evt!Facets, NEW tell \in [D -> Evt!Settings]
    PROVE  tell \in Tellings /\ DOMAIN tell = D
    BY DEF Tellings

LEMMA HandlerShape ==
    ASSUME EventsTyped, NEW s \in Slots, call[s] # Evt!Idle
    PROVE  /\ call[s] \in Handler /\ call[s].tell \in Tellings /\ call[s].crossed \subseteq Evt!Facets
           /\ call[s].pc \in Evt!Handlers
    BY DEF EventsTyped, Handler

LEMMA NotIdle == Evt!Idle \notin Handler /\ \A h \in Handler : h # Evt!Idle
    BY DEF Handler, Evt!Idle, Evt!Handlers

LEMMA FacetsFit ==
    /\ "text" \in Evt!Facets /\ "gone" \in Evt!Facets /\ "pinned" \in Evt!Facets
    /\ Reactions \subseteq Evt!Facets /\ Typists \subseteq Evt!Facets
    /\ Evt!Columns \subseteq Evt!Facets
    /\ \A f \in Evt!Switches : f # "text"
    /\ \A f, v : Fits(f, v) => v \in Evt!Settings
    BY AreasAssumption DEF Evt!Facets, Evt!Switches, Evt!Columns, Fits, Evt!Settings, Evt!Texts

LEMMA EventsStart == Evt!Init => EventsInv
    <1> SUFFICES ASSUME Evt!Init PROVE EventsInv
        OBVIOUS
    <1>1. \A s \in Slots : call[s] = Evt!Idle /\ ~Evt!Rereads(s) /\ ~Evt!At(s, "enrich")
        BY DEF Evt!Init, Evt!Rereads, Evt!At, Evt!Idle
    <1>2. row = told /\ doubtful = {} /\ \A f \in Evt!Facets : row[f] = IF f = "text" THEN "none" ELSE "off"
        BY DEF Evt!Init
    <1>3. calls \in 0..AreaCalls["events"] /\ faults \in 0..AreaFaults["events"]
        BY AreasAssumption DEF Evt!Init, Areas
    <1>4. \A f \in Evt!Facets : Fits(f, row[f])
        BY <1>2 DEF Fits, Evt!Texts
    <1>5. EventsTyped
        BY <1>1, <1>2, <1>3, <1>4, FacetsFit DEF EventsTyped, Evt!Init
    <1> QED BY <1>1, <1>2, <1>5 DEF EventsInv, Rereading, Uncrossed, Beyond, Told, Evt!Tells

LEMMA EventsHold == EventsInv => Evt!TypeOK /\ Evt!EventsAgree
    <1> SUFFICES ASSUME EventsInv PROVE Evt!TypeOK /\ Evt!EventsAgree
        OBVIOUS
    <1>1. Evt!EventsAgree
        BY DEF EventsInv, Beyond, Evt!EventsAgree, Evt!Pending
    <1>2. \A s \in Slots : call[s] # Evt!Idle =>
              /\ call[s].pc \in Evt!Handlers
              /\ call[s].crossed \subseteq DOMAIN call[s].tell
              /\ DOMAIN call[s].tell \subseteq Evt!Facets
        BY HandlerShape, TellingShape DEF EventsInv, EventsTyped
    <1>3. \A r \in {row, told} : r["text"] \in Evt!Texts /\ \A f \in Evt!Switches : r[f] \in {"off", "on"}
        BY FacetsFit DEF EventsInv, EventsTyped, Fits, Evt!Facets
    <1> QED BY <1>1, <1>2, <1>3 DEF EventsInv, EventsTyped, Evt!TypeOK

-----------------------------------------------------------------------------
\* Others go on as they were, but for what has crossed them.
LEMMA CrossingShape ==
    ASSUME EventsTyped, NEW fs \in SUBSET Evt!Facets, NEW t \in Slots
    PROVE  /\ call[t] = Evt!Idle => Evt!Crossing(fs)[t] = Evt!Idle
           /\ call[t] # Evt!Idle =>
                  /\ Evt!Crossing(fs)[t] \in Handler
                  /\ Evt!Crossing(fs)[t].pc = call[t].pc /\ Evt!Crossing(fs)[t].tell = call[t].tell
                  /\ Evt!Crossing(fs)[t].crossed = call[t].crossed \cup (fs \cap DOMAIN call[t].tell)
    <1>1. CASE call[t] = Evt!Idle
        BY <1>1 DEF Evt!Crossing
    <1>2. CASE call[t] # Evt!Idle
        <2>1. call[t] \in Handler /\ DOMAIN call[t].tell \subseteq Evt!Facets
            BY <1>2, HandlerShape, TellingShape
        <2>2. Evt!Crossing(fs)[t] = [call[t] EXCEPT !.crossed = call[t].crossed \cup (fs \cap DOMAIN call[t].tell)]
            BY <1>2 DEF Evt!Crossing
        <2> QED BY <1>2, <2>1, <2>2 DEF Handler
    <1> QED BY <1>1, <1>2

\* A table is written: who has an event about it on the way is crossed, if it
\* changed; and who writes is about to tell, or nobody is.
LEMMA EventsWritten ==
    ASSUME EventsInv, NEW tell \in Tellings, \A f \in DOMAIN tell : Fits(f, tell[f]),
           Evt!Count, row' = Evt!Updated(tell, row), UNCHANGED told,
           NEW s, NEW pc \in Evt!Handlers,
           \/ /\ s \in Slots /\ call[s] = Evt!Idle
              /\ doubtful' = doubtful \cup Evt!Pending(DOMAIN tell)
              /\ pc \in {"read", "reread", "enrich"} => DOMAIN tell = Evt!Columns
              /\ call' = [Evt!Crossing(Evt!Changed(tell)) EXCEPT ![s] =
                             [pc |-> pc, tell |-> tell, crossed |-> Evt!Pending(DOMAIN tell)]]
           \/ /\ s \notin Slots
              /\ doubtful' = doubtful \cup Evt!Changed(tell)
              /\ call' = Evt!Crossing(Evt!Changed(tell))
    PROVE  EventsInv'
    <1> DEFINE mine == [pc |-> pc, tell |-> tell, crossed |-> Evt!Pending(DOMAIN tell)]
    <1>d. DOMAIN tell \subseteq Evt!Facets /\ Evt!Changed(tell) \subseteq DOMAIN tell
          /\ Evt!Pending(DOMAIN tell) \subseteq DOMAIN tell
        BY TellingShape DEF Evt!Changed, Evt!Pending
    <1>1. /\ s \in Slots => call'[s] = mine
          /\ \A t \in Slots \ {s} : call'[t] = Evt!Crossing(Evt!Changed(tell))[t]
        BY DEF Evt!Crossing
    <1>2. mine \in Handler /\ mine # Evt!Idle
        BY <1>d, NotIdle DEF Handler
    <1>3. \A t \in Slots \ {s} :
              /\ call[t] = Evt!Idle <=> call'[t] = Evt!Idle
              /\ call[t] # Evt!Idle =>
                     /\ call'[t] \in Handler
                     /\ call'[t].pc = call[t].pc /\ call'[t].tell = call[t].tell
                     /\ call'[t].crossed = call[t].crossed \cup (Evt!Changed(tell) \cap DOMAIN call[t].tell)
        BY <1>1, <1>d, CrossingShape, NotIdle DEF EventsInv
    <1>4. \A f \in Evt!Facets : row'[f] = IF f \in DOMAIN tell THEN tell[f] ELSE row[f]
        BY DEF Evt!Updated
    <1>5. \A f \in Evt!Facets : f \notin Evt!Changed(tell) => row'[f] = row[f]
        BY <1>4 DEF Evt!Changed
    <1>6. \A t \in Slots \ {s}, f \in Evt!Facets : Evt!Tells(t, f)' <=> Evt!Tells(t, f)
        BY <1>3 DEF Evt!Tells
    <1>7. s \in Slots => \A f \in Evt!Facets : /\ ~Evt!Tells(s, f)
                                               /\ Evt!Tells(s, f)' <=> f \in DOMAIN tell
        BY <1>1, <1>2 DEF Evt!Tells
    <1>8. EventsTyped'
        <2>1. row' \in [Evt!Facets -> Evt!Settings] /\ \A f \in Evt!Facets : Fits(f, row'[f])
            <3>1. \A f \in Evt!Facets : Fits(f, row'[f])
                BY <1>4 DEF EventsInv, EventsTyped
            <3>2. row' = [f \in Evt!Facets |-> IF f \in DOMAIN tell THEN tell[f] ELSE row[f]]
                BY DEF Evt!Updated
            <3>3. \A f \in Evt!Facets : (IF f \in DOMAIN tell THEN tell[f] ELSE row[f]) \in Evt!Settings
                BY <1>4, <3>1, FacetsFit
            <3> QED BY <3>1, <3>2, <3>3
        <2>2. calls' \in 0..AreaCalls["events"] /\ faults' \in 0..AreaFaults["events"]
            <3>1. AreaCalls["events"] \in Nat
                BY AreasAssumption DEF Areas
            <3> QED BY <3>1 DEF Evt!Count, EventsInv, EventsTyped
        <2>3. call' \in [Slots -> Handler \cup {Evt!Idle}]
            <3>1. \A t \in Slots : call'[t] \in Handler \cup {Evt!Idle}
                BY <1>1, <1>2, <1>3
            <3>2. call' = [t \in Slots |-> call'[t]]
                BY DEF Evt!Crossing
            <3> QED BY <3>1, <3>2
        <2>4. \A t \in Slots : call'[t] # Evt!Idle =>
                  /\ call'[t].crossed \subseteq DOMAIN call'[t].tell
                  /\ \A f \in DOMAIN call'[t].tell : Fits(f, call'[t].tell[f])
            BY <1>1, <1>3, <1>d DEF EventsInv, EventsTyped
        <2>5. doubtful' \subseteq Evt!Facets
            BY <1>d DEF EventsInv, EventsTyped
        <2> QED BY <2>1, <2>2, <2>3, <2>4, <2>5 DEF EventsInv, EventsTyped
    <1>9. Rereading'
        <2>1. \A t \in Slots : Evt!Rereads(t)' \/ Evt!At(t, "enrich")' => call'[t] # Evt!Idle
            BY DEF Evt!Rereads, Evt!At, Evt!Idle
        <2> QED BY <1>1, <1>3, <2>1 DEF EventsInv, Rereading, Evt!Rereads, Evt!At
    <1>10. ASSUME NEW f \in Evt!Facets, f \notin Evt!Changed(tell), Told(f) PROVE Told(f)'
        <2>1. f \in DOMAIN tell => tell[f] = row'[f]
            BY <1>4
        <2>2. row'[f] = row[f]
            BY <1>5, <1>10
        <2>3. s \in Slots /\ f \in DOMAIN tell => call'[s].tell[f] = row'[f]
            BY <1>1, <2>1
        <2>4. \A t \in Slots \ {s} : Evt!Tells(t, f)' => call'[t].tell[f] = row'[f]
            BY <1>3, <1>6, <1>10, <2>2 DEF Told, Evt!Tells
        <2> QED BY <1>7, <2>3, <2>4 DEF Told
    <1>11. ASSUME NEW f \in DOMAIN tell, f \notin Evt!Pending(DOMAIN tell), s \in Slots PROVE Told(f)'
        <2>1. \A t \in Slots \ {s} : ~Evt!Tells(t, f)'
            BY <1>d, <1>6, <1>11 DEF Evt!Pending
        <2>2. call'[s].tell[f] = row'[f]
            BY <1>1, <1>4, <1>d, <1>11
        <2> QED BY <2>1, <2>2 DEF Told
    <1>12. Uncrossed'
        <2> SUFFICES ASSUME NEW t \in Slots, NEW f \in Evt!Facets, Evt!Tells(t, f)', f \notin call'[t].crossed
                     PROVE  Told(f)'
            BY DEF Uncrossed
        <2>1. CASE t = s
            BY <1>1, <1>7, <1>11, <2>1
        <2>2. CASE t # s
            <3>1. Evt!Tells(t, f) /\ f \notin call[t].crossed /\ f \notin Evt!Changed(tell)
                BY <1>3, <1>6, <2>2 DEF Evt!Tells
            <3>2. Told(f)
                BY <3>1 DEF EventsInv, Uncrossed
            <3> QED BY <1>10, <3>1, <3>2
        <2> QED BY <2>1, <2>2
    <1>13. Beyond'
        <2> SUFFICES ASSUME NEW f \in Evt!Facets \ doubtful'
                     PROVE  Told(f)' /\ ((\A t \in Slots : ~Evt!Tells(t, f)') => told'[f] = row'[f])
            BY DEF Beyond
        <2>0. f \notin doubtful
            OBVIOUS
        <2>1. Told(f) /\ ((\A t \in Slots : ~Evt!Tells(t, f)) => told[f] = row[f])
            BY <2>0 DEF EventsInv, Beyond
        <2>2. CASE f \notin Evt!Changed(tell)
            <3>1. Told(f)'
                BY <1>10, <2>1, <2>2
            <3>2. (\A t \in Slots : ~Evt!Tells(t, f)') => told'[f] = row'[f]
                BY <1>5, <1>6, <1>7, <2>1, <2>2
            <3> QED BY <3>1, <3>2
        <2>3. CASE f \in Evt!Changed(tell)
            <3>1. s \in Slots /\ f \notin Evt!Pending(DOMAIN tell) /\ f \in DOMAIN tell
                BY <1>d, <2>3
            <3>2. Told(f)' /\ Evt!Tells(s, f)'
                BY <1>7, <1>11, <3>1
            <3> QED BY <3>1, <3>2
        <2> QED BY <2>2, <2>3
    <1> QED BY <1>8, <1>9, <1>12, <1>13 DEF EventsInv

-----------------------------------------------------------------------------
LEMMA TellsFit ==
    /\ Evt!New \in Tellings /\ DOMAIN Evt!New = Evt!Columns
    /\ \A f \in DOMAIN Evt!New : Fits(f, Evt!New[f])
    /\ \A f \in Evt!Facets : \A v : Fits(f, v) =>
           Evt!Only(f, v) \in Tellings /\ \A g \in DOMAIN Evt!Only(f, v) : Fits(g, Evt!Only(f, v)[g])
    <1>1. Evt!New \in [Evt!Columns -> Evt!Settings] /\ \A f \in Evt!Columns : Fits(f, Evt!New[f])
        BY DEF Evt!New, Evt!Settings, Evt!Texts, Fits
    <1>2. ASSUME NEW f \in Evt!Facets, NEW v, Fits(f, v)
          PROVE  Evt!Only(f, v) \in [{f} -> Evt!Settings] /\ Evt!Only(f, v)[f] = v
        BY <1>2, FacetsFit DEF Evt!Only
    <1>3. \A f \in Evt!Facets : \A v : Fits(f, v) =>
              Evt!Only(f, v) \in Tellings /\ \A g \in DOMAIN Evt!Only(f, v) : Fits(g, Evt!Only(f, v)[g])
        <2> SUFFICES ASSUME NEW f \in Evt!Facets, NEW v, Fits(f, v)
                     PROVE  /\ Evt!Only(f, v) \in Tellings
                            /\ \A g \in DOMAIN Evt!Only(f, v) : Fits(g, Evt!Only(f, v)[g])
            OBVIOUS
        <2>1. Evt!Only(f, v) \in Tellings /\ DOMAIN Evt!Only(f, v) = {f}
            BY <1>2, TellingMade
        <2> QED BY <1>2, <2>1
    <1> QED BY <1>1, <1>3, FacetsFit, TellingMade

LEMMA GatewayWrites ==
    ASSUME EventsInv, NEW s \in Slots, NEW pc \in Evt!Handlers, NEW tell \in Tellings,
           \A f \in DOMAIN tell : Fits(f, tell[f]),
           pc \in {"read", "reread", "enrich"} => DOMAIN tell = Evt!Columns, Evt!Write(s, pc, tell)
    PROVE  EventsInv'
    BY EventsWritten DEF Evt!Write

LEMMA ControllerWrites ==
    ASSUME EventsInv, NEW tell \in Tellings, \A f \in DOMAIN tell : Fits(f, tell[f]),
           Evt!WriteSilently(tell)
    PROVE  EventsInv'
    <1> PICK s : s \notin Slots
        BY NoSetContainsEverything
    <1>1. "emit" \in Evt!Handlers
        BY DEF Evt!Handlers
    <1> QED BY <1>1, EventsWritten DEF Evt!WriteSilently

LEMMA EventsHandled ==
    ASSUME EventsInv, NEW s \in Slots, Evt!Handle(s)
    PROVE  EventsInv'
    <1>h. {"read", "reread", "enrich", "name", "emit"} \subseteq Evt!Handlers
        BY DEF Evt!Handlers
    <1>f. /\ \A r \in Reactions \cup Typists \cup {"gone", "pinned"} : r \in Evt!Facets /\ r # "text"
          /\ "text" \in Evt!Facets
        BY FacetsFit DEF Evt!Switches
    <1>1. CASE \/ Evt!HandleSendMessage(s) \/ Evt!HandleThreadReply(s)
               \/ Evt!HandleSendFileMessage(s) \/ Evt!SendFilesAsMessage(s)
        BY <1>1, <1>h, TellsFit, GatewayWrites
           DEF Evt!HandleSendMessage, Evt!HandleThreadReply, Evt!HandleSendFileMessage, Evt!SendFilesAsMessage
    <1>2. ASSUME NEW f \in Evt!Facets, NEW v, Fits(f, v), NEW pc \in {"name", "emit"},
                 Evt!Write(s, pc, Evt!Only(f, v))
          PROVE  EventsInv'
        BY <1>2, <1>h, TellsFit, GatewayWrites
    <1>3. ASSUME NEW r \in Reactions, Evt!HandleAddReaction(s, r) \/ Evt!HandleRemoveReaction(s, r)
          PROVE  EventsInv'
        BY <1>2, <1>3, <1>f DEF Fits, Evt!HandleAddReaction, Evt!HandleRemoveReaction
    <1>4. ASSUME NEW t \in {"second", "third"}, Evt!HandleEditMessage(s, t) PROVE EventsInv'
        BY <1>2, <1>4, <1>f DEF Fits, Evt!Texts, Evt!HandleEditMessage
    <1>5. CASE Evt!HandleDeleteMessage(s)
        BY <1>2, <1>5, <1>f DEF Fits, Evt!HandleDeleteMessage
    <1>6. ASSUME NEW v \in {"off", "on"}, Evt!HandlePinMessage(s, v) PROVE EventsInv'
        BY <1>2, <1>6, <1>f DEF Fits, Evt!HandlePinMessage
    <1>7. ASSUME NEW u \in Typists, Evt!HandleTypingStart(s, u) \/ Evt!HandleTypingStop(s, u)
          PROVE  EventsInv'
        BY <1>2, <1>7, <1>f DEF Fits, Evt!HandleTypingStart, Evt!HandleTypingStop
    <1> QED BY <1>1, <1>3, <1>4, <1>5, <1>6, <1>7 DEF Evt!Handle

LEMMA EventsPosted ==
    ASSUME EventsInv, Evt!Post \/ \E u \in Typists : Evt!HandleDisconnect(u)
    PROVE  EventsInv'
    <1>f. /\ \A r \in Reactions \cup Typists \cup {"gone", "pinned"} : r \in Evt!Facets /\ r # "text"
          /\ "text" \in Evt!Facets
        BY FacetsFit DEF Evt!Switches
    <1>1. CASE Evt!SendMessage
        BY <1>1, TellsFit, ControllerWrites DEF Evt!SendMessage
    <1>2. ASSUME NEW f \in Evt!Facets, NEW v, Fits(f, v), Evt!WriteSilently(Evt!Only(f, v))
          PROVE  EventsInv'
        BY <1>2, TellsFit, ControllerWrites
    <1>3. CASE Evt!DeleteMessage
        BY <1>2, <1>3, <1>f DEF Fits, Evt!DeleteMessage
    <1>4. ASSUME NEW r \in Reactions, Evt!AddReaction(r) \/ Evt!RemoveReaction(r) PROVE EventsInv'
        BY <1>2, <1>4, <1>f DEF Fits, Evt!AddReaction, Evt!RemoveReaction
    <1>5. ASSUME NEW t \in {"second", "third"}, Evt!EditMessage(t) PROVE EventsInv'
        BY <1>2, <1>5, <1>f DEF Fits, Evt!Texts, Evt!EditMessage
    <1>6. ASSUME NEW v \in {"off", "on"}, Evt!PinMessage(v) PROVE EventsInv'
        BY <1>2, <1>6, <1>f DEF Fits, Evt!PinMessage
    <1>7. ASSUME NEW u \in Typists, Evt!HandleDisconnect(u) PROVE EventsInv'
        BY <1>2, <1>7, <1>f DEF Fits, Evt!HandleDisconnect
    <1> QED BY <1>1, <1>3, <1>4, <1>5, <1>6, <1>7 DEF Evt!Post

-----------------------------------------------------------------------------
\* One handler goes on, and the tables stay.
LEMMA OneGoesOn ==
    ASSUME EventsTyped, NEW s \in Slots, NEW h \in Handler \cup {Evt!Idle},
           call' = [call EXCEPT ![s] = h],
           h # Evt!Idle => /\ h.crossed \subseteq DOMAIN h.tell
                           /\ \A f \in DOMAIN h.tell : Fits(f, h.tell[f])
    PROVE  /\ call'[s] = h /\ \A t \in Slots \ {s} : call'[t] = call[t]
           /\ call' \in [Slots -> Handler \cup {Evt!Idle}]
           /\ \A t \in Slots : call'[t] # Evt!Idle =>
                  /\ call'[t].crossed \subseteq DOMAIN call'[t].tell
                  /\ \A f \in DOMAIN call'[t].tell : Fits(f, call'[t].tell[f])
    <1>1. call'[s] = h /\ \A t \in Slots \ {s} : call'[t] = call[t]
        BY DEF EventsTyped
    <1>2. call' \in [Slots -> Handler \cup {Evt!Idle}]
        BY DEF EventsTyped
    <1> QED BY <1>1, <1>2 DEF EventsTyped

\* A handler reads the message again: it tells what is so, and of the same.
LEMMA EventsReread ==
    ASSUME EventsInv, NEW s \in Slots, Evt!GetMessage(s) \/ Evt!Enrich(s)
    PROVE  EventsInv'
    <1> PICK now : now = [f \in Evt!Columns |-> row[f]]
        OBVIOUS
    <1> PICK others : others = {f \in Evt!Columns : \E t \in Slots \ {s} : Evt!Tells(t, f)}
        OBVIOUS
    <1> PICK pc : pc = IF Evt!Rereads(s) THEN Evt!Then(s) ELSE "emit"
        OBVIOUS
    <1> PICK h : h = [pc |-> pc, tell |-> now, crossed |-> others]
        OBVIOUS
    <1>p. pc \in {"twice", "emit"}
        BY DEF Evt!Then
    <1>1. /\ call' = [call EXCEPT ![s] = h]
          /\ UNCHANGED <<row, told, doubtful, calls, faults>>
        <2>1. CASE Evt!GetMessage(s)
            BY <2>1 DEF Evt!GetMessage, Evt!Reread, Evt!facets
        <2>2. CASE Evt!Enrich(s)
            BY <2>2 DEF Evt!Enrich, Evt!Reread, Evt!Rereads, Evt!At, Evt!facets
        <2> QED BY <2>1, <2>2
    <1>2. call[s] # Evt!Idle /\ DOMAIN call[s].tell = Evt!Columns
        BY DEF EventsInv, Rereading, Evt!GetMessage, Evt!Enrich, Evt!Rereads, Evt!At, Evt!Idle
    <1>3. now \in Tellings /\ DOMAIN now = Evt!Columns /\ \A f \in Evt!Columns : Fits(f, now[f])
        <2>1. \A f \in Evt!Columns : Fits(f, row[f]) /\ row[f] \in Evt!Settings
            BY FacetsFit DEF EventsInv, EventsTyped
        <2>2. now \in [Evt!Columns -> Evt!Settings]
            BY <2>1
        <2> QED BY <2>1, <2>2, TellingMade, FacetsFit
    <1>4. h \in Handler /\ h # Evt!Idle /\ h.tell = now /\ h.crossed = others /\ h.pc = pc
          /\ others \subseteq Evt!Columns
        BY <1>3, <1>p, NotIdle, FacetsFit DEF Handler, Evt!Handlers
    <1>5. /\ call'[s] = h /\ \A t \in Slots \ {s} : call'[t] = call[t]
          /\ call' \in [Slots -> Handler \cup {Evt!Idle}]
          /\ \A t \in Slots : call'[t] # Evt!Idle =>
                 /\ call'[t].crossed \subseteq DOMAIN call'[t].tell
                 /\ \A f \in DOMAIN call'[t].tell : Fits(f, call'[t].tell[f])
        BY <1>1, <1>3, <1>4, OneGoesOn DEF EventsInv
    <1>6. EventsTyped'
        BY <1>1, <1>5 DEF EventsInv, EventsTyped
    <1>7. Rereading'
        BY <1>4, <1>5, <1>p DEF EventsInv, Rereading, Evt!Rereads, Evt!At
    <1>8. \A t \in Slots : \A f : Evt!Tells(t, f)' <=> Evt!Tells(t, f)
        BY <1>2, <1>3, <1>4, <1>5 DEF Evt!Tells
    <1>9. \A f \in Evt!Columns : call'[s].tell[f] = row'[f]
        BY <1>1, <1>4, <1>5
    <1>10. ASSUME NEW f, Told(f) PROVE Told(f)'
        BY <1>1, <1>2, <1>5, <1>8, <1>9, <1>10 DEF Told, Evt!Tells
    <1>11. Uncrossed'
        <2> SUFFICES ASSUME NEW t \in Slots, NEW f \in Evt!Facets, Evt!Tells(t, f)', f \notin call'[t].crossed
                     PROVE  Told(f)'
            BY DEF Uncrossed
        <2>1. CASE t = s
            <3>1. f \in Evt!Columns /\ f \notin others
                BY <1>2, <1>4, <1>5, <1>8, <2>1 DEF Evt!Tells
            <3>2. \A u \in Slots \ {s} : ~Evt!Tells(u, f)'
                BY <1>8, <3>1
            <3> QED BY <1>9, <3>1, <3>2 DEF Told
        <2>2. CASE t # s
            BY <1>5, <1>8, <1>10, <2>2 DEF EventsInv, Uncrossed
        <2> QED BY <2>1, <2>2
    <1>12. Beyond'
        BY <1>1, <1>8, <1>10 DEF EventsInv, Beyond
    <1> QED BY <1>6, <1>7, <1>11, <1>12 DEF EventsInv

\* A handler goes on to its last event, once the name is looked up or the first
\* of two events is out or is not.
LEMMA EventsGoOn ==
    ASSUME EventsInv, NEW s \in Slots, call[s] # Evt!Idle,
           call' = [call EXCEPT ![s].pc = "emit"], row' = row,
           calls' = calls, faults' \in 0..AreaFaults["events"],
           \/ told' = told /\ doubtful' = doubtful
           \/ /\ told' = Evt!Updated(call[s].tell, told)
              /\ doubtful' = doubtful \ (DOMAIN call[s].tell \ call[s].crossed)
    PROVE  EventsInv'
    <1> PICK h : h = [call[s] EXCEPT !.pc = "emit"]
        OBVIOUS
    <1> PICK tell : tell = call[s].tell
        OBVIOUS
    <1>0. /\ DOMAIN tell \subseteq Evt!Facets /\ \A f \in DOMAIN tell : Fits(f, tell[f])
          /\ \A f \in Evt!Facets : f \in DOMAIN tell <=> Evt!Tells(s, f)
        BY HandlerShape, TellingShape DEF EventsInv, EventsTyped, Evt!Tells
    <1>1. call' = [call EXCEPT ![s] = h]
        BY DEF EventsInv, EventsTyped
    <1>2. /\ h \in Handler /\ h # Evt!Idle /\ h.pc = "emit"
          /\ h.tell = call[s].tell /\ h.crossed = call[s].crossed
        BY HandlerShape, NotIdle DEF EventsInv, Handler, Evt!Handlers
    <1>3. /\ call'[s] = h /\ \A t \in Slots \ {s} : call'[t] = call[t]
          /\ call' \in [Slots -> Handler \cup {Evt!Idle}]
          /\ \A t \in Slots : call'[t] # Evt!Idle =>
                 /\ call'[t].crossed \subseteq DOMAIN call'[t].tell
                 /\ \A f \in DOMAIN call'[t].tell : Fits(f, call'[t].tell[f])
        <2>1. call[s].crossed \subseteq DOMAIN call[s].tell /\ \A f \in DOMAIN call[s].tell : Fits(f, call[s].tell[f])
            BY DEF EventsInv, EventsTyped
        <2> QED BY <1>1, <1>2, <2>1, OneGoesOn DEF EventsInv
    <1>4. EventsTyped'
        <2>1. CASE told' = told /\ doubtful' = doubtful
            BY <1>3, <2>1 DEF EventsInv, EventsTyped
        <2>2. CASE /\ told' = Evt!Updated(tell, told)
                   /\ doubtful' = doubtful \ (DOMAIN tell \ call[s].crossed)
            <3>1. told' = [f \in Evt!Facets |-> IF f \in DOMAIN tell THEN tell[f] ELSE told[f]]
                BY <2>2 DEF Evt!Updated
            <3>2. \A f \in Evt!Facets : Fits(f, IF f \in DOMAIN tell THEN tell[f] ELSE told[f])
                BY <1>0 DEF EventsInv, EventsTyped
            <3>3. told' \in [Evt!Facets -> Evt!Settings] /\ \A f \in Evt!Facets : Fits(f, told'[f])
                BY <3>1, <3>2, FacetsFit
            <3> QED BY <1>3, <2>2, <3>3 DEF EventsInv, EventsTyped
        <2> QED BY <2>1, <2>2
    <1>5. Rereading'
        BY <1>2, <1>3 DEF EventsInv, Rereading, Evt!Rereads, Evt!At
    <1>6. /\ \A t \in Slots : \A f : Evt!Tells(t, f)' <=> Evt!Tells(t, f)
          /\ \A t \in Slots : call[t] # Evt!Idle =>
                 call'[t].tell = call[t].tell /\ call'[t].crossed = call[t].crossed
        BY <1>2, <1>3 DEF Evt!Tells
    <1>7. \A f : Told(f)' <=> Told(f)
        BY <1>6 DEF Told, Evt!Tells
    <1>8. Uncrossed'
        BY <1>6, <1>7 DEF EventsInv, Uncrossed, Evt!Tells
    <1>9. Beyond'
        <2> SUFFICES ASSUME NEW f \in Evt!Facets \ doubtful'
                     PROVE  Told(f) /\ ((\A t \in Slots : ~Evt!Tells(t, f)) => told'[f] = row[f])
            BY <1>6, <1>7 DEF Beyond
        <2>1. CASE f \notin doubtful
            <3>1. Told(f) /\ ((\A t \in Slots : ~Evt!Tells(t, f)) => told[f] = row[f])
                BY <2>1 DEF EventsInv, Beyond
            <3>2. ~Evt!Tells(s, f) => told'[f] = told[f]
                BY <1>0 DEF Evt!Updated
            <3> QED BY <3>1, <3>2
        <2>2. CASE f \in doubtful
            <3>1. Evt!Tells(s, f) /\ f \notin call[s].crossed
                BY <1>0, <2>2
            <3>2. Told(f)
                BY <3>1 DEF EventsInv, Uncrossed
            <3> QED BY <3>1, <3>2
        <2> QED BY <2>1, <2>2
    <1> QED BY <1>4, <1>5, <1>8, <1>9 DEF EventsInv

\* A handler ends: it has told, or what it was about to tell is in doubt.
LEMMA EventsEnd ==
    ASSUME EventsInv, NEW s \in Slots, call[s] # Evt!Idle, Evt!Done(s), row' = row,
           calls' = calls, faults' \in 0..AreaFaults["events"],
           \/ /\ told' = Evt!Updated(call[s].tell, told)
              /\ doubtful' = doubtful \ (DOMAIN call[s].tell \ call[s].crossed)
           \/ /\ told' = told
              /\ doubtful' = doubtful \cup DOMAIN call[s].tell
    PROVE  EventsInv'
    <1> PICK tell : tell = call[s].tell
        OBVIOUS
    <1>0. /\ tell \in Tellings /\ DOMAIN tell \subseteq Evt!Facets /\ \A f \in DOMAIN tell : Fits(f, tell[f])
          /\ \A f \in Evt!Facets : f \in DOMAIN tell <=> Evt!Tells(s, f)
        BY HandlerShape, TellingShape DEF EventsInv, EventsTyped, Evt!Tells
    <1>1. /\ call'[s] = Evt!Idle /\ \A t \in Slots \ {s} : call'[t] = call[t]
          /\ call' \in [Slots -> Handler \cup {Evt!Idle}]
          /\ \A t \in Slots : call'[t] # Evt!Idle =>
                 /\ call'[t].crossed \subseteq DOMAIN call'[t].tell
                 /\ \A f \in DOMAIN call'[t].tell : Fits(f, call'[t].tell[f])
        BY OneGoesOn DEF EventsInv, Evt!Done
    <1>2. told' \in [Evt!Facets -> Evt!Settings] /\ \A f \in Evt!Facets : Fits(f, told'[f])
        <2>1. CASE told' = told
            BY <2>1 DEF EventsInv, EventsTyped
        <2>2. CASE told' = Evt!Updated(tell, told)
            <3>1. told' = [f \in Evt!Facets |-> IF f \in DOMAIN tell THEN tell[f] ELSE told[f]]
                BY <2>2 DEF Evt!Updated
            <3>2. \A f \in Evt!Facets : Fits(f, IF f \in DOMAIN tell THEN tell[f] ELSE told[f])
                BY <1>0 DEF EventsInv, EventsTyped
            <3> QED BY <3>1, <3>2, FacetsFit
        <2> QED BY <2>1, <2>2
    <1>3. EventsTyped'
        <2>1. doubtful' \subseteq Evt!Facets
            BY <1>0 DEF EventsInv, EventsTyped
        <2> QED BY <1>1, <1>2, <2>1 DEF EventsInv, EventsTyped
    <1>4. Rereading'
        <2>1. ~Evt!Rereads(s)' /\ ~Evt!At(s, "enrich")'
            BY <1>1 DEF Evt!Rereads, Evt!At, Evt!Idle
        <2> QED BY <1>1, <2>1 DEF EventsInv, Rereading, Evt!Rereads, Evt!At
    <1>5. /\ \A f : ~Evt!Tells(s, f)'
          /\ \A t \in Slots \ {s} : \A f : Evt!Tells(t, f)' <=> Evt!Tells(t, f)
        BY <1>1 DEF Evt!Tells
    <1>6. ASSUME NEW f, Told(f) PROVE Told(f)'
        BY <1>1, <1>5, <1>6 DEF Told, Evt!Tells
    <1>7. Uncrossed'
        BY <1>1, <1>5, <1>6 DEF EventsInv, Uncrossed
    <1>8. Beyond'
        <2> SUFFICES ASSUME NEW f \in Evt!Facets \ doubtful'
                     PROVE  Told(f)' /\ ((\A t \in Slots : ~Evt!Tells(t, f)') => told'[f] = row'[f])
            BY DEF Beyond
        <2>1. CASE f \notin DOMAIN tell
            <3>1. told'[f] = told[f] /\ f \notin doubtful
                BY <2>1 DEF Evt!Updated
            <3>2. Told(f) /\ ((\A t \in Slots : ~Evt!Tells(t, f)) => told[f] = row[f])
                BY <3>1 DEF EventsInv, Beyond
            <3>3. (\A t \in Slots : ~Evt!Tells(t, f)') => \A t \in Slots : ~Evt!Tells(t, f)
                BY <1>0, <1>5, <2>1
            <3> QED BY <1>6, <3>1, <3>2, <3>3
        <2>2. CASE f \in DOMAIN tell
            <3>1. /\ told' = Evt!Updated(tell, told)
                  /\ doubtful' = doubtful \ (DOMAIN tell \ call[s].crossed)
                BY <2>2
            <3>2. Told(f)
                <4>1. CASE f \in call[s].crossed
                    <5>1. f \notin doubtful
                        BY <3>1, <4>1
                    <5> QED BY <5>1 DEF EventsInv, Beyond
                <4>2. CASE f \notin call[s].crossed
                    BY <1>0, <2>2, <4>2 DEF EventsInv, Uncrossed
                <4> QED BY <4>1, <4>2
            <3>3. told'[f] = tell[f] /\ tell[f] = row[f]
                <4>1. told'[f] = tell[f]
                    BY <2>2, <3>1 DEF Evt!Updated
                <4> QED BY <1>0, <2>2, <3>2, <4>1 DEF Told
            <3> QED BY <1>6, <3>2, <3>3
        <2> QED BY <2>1, <2>2
    <1> QED BY <1>3, <1>4, <1>7, <1>8 DEF EventsInv

LEMMA EventsStep == EventsInv /\ [Evt!Next]_(Evt!vars) => EventsInv'
    <1> SUFFICES ASSUME EventsInv, [Evt!Next]_(Evt!vars) PROVE EventsInv'
        OBVIOUS
    <1>n. /\ AreaFaults["events"] \in Nat /\ calls \in 0..AreaCalls["events"]
          /\ faults \in 0..AreaFaults["events"]
        BY AreasAssumption DEF Areas, EventsInv, EventsTyped
    <1>1. CASE Evt!Post \/ \E u \in Typists : Evt!HandleDisconnect(u)
        BY <1>1, EventsPosted
    <1>2. ASSUME NEW s \in Slots, Evt!Handle(s) PROVE EventsInv'
        BY <1>2, EventsHandled
    <1>3. ASSUME NEW s \in Slots, Evt!GetMessage(s) \/ Evt!Enrich(s) PROVE EventsInv'
        BY <1>3, EventsReread
    <1>4. ASSUME NEW s \in Slots,
                 Evt!GetUserDisplayName(s) \/ Evt!BroadcastFirst(s) \/ Evt!BroadcastFirstFails(s)
          PROVE  EventsInv'
        <2>1. call[s] # Evt!Idle
            BY <1>4 DEF Evt!GetUserDisplayName, Evt!BroadcastFirst, Evt!BroadcastFirstFails, Evt!At, Evt!Idle
        <2>2. faults' \in 0..AreaFaults["events"]
            BY <1>n, <1>4 DEF Evt!GetUserDisplayName, Evt!BroadcastFirst, Evt!BroadcastFirstFails
        <2>3. CASE Evt!GetUserDisplayName(s)
            BY <2>1, <2>2, <2>3, EventsGoOn DEF Evt!GetUserDisplayName, Evt!facets
        <2>4. CASE Evt!BroadcastFirst(s)
            BY <2>1, <2>2, <2>4, EventsGoOn DEF Evt!BroadcastFirst
        <2>5. CASE Evt!BroadcastFirstFails(s)
            BY <2>1, <2>2, <2>5, EventsGoOn DEF Evt!BroadcastFirstFails, Evt!facets
        <2> QED BY <1>4, <2>3, <2>4, <2>5
    <1>5. ASSUME NEW s \in Slots, Evt!GetMessageGone(s) PROVE EventsInv'
        <2>1. call[s] # Evt!Idle
            BY <1>5 DEF Evt!GetMessageGone, Evt!Rereads, Evt!At, Evt!Idle
        <2> QED BY <1>n, <1>5, <2>1, EventsEnd DEF Evt!GetMessageGone
    <1>6. ASSUME NEW s \in Slots, Evt!Broadcast(s) PROVE EventsInv'
        <2>1. call[s] # Evt!Idle
            BY <1>6 DEF Evt!Broadcast, Evt!At, Evt!Idle
        <2> QED BY <1>n, <1>6, <2>1, EventsEnd DEF Evt!Broadcast
    <1>7. ASSUME NEW s \in Slots, Evt!HandlerFails(s) PROVE EventsInv'
        <2>1. faults' \in 0..AreaFaults["events"]
            BY <1>n, <1>7 DEF Evt!HandlerFails
        <2> QED BY <1>7, <2>1, EventsEnd DEF Evt!HandlerFails
    <1>8. CASE UNCHANGED Evt!vars
        <2>1. UNCHANGED <<row, told, doubtful, call, calls, faults>>
            BY <1>8 DEF Evt!vars, Evt!facets
        <2>2. EventsTyped'
            BY <2>1 DEF EventsInv, EventsTyped
        <2>3. Rereading'
            BY <2>1 DEF EventsInv, Rereading, Evt!Rereads, Evt!At
        <2>4. Uncrossed' /\ Beyond'
            BY <2>1 DEF EventsInv, Uncrossed, Beyond, Told, Evt!Tells
        <2> QED BY <2>2, <2>3, <2>4 DEF EventsInv
    <1> QED BY <1>1, <1>2, <1>3, <1>4, <1>5, <1>6, <1>7, <1>8 DEF Evt!Next

-----------------------------------------------------------------------------
(* The stored files and the rows that name them.                           *)

\* The rows that the request in s still has to write.
Writing(s) == IF Fil!At(s, "file.upload") THEN call[s].keys ELSE {}
PlainHasNoRow == \A s \in Slots : Fil!At(s, "file.upload") /\ call[s].kind = "plain" => call[s].keys = {}

\* Between its copy and its deletion a move whose keys nobody else has written
\* has the file under both.
BothHeld ==
    \A s \in Slots \ disturbed : Fil!At(s, "move.delete") =>
        call[s].from # call[s].to /\ store[call[s].from] = store[call[s].to]

FilesInv ==
    /\ Fil!TypeOK /\ PlainHasNoRow /\ BothHeld
    /\ Fil!MovesLoseNothing /\ Fil!FilesRecorded /\ Fil!DeletedIsGone

LEMMA FileRequestShape ==
    ASSUME Fil!TypeOK, NEW s \in Slots
    PROVE  /\ \/ call[s] = Fil!Idle /\ call[s].pc = "idle"
              \/ call[s] # Fil!Idle /\ call[s].pc \in {"file.upload", "folder.delete", "move.delete"}
           /\ Fil!At(s, "file.upload") =>
                  /\ call[s].kind \in {"plain", "message", "chat"}
                  /\ call[s].left \subseteq Files /\ call[s].keys \subseteq Keys
           /\ Fil!At(s, "folder.delete") => call[s].found \subseteq Keys /\ call[s].listed \subseteq Keys
           /\ Fil!At(s, "move.delete") => call[s].from \in Keys /\ call[s].to \in Keys
    <1>1. CASE call[s] = Fil!Idle
        BY <1>1 DEF Fil!Idle, Fil!At
    <1>2. CASE call[s] \in Fil!Request
        BY <1>2 DEF Fil!Request, Fil!Idle, Fil!At
    <1> QED BY <1>1, <1>2 DEF Fil!TypeOK

LEMMA UploadingShape ==
    ASSUME NEW kind \in {"plain", "message", "chat"}, NEW left \in SUBSET Files, NEW keys \in SUBSET Keys,
           kind = "plain" => keys = {},
           NEW c, c = Fil!Uploading(kind, left, keys)
    PROVE  /\ c \in Fil!Request \cup {Fil!Idle}
           /\ c.pc # "move.delete"
           /\ c.pc = "file.upload" => c.keys = keys /\ c.kind = kind
           /\ c.pc # "file.upload" => keys = {}
    <1>1. CASE left = {} /\ keys = {}
        BY <1>1 DEF Fil!Uploading, Fil!Idle
    <1>2. CASE ~(left = {} /\ keys = {})
        BY <1>2 DEF Fil!Uploading, Fil!Request
    <1> QED BY <1>1, <1>2

LEMMA HeldFiles ==
    /\ \A f, keys : f \in Fil!FilesAt(keys) <=> \E k \in keys \cap Keys : store[k] = f /\ f # None
    /\ \A k : k \in Fil!Unwritten(Slots) <=> \E s \in Slots : k \in Writing(s)
    <1>1. \A f, keys : f \in Fil!FilesAt(keys) <=> \E k \in keys \cap Keys : store[k] = f /\ f # None
        BY DEF Fil!FilesAt, Fil!Present
    <1>2. \A k : k \in Fil!Unwritten(Slots) <=> \E s \in Slots : k \in Writing(s)
        BY DEF Fil!Unwritten, Writing
    <1> QED BY <1>1, <1>2

LEMMA HeldFilesNext ==
    /\ \A f, keys : f \in Fil!FilesAt(keys)' <=> \E k \in keys \cap Keys : store'[k] = f /\ f # None
    /\ \A k : k \in Fil!Unwritten(Slots)' <=> \E s \in Slots : k \in Writing(s)'
    <1>1. \A f, keys : f \in Fil!FilesAt(keys)' <=> \E k \in keys \cap Keys : store'[k] = f /\ f # None
        BY DEF Fil!FilesAt, Fil!Present
    <1>2. \A k : k \in Fil!Unwritten(Slots)' <=> \E s \in Slots : k \in Writing(s)'
        BY DEF Fil!Unwritten, Writing
    <1> QED BY <1>1, <1>2

LEMMA FilesStart == Fil!Init => FilesInv
    <1> SUFFICES ASSUME Fil!Init PROVE FilesInv
        OBVIOUS
    <1>1. \A s \in Slots : call[s].pc = "idle"
        BY DEF Fil!Init, Fil!Idle
    <1>2. PlainHasNoRow /\ BothHeld
        BY <1>1 DEF PlainHasNoRow, BothHeld, Fil!At
    <1>3. Fil!TypeOK
        BY AreasAssumption DEF Areas, Fil!Init, Fil!TypeOK
    <1> QED BY <1>2, <1>3 DEF FilesInv, Fil!Init, Fil!MovesLoseNothing, Fil!FilesRecorded, Fil!DeletedIsGone

-----------------------------------------------------------------------------
\* One request goes on, and the others stay where they are.
LEMMA FileCallMoves ==
    ASSUME Fil!TypeOK, NEW s \in Slots, NEW c \in Fil!Request \cup {Fil!Idle},
           call' = [call EXCEPT ![s] = c]
    PROVE  /\ call' \in [Slots -> Fil!Request \cup {Fil!Idle}]
           /\ call'[s] = c /\ \A t \in Slots \ {s} : call'[t] = call[t]
    BY DEF Fil!TypeOK

\* A row that is not yet written is written, or failed, or stays to be written.
LEMMA RecordsKept ==
    ASSUME Fil!FilesRecorded, NEW s \in Slots, NEW new,
           \A t \in Slots \ {s} : call'[t] = call[t],
           toRow' \subseteq toRow \cup new, rows \subseteq rows', orphans \subseteq orphans',
           \A k \in Writing(s) \cup new : k \in rows' \cup orphans' \/ k \in Writing(s)'
    PROVE  Fil!FilesRecorded'
    <1> SUFFICES ASSUME NEW k \in toRow' PROVE k \in rows' \cup orphans' \cup Fil!Unwritten(Slots)'
        BY DEF Fil!FilesRecorded
    <1>1. CASE k \in Writing(s) \cup new
        BY <1>1, HeldFilesNext
    <1>2. CASE k \notin Writing(s) \cup new
        <2>1. k \in rows \cup orphans \/ \E t \in Slots : k \in Writing(t)
            BY <1>2, HeldFiles DEF Fil!FilesRecorded
        <2>2. ASSUME NEW t \in Slots, k \in Writing(t) PROVE k \in Fil!Unwritten(Slots)'
            <3>1. call'[t] = call[t]
                BY <1>2, <2>2
            <3> QED BY <2>2, <3>1, HeldFilesNext DEF Writing, Fil!At
        <2> QED BY <2>1, <2>2
    <1> QED BY <1>1, <1>2

\* A write puts the moves of the others whose keys it touches in doubt.
LEMMA MovesKept ==
    ASSUME BothHeld, Fil!TypeOK, NEW s \in Slots, NEW keys,
           \A t \in Slots \ {s} : call'[t] = call[t],
           Fil!Writes(s, keys), \A k \in Keys \ keys : store'[k] = store[k],
           Fil!At(s, "move.delete")' =>
               call'[s].from # call'[s].to /\ store'[call'[s].from] = store'[call'[s].to]
    PROVE  BothHeld' /\ disturbed' \subseteq Slots
    <1>1. disturbed' \subseteq Slots
        BY DEF Fil!Writes, Fil!TypeOK
    <1>2. ASSUME NEW t \in Slots \ disturbed', Fil!At(t, "move.delete")', t # s
          PROVE  call'[t].from # call'[t].to /\ store'[call'[t].from] = store'[call'[t].to]
        <2>1. call'[t] = call[t] /\ Fil!At(t, "move.delete")
            BY <1>2 DEF Fil!At
        <2>2. t \notin disturbed /\ call[t].from \notin keys /\ call[t].to \notin keys
            BY <1>2, <2>1 DEF Fil!Writes
        <2>3. call[t].from \in Keys /\ call[t].to \in Keys
            BY <2>1, FileRequestShape
        <2> QED BY <1>2, <2>1, <2>2, <2>3 DEF BothHeld
    <1> QED BY <1>1, <1>2 DEF BothHeld

\* Nothing is written: what one request does then puts no move in doubt.
LEMMA MovesUntouched ==
    ASSUME BothHeld, NEW s \in Slots, \A t \in Slots \ {s} : call'[t] = call[t],
           store' = store, ~Fil!At(s, "move.delete")', disturbed \ {s} \subseteq disturbed'
    PROVE  BothHeld'
    BY DEF BothHeld, Fil!At

LEMMA PlainKept ==
    ASSUME PlainHasNoRow, NEW s \in Slots, \A t \in Slots \ {s} : call'[t] = call[t],
           Fil!At(s, "file.upload")' /\ call'[s].kind = "plain" => call'[s].keys = {}
    PROVE  PlainHasNoRow'
    BY DEF PlainHasNoRow, Fil!At

\* What is deleted or overwritten is remembered, the rest stays where it was.
LEMMA FilesKept ==
    ASSUME Fil!MovesLoseNothing, NEW keys, uploaded' = uploaded, removed \subseteq removed',
           \A k \in Keys \ keys : store'[k] = store[k],
           \A k \in keys \cap Keys : store[k] # None => store[k] \in removed' \/ store[k] \in Fil!FilesAt(Keys)'
    PROVE  Fil!MovesLoseNothing'
    <1> SUFFICES ASSUME NEW f \in uploaded PROVE f \in Fil!FilesAt(Keys)' \/ f \in removed'
        BY DEF Fil!MovesLoseNothing
    <1>1. CASE f \in removed
        BY <1>1
    <1>2. CASE f \notin removed
        <2> PICK k \in Keys : store[k] = f /\ f # None
            BY <1>2, HeldFiles DEF Fil!MovesLoseNothing
        <2>1. CASE k \in keys
            BY <2>1
        <2>2. CASE k \notin keys
            <3>1. store'[k] = f
                BY <2>2
            <3> QED BY <3>1, HeldFilesNext
        <2> QED BY <2>1, <2>2
    <1> QED BY <1>1, <1>2

LEMMA FileCounts ==
    /\ AreaCalls["files"] \in Nat /\ AreaFaults["files"] \in Nat
    /\ Fil!TypeOK =>
           /\ Fil!Counters' = Fil!Counters => calls' \in 0..AreaCalls["files"] /\ faults' \in 0..AreaFaults["files"]
           /\ Fil!Fault => calls' \in 0..AreaCalls["files"] /\ faults' \in 0..AreaFaults["files"]
           /\ calls < AreaCalls["files"] /\ calls' = calls + 1 => calls' \in 0..AreaCalls["files"]
           /\ faults < AreaFaults["files"] /\ faults' = faults + 1 => faults' \in 0..AreaFaults["files"]
           /\ faults' = faults => faults' \in 0..AreaFaults["files"]
    <1>1. AreaCalls["files"] \in Nat /\ AreaFaults["files"] \in Nat
        BY AreasAssumption DEF Areas
    <1> QED BY <1>1 DEF Fil!TypeOK, Fil!Counters, Fil!Fault

-----------------------------------------------------------------------------
(* What the requests do.                                                   *)

LEMMA FilesUploaded ==
    ASSUME FilesInv, NEW s \in Slots, NEW kind \in {"plain", "message", "chat"},
           NEW chosen \in SUBSET Files, Fil!UploadFiles(s, kind, chosen)
    PROVE  FilesInv'
    <1> PICK c : c = Fil!Uploading(kind, chosen, {})
        OBVIOUS
    <1>1. /\ c \in Fil!Request \cup {Fil!Idle} /\ c.pc # "move.delete"
          /\ c.pc = "file.upload" => c.keys = {}
        BY UploadingShape
    <1>2. /\ call[s] = Fil!Idle /\ call' = [call EXCEPT ![s] = c]
          /\ calls < AreaCalls["files"] /\ calls' = calls + 1 /\ faults' = faults
          /\ UNCHANGED <<store, rows, uploaded, toRow, orphans, removed, claimed, slipped, disturbed>>
        BY DEF Fil!UploadFiles, Fil!Begin, Fil!storage, Fil!records
    <1>3. /\ call' \in [Slots -> Fil!Request \cup {Fil!Idle}]
          /\ call'[s] = c /\ \A t \in Slots \ {s} : call'[t] = call[t]
        BY <1>1, <1>2, FileCallMoves DEF FilesInv
    <1>4. Fil!TypeOK'
        BY <1>2, <1>3, FileCounts DEF FilesInv, Fil!TypeOK
    <1>5. PlainHasNoRow'
        BY <1>1, <1>3, PlainKept DEF FilesInv, Fil!At
    <1>6. BothHeld'
        BY <1>1, <1>2, <1>3, MovesUntouched DEF FilesInv, Fil!At
    <1>7. Fil!FilesRecorded'
        <2>1. Writing(s) = {}
            BY <1>2 DEF Writing, Fil!At, Fil!Idle
        <2> QED BY <1>2, <1>3, <2>1, RecordsKept DEF FilesInv
    <1>8. Fil!MovesLoseNothing' /\ Fil!DeletedIsGone'
        BY <1>2 DEF FilesInv, Fil!MovesLoseNothing, Fil!DeletedIsGone, Fil!FilesAt, Fil!Present
    <1> QED BY <1>4, <1>5, <1>6, <1>7, <1>8 DEF FilesInv

LEMMA ObjectPut ==
    ASSUME FilesInv, NEW s \in Slots, NEW f \in Files, NEW k \in Keys, Fil!PutObject(s, f, k)
    PROVE  FilesInv'
    <1> PICK keys : keys = IF call[s].kind = "plain" THEN {} ELSE call[s].keys \cup {k}
        OBVIOUS
    <1> PICK c : c = Fil!Uploading(call[s].kind, call[s].left \ {f}, keys)
        OBVIOUS
    <1>0. /\ Fil!At(s, "file.upload") /\ call[s].kind \in {"plain", "message", "chat"}
          /\ call[s].left \subseteq Files /\ call[s].keys \subseteq Keys
        BY FileRequestShape DEF FilesInv, Fil!PutObject, Fil!MayPut
    <1>1. /\ c \in Fil!Request \cup {Fil!Idle} /\ c.pc # "move.delete"
          /\ c.pc = "file.upload" => c.keys = keys /\ c.kind = call[s].kind
          /\ c.pc # "file.upload" => keys = {}
        BY <1>0, UploadingShape
    <1>2. /\ call' = [call EXCEPT ![s] = c]
          /\ store[k] = None /\ store' = [store EXCEPT ![k] = f] /\ uploaded' = uploaded \cup {f}
          /\ claimed' = claimed \ {k} /\ Fil!Writes(s, {k})
          /\ toRow' = IF call[s].kind = "plain" THEN toRow ELSE toRow \cup {k}
          /\ UNCHANGED <<rows, orphans, removed, slipped, calls, faults>>
        BY DEF Fil!PutObject, Fil!Counters
    <1>3. /\ call' \in [Slots -> Fil!Request \cup {Fil!Idle}]
          /\ call'[s] = c /\ \A t \in Slots \ {s} : call'[t] = call[t]
        BY <1>1, <1>2, FileCallMoves DEF FilesInv
    <1>4. /\ store'[k] = f /\ \A x \in Keys \ {k} : store'[x] = store[x]
          /\ store' \in [Keys -> Files \cup {None}]
        BY <1>2 DEF FilesInv, Fil!TypeOK
    <1>5. BothHeld' /\ disturbed' \subseteq Slots
        BY <1>1, <1>2, <1>3, <1>4, MovesKept DEF FilesInv, Fil!At
    <1>6. Fil!TypeOK'
        <2>1. calls' \in 0..AreaCalls["files"] /\ faults' \in 0..AreaFaults["files"]
            BY <1>2, FileCounts DEF FilesInv, Fil!Counters
        <2> QED BY <1>2, <1>3, <1>4, <1>5, <2>1 DEF FilesInv, Fil!TypeOK
    <1>7. PlainHasNoRow'
        <2>1. Fil!At(s, "file.upload")' /\ call'[s].kind = "plain" => call'[s].keys = {}
            BY <1>1, <1>3 DEF Fil!At
        <2> QED BY <1>3, <2>1, PlainKept DEF FilesInv
    <1>8. Fil!FilesRecorded'
        <2> PICK new : new = IF call[s].kind = "plain" THEN {} ELSE {k}
            OBVIOUS
        <2>1. Writing(s)' = keys
            BY <1>1, <1>3 DEF Writing, Fil!At
        <2>2. Writing(s) \cup new = keys
            BY <1>0 DEF Writing, FilesInv, PlainHasNoRow
        <2>3. toRow' \subseteq toRow \cup new
            BY <1>2
        <2> QED BY <1>2, <1>3, <2>1, <2>2, <2>3, RecordsKept DEF FilesInv
    <1>9. Fil!MovesLoseNothing'
        <2> SUFFICES ASSUME NEW g \in uploaded' PROVE g \in Fil!FilesAt(Keys)' \/ g \in removed'
            BY DEF Fil!MovesLoseNothing
        <2>1. CASE g = f
            BY <1>4, <2>1, HeldFilesNext, AreasAssumption
        <2>2. CASE g \in uploaded /\ g \notin removed
            <3> PICK x \in Keys : store[x] = g /\ g # None
                BY <2>2, HeldFiles DEF FilesInv, Fil!MovesLoseNothing
            <3>1. x # k
                BY <1>2
            <3> QED BY <1>4, <3>1, HeldFilesNext
        <2> QED BY <1>2, <2>1, <2>2
    <1>10. Fil!DeletedIsGone'
        BY <1>2, <1>4 DEF FilesInv, Fil!DeletedIsGone, Fil!TypeOK
    <1> QED BY <1>5, <1>6, <1>7, <1>8, <1>9, <1>10 DEF FilesInv

\* A file is left out, or a row is written, or is not.
LEMMA UploadGoesOn ==
    ASSUME FilesInv, NEW s \in Slots, Fil!At(s, "file.upload"),
           NEW left, left \subseteq call[s].left, NEW keys, keys \subseteq call[s].keys,
           call' = [call EXCEPT ![s] = Fil!Uploading(call[s].kind, left, keys)],
           rows \subseteq rows', rows' \subseteq Keys, orphans \subseteq orphans', orphans' \subseteq Keys,
           call[s].keys \ keys \subseteq rows' \cup orphans',
           UNCHANGED <<store, uploaded, toRow, removed, claimed, slipped, disturbed>>,
           calls' \in 0..AreaCalls["files"], faults' \in 0..AreaFaults["files"]
    PROVE  FilesInv'
    <1> PICK c : c = Fil!Uploading(call[s].kind, left, keys)
        OBVIOUS
    <1>0. /\ call[s].kind \in {"plain", "message", "chat"} /\ left \subseteq Files /\ keys \subseteq Keys
          /\ call[s].kind = "plain" => keys = {}
        BY FileRequestShape DEF FilesInv, PlainHasNoRow
    <1>1. /\ c \in Fil!Request \cup {Fil!Idle} /\ c.pc # "move.delete"
          /\ c.pc = "file.upload" => c.keys = keys /\ c.kind = call[s].kind
          /\ c.pc # "file.upload" => keys = {}
        BY <1>0, UploadingShape
    <1>3. /\ call' \in [Slots -> Fil!Request \cup {Fil!Idle}]
          /\ call'[s] = c /\ \A t \in Slots \ {s} : call'[t] = call[t]
        BY <1>1, FileCallMoves DEF FilesInv
    <1>4. Fil!TypeOK'
        BY <1>3 DEF FilesInv, Fil!TypeOK
    <1>5. PlainHasNoRow'
        <2>1. Fil!At(s, "file.upload")' /\ call'[s].kind = "plain" => call'[s].keys = {}
            BY <1>0, <1>1, <1>3 DEF Fil!At
        <2> QED BY <1>3, <2>1, PlainKept DEF FilesInv
    <1>6. BothHeld'
        BY <1>1, <1>3, MovesUntouched DEF FilesInv, Fil!At
    <1>7. Fil!FilesRecorded'
        <2>1. Writing(s)' = keys /\ Writing(s) = call[s].keys
            BY <1>1, <1>3 DEF Writing, Fil!At
        <2> QED BY <1>3, <2>1, RecordsKept DEF FilesInv
    <1>8. Fil!MovesLoseNothing' /\ Fil!DeletedIsGone'
        BY DEF FilesInv, Fil!MovesLoseNothing, Fil!DeletedIsGone, Fil!FilesAt, Fil!Present
    <1> QED BY <1>4, <1>5, <1>6, <1>7, <1>8 DEF FilesInv

LEMMA RowsWritten ==
    ASSUME FilesInv, NEW s \in Slots,
           \/ \E f \in Files : Fil!PutFails(s, f)
           \/ \E k \in Keys : Fil!SaveFileRecord(s, k) \/ Fil!SaveFails(s, k)
    PROVE  FilesInv'
    <1>t. rows \subseteq Keys /\ orphans \subseteq Keys
        BY DEF FilesInv, Fil!TypeOK
    <1>1. ASSUME NEW f \in Files, Fil!PutFails(s, f) PROVE FilesInv'
        <2>1. /\ Fil!At(s, "file.upload")
              /\ call' = [call EXCEPT ![s] = Fil!Uploading(call[s].kind, call[s].left \ {f}, call[s].keys)]
              /\ UNCHANGED <<rows, orphans, store, uploaded, toRow, removed, claimed, slipped, disturbed>>
            BY <1>1 DEF Fil!PutFails, Fil!MayPut, Fil!storage, Fil!records
        <2>2. calls' \in 0..AreaCalls["files"] /\ faults' \in 0..AreaFaults["files"]
            BY <1>1, FileCounts DEF FilesInv, Fil!PutFails
        <2> QED BY <1>t, <2>1, <2>2, UploadGoesOn
    <1>2. ASSUME NEW k \in Keys, Fil!SaveFileRecord(s, k) PROVE FilesInv'
        <2>1. /\ Fil!At(s, "file.upload") /\ rows' = rows \cup {k}
              /\ call' = [call EXCEPT ![s] = Fil!Uploading(call[s].kind, call[s].left, call[s].keys \ {k})]
              /\ UNCHANGED <<orphans, store, uploaded, toRow, removed, claimed, slipped, disturbed>>
            BY <1>2 DEF Fil!SaveFileRecord, Fil!records
        <2>2. calls' \in 0..AreaCalls["files"] /\ faults' \in 0..AreaFaults["files"]
            BY <1>2, FileCounts DEF FilesInv, Fil!SaveFileRecord
        <2>3. /\ rows \subseteq rows' /\ rows' \subseteq Keys /\ orphans \subseteq orphans' /\ orphans' \subseteq Keys
              /\ call[s].keys \ (call[s].keys \ {k}) \subseteq rows' \cup orphans'
            BY <1>t, <2>1
        <2>4. call[s].keys \ {k} \subseteq call[s].keys
            OBVIOUS
        <2> QED BY <2>1, <2>2, <2>3, <2>4, UploadGoesOn
    <1>3. ASSUME NEW k \in Keys, Fil!SaveFails(s, k) PROVE FilesInv'
        <2>1. /\ Fil!At(s, "file.upload") /\ orphans' = orphans \cup {k}
              /\ call' = [call EXCEPT ![s] = Fil!Uploading(call[s].kind, call[s].left, call[s].keys \ {k})]
              /\ UNCHANGED <<rows, store, uploaded, toRow, removed, claimed, slipped, disturbed>>
            BY <1>3 DEF Fil!SaveFails, Fil!storage
        <2>2. calls' \in 0..AreaCalls["files"] /\ faults' \in 0..AreaFaults["files"]
            BY <1>3, FileCounts DEF FilesInv, Fil!SaveFails
        <2>3. /\ rows \subseteq rows' /\ rows' \subseteq Keys /\ orphans \subseteq orphans' /\ orphans' \subseteq Keys
              /\ call[s].keys \ (call[s].keys \ {k}) \subseteq rows' \cup orphans'
            BY <1>t, <2>1
        <2>4. call[s].keys \ {k} \subseteq call[s].keys
            OBVIOUS
        <2> QED BY <2>1, <2>2, <2>3, <2>4, UploadGoesOn
    <1> QED BY <1>1, <1>2, <1>3

\* Objects are deleted, by a request that ends there: the keys it claims and
\* does not empty have slipped.
LEMMA FilesRemoved ==
    ASSUME FilesInv, NEW s \in Slots, NEW keys \in SUBSET Keys, NEW found \in SUBSET Keys,
           Fil!Removes(s, keys), call[s].pc # "file.upload",
           claimed' = claimed \cup found, slipped' = (slipped \ keys) \cup (found \ keys),
           (call' = call /\ call[s].pc # "move.delete") \/ Fil!Done(s),
           UNCHANGED <<rows, uploaded, toRow, orphans>>,
           calls' \in 0..AreaCalls["files"], faults' \in 0..AreaFaults["files"]
    PROVE  FilesInv'
    <1>1. /\ call' \in [Slots -> Fil!Request \cup {Fil!Idle}]
          /\ \A t \in Slots \ {s} : call'[t] = call[t]
          /\ call'[s].pc # "file.upload" /\ call'[s].pc # "move.delete"
        <2>1. CASE call' = call /\ call[s].pc # "move.delete"
            BY <2>1 DEF FilesInv, Fil!TypeOK
        <2>2. CASE Fil!Done(s)
            BY <2>2, FileCallMoves DEF FilesInv, Fil!Done, Fil!Idle
        <2> QED BY <2>1, <2>2
    <1>2. /\ store' = [k \in Keys |-> IF k \in keys THEN None ELSE store[k]]
          /\ removed' = removed \cup Fil!FilesAt(keys) /\ Fil!Writes(s, keys)
        BY DEF Fil!Removes
    <1>3. /\ store' \in [Keys -> Files \cup {None}]
          /\ \A k \in Keys \ keys : store'[k] = store[k]
          /\ \A k \in keys : store'[k] = None
        BY <1>2 DEF FilesInv, Fil!TypeOK
    <1>4. BothHeld' /\ disturbed' \subseteq Slots
        BY <1>1, <1>2, <1>3, MovesKept DEF FilesInv, Fil!At
    <1>5. \A k \in keys : store[k] # None => store[k] \in Fil!FilesAt(keys)
        BY HeldFiles
    <1>6. Fil!TypeOK'
        <2>1. \A f \in Fil!FilesAt(keys) : f \in Files
            BY HeldFiles DEF FilesInv, Fil!TypeOK
        <2> QED BY <1>1, <1>2, <1>3, <1>4, <2>1 DEF FilesInv, Fil!TypeOK
    <1>7. Fil!MovesLoseNothing'
        BY <1>2, <1>3, <1>5, FilesKept DEF FilesInv
    <1>8. PlainHasNoRow'
        BY <1>1, PlainKept DEF FilesInv, Fil!At
    <1>9. Fil!FilesRecorded'
        <2>1. Writing(s) = {}
            BY DEF Writing, Fil!At
        <2> QED BY <1>1, <2>1, RecordsKept DEF FilesInv
    <1>10. Fil!DeletedIsGone'
        BY <1>3 DEF FilesInv, Fil!DeletedIsGone, Fil!TypeOK
    <1> QED BY <1>4, <1>6, <1>7, <1>8, <1>9, <1>10 DEF FilesInv

LEMMA FilesDeleted ==
    ASSUME FilesInv, NEW s \in Slots,
           \/ \E keys, done \in SUBSET Keys : Fil!DeleteFiles(s, keys, done)
           \/ Fil!DeleteListed(s)
    PROVE  FilesInv'
    <1>1. ASSUME NEW keys \in SUBSET Keys, NEW done \in SUBSET Keys, Fil!DeleteFiles(s, keys, done)
          PROVE  FilesInv'
        <2>1. call[s].pc = "idle"
            BY <1>1 DEF Fil!DeleteFiles, Fil!Idle
        <2>2. faults' \in 0..AreaFaults["files"]
            BY <1>1, FileCounts DEF FilesInv, Fil!DeleteFiles
        <2>3. calls' \in 0..AreaCalls["files"]
            BY <1>1, FileCounts DEF FilesInv, Fil!DeleteFiles
        <2>4. /\ Fil!Removes(s, done) /\ call' = call
              /\ claimed' = claimed \cup keys /\ slipped' = (slipped \ done) \cup (keys \ done)
              /\ UNCHANGED <<rows, uploaded, toRow, orphans>>
            BY <1>1 DEF Fil!DeleteFiles
        <2> QED BY <2>1, <2>2, <2>3, <2>4, FilesRemoved
    <1>2. CASE Fil!DeleteListed(s)
        <2>1. call[s].pc = "folder.delete" /\ call[s].found \in SUBSET Keys /\ call[s].listed \in SUBSET Keys
            BY <1>2, FileRequestShape DEF FilesInv, Fil!DeleteListed, Fil!At
        <2>2. calls' \in 0..AreaCalls["files"] /\ faults' \in 0..AreaFaults["files"]
            BY <1>2, FileCounts DEF FilesInv, Fil!DeleteListed
        <2>4. /\ Fil!Removes(s, call[s].listed) /\ Fil!Done(s)
              /\ claimed' = claimed \cup call[s].found
              /\ slipped' = (slipped \ call[s].listed) \cup (call[s].found \ call[s].listed)
              /\ UNCHANGED <<rows, uploaded, toRow, orphans>>
            BY <1>2 DEF Fil!DeleteListed
        <2> QED BY <2>1, <2>2, <2>4, FilesRemoved
    <1> QED BY <1>1, <1>2

\* A request goes on, and nothing is written but what a listing claims.
LEMMA StoreUntouched ==
    ASSUME FilesInv, NEW s \in Slots, NEW c \in Fil!Request \cup {Fil!Idle},
           c.pc # "file.upload", c.pc # "move.delete", call[s].pc # "file.upload",
           call' = [call EXCEPT ![s] = c],
           UNCHANGED <<store, rows, uploaded, toRow, orphans, removed>>,
           disturbed \ {s} \subseteq disturbed', disturbed' \subseteq Slots,
           claimed' \subseteq Keys, slipped' \subseteq Keys, claimed' \ slipped' \subseteq claimed \ slipped,
           calls' \in 0..AreaCalls["files"], faults' \in 0..AreaFaults["files"]
    PROVE  FilesInv'
    <1>1. /\ call' \in [Slots -> Fil!Request \cup {Fil!Idle}]
          /\ call'[s] = c /\ \A t \in Slots \ {s} : call'[t] = call[t]
        BY FileCallMoves DEF FilesInv
    <1>2. Fil!TypeOK'
        BY <1>1 DEF FilesInv, Fil!TypeOK
    <1>3. PlainHasNoRow'
        BY <1>1, PlainKept DEF FilesInv, Fil!At
    <1>4. BothHeld'
        BY <1>1, MovesUntouched DEF FilesInv, Fil!At
    <1>5. Fil!FilesRecorded'
        <2>1. Writing(s) = {}
            BY DEF Writing, Fil!At
        <2> QED BY <1>1, <2>1, RecordsKept DEF FilesInv
    <1>6. Fil!MovesLoseNothing' /\ Fil!DeletedIsGone'
        BY DEF FilesInv, Fil!MovesLoseNothing, Fil!DeletedIsGone, Fil!FilesAt, Fil!Present
    <1> QED BY <1>2, <1>3, <1>4, <1>5, <1>6 DEF FilesInv

LEMMA FolderListed ==
    ASSUME FilesInv, NEW s \in Slots,
           \/ \E listed \in SUBSET Keys : Fil!DeleteFolder(s, listed)
           \/ Fil!ListFails(s)
           \/ Fil!DeletionFails(s)
    PROVE  FilesInv'
    <1>t. claimed \subseteq Keys /\ slipped \subseteq Keys /\ disturbed \subseteq Slots /\ call \in [Slots -> Fil!Request \cup {Fil!Idle}]
        BY DEF FilesInv, Fil!TypeOK
    <1>p. Fil!Present \subseteq Keys /\ Fil!Idle.pc = "idle"
        BY DEF Fil!Present, Fil!Idle
    <1>1. ASSUME NEW listed \in SUBSET Keys, Fil!DeleteFolder(s, listed) PROVE FilesInv'
        <2> PICK c : c = [pc |-> "folder.delete", found |-> Fil!Present, listed |-> listed]
            OBVIOUS
        <2>1. c \in Fil!Request \cup {Fil!Idle} /\ c.pc = "folder.delete"
            BY <1>p DEF Fil!Request
        <2>2. /\ call[s].pc = "idle" /\ call' = [call EXCEPT ![s] = c]
              /\ UNCHANGED <<store, rows, uploaded, toRow, orphans, removed, claimed, slipped, disturbed>>
            BY <1>1 DEF Fil!DeleteFolder, Fil!Begin, Fil!Idle, Fil!storage, Fil!records
        <2>3. calls' \in 0..AreaCalls["files"] /\ faults' \in 0..AreaFaults["files"]
            BY <1>1, FileCounts DEF FilesInv, Fil!DeleteFolder, Fil!Begin
        <2> QED BY <1>t, <2>1, <2>2, <2>3, StoreUntouched
    <1>2. CASE Fil!ListFails(s)
        <2>1. /\ call[s] = Fil!Idle /\ call' = [call EXCEPT ![s] = Fil!Idle]
              /\ UNCHANGED <<store, rows, uploaded, toRow, orphans, removed, disturbed>>
              /\ claimed' = claimed \cup Fil!Present /\ slipped' = slipped \cup Fil!Present
            BY <1>t, <1>2 DEF Fil!ListFails, Fil!storage
        <2>2. calls' \in 0..AreaCalls["files"] /\ faults' \in 0..AreaFaults["files"]
            BY <1>2, FileCounts DEF FilesInv, Fil!ListFails
        <2>3. claimed' \subseteq Keys /\ slipped' \subseteq Keys /\ claimed' \ slipped' \subseteq claimed \ slipped
            BY <1>t, <1>p, <2>1
        <2> QED BY <1>t, <1>p, <2>1, <2>2, <2>3, StoreUntouched
    <1>3. CASE Fil!DeletionFails(s)
        <2>1. /\ call[s].pc # "file.upload" /\ call' = [call EXCEPT ![s] = Fil!Idle]
              /\ UNCHANGED <<store, rows, uploaded, toRow, orphans, removed, claimed, slipped>>
              /\ disturbed' = disturbed \ {s}
            BY <1>3 DEF Fil!DeletionFails, Fil!storage, Fil!Done
        <2>2. calls' \in 0..AreaCalls["files"] /\ faults' \in 0..AreaFaults["files"]
            BY <1>3, FileCounts DEF FilesInv, Fil!DeletionFails
        <2> QED BY <1>t, <1>p, <2>1, <2>2, StoreUntouched
    <1> QED BY <1>1, <1>2, <1>3

\* A copy, alone or as the first half of a move.
LEMMA FileCopied ==
    ASSUME FilesInv, NEW s \in Slots, NEW k \in Keys, NEW x \in Keys,
           Fil!CopyFile(s, k, x) \/ Fil!MoveFile(s, k, x)
    PROVE  FilesInv'
    <1> PICK m : m = [pc |-> "move.delete", from |-> k, to |-> x]
        OBVIOUS
    <1>0. m \in Fil!Request /\ Fil!Idle.pc = "idle"
        BY DEF Fil!Request, Fil!Idle
    <1>1. PICK c \in {Fil!Idle, m} : call' = [call EXCEPT ![s] = c]
        BY DEF Fil!CopyFile, Fil!MoveFile, Fil!Begin
    <1>2. /\ call[s].pc = "idle" /\ calls < AreaCalls["files"] /\ calls' = calls + 1 /\ faults' = faults
          /\ Fil!Copies(s, k, x) /\ UNCHANGED <<rows, uploaded, toRow, orphans>>
        BY DEF Fil!CopyFile, Fil!MoveFile, Fil!Begin, Fil!Idle
    <1>3. /\ store[k] # None /\ k # x /\ store' = [store EXCEPT ![x] = store[k]]
          /\ removed' = removed \cup Fil!FilesAt({x})
          /\ claimed' = claimed \ {x} /\ slipped' = slipped \ {x} /\ Fil!Writes(s, {x})
        BY <1>2 DEF Fil!Copies
    <1>4. /\ call' \in [Slots -> Fil!Request \cup {Fil!Idle}]
          /\ call'[s] = c /\ \A t \in Slots \ {s} : call'[t] = call[t]
        BY <1>0, <1>1, FileCallMoves DEF FilesInv
    <1>5. /\ store' \in [Keys -> Files \cup {None}]
          /\ store'[x] = store[k] /\ store'[k] = store[k]
          /\ \A y \in Keys \ {x} : store'[y] = store[y]
        BY <1>3 DEF FilesInv, Fil!TypeOK
    <1>6. BothHeld' /\ disturbed' \subseteq Slots
        <2>1. Fil!At(s, "move.delete")' =>
                  call'[s].from # call'[s].to /\ store'[call'[s].from] = store'[call'[s].to]
            BY <1>0, <1>3, <1>4, <1>5 DEF Fil!At
        <2> QED BY <1>3, <1>4, <1>5, <2>1, MovesKept DEF FilesInv
    <1>7. Fil!TypeOK'
        <2>1. \A f \in Fil!FilesAt({x}) : f \in Files
            BY HeldFiles DEF FilesInv, Fil!TypeOK
        <2>2. calls' \in 0..AreaCalls["files"] /\ faults' \in 0..AreaFaults["files"]
            BY <1>2, FileCounts DEF FilesInv
        <2> QED BY <1>2, <1>3, <1>4, <1>5, <1>6, <2>1, <2>2 DEF FilesInv, Fil!TypeOK
    <1>8. PlainHasNoRow'
        BY <1>0, <1>4, PlainKept DEF FilesInv, Fil!At
    <1>9. Fil!FilesRecorded'
        <2>1. Writing(s) = {}
            BY <1>2 DEF Writing, Fil!At
        <2> QED BY <1>2, <1>4, <2>1, RecordsKept DEF FilesInv
    <1>10. Fil!MovesLoseNothing'
        <2>1. store[x] # None => store[x] \in Fil!FilesAt({x})
            BY HeldFiles
        <2> QED BY <1>2, <1>3, <1>5, <2>1, FilesKept DEF FilesInv
    <1>11. Fil!DeletedIsGone'
        BY <1>3, <1>5 DEF FilesInv, Fil!DeletedIsGone
    <1> QED BY <1>6, <1>7, <1>8, <1>9, <1>10, <1>11 DEF FilesInv

\* The second half: what the source holds is under the destination, too, or
\* another request has written one of them.
LEMMA SourceDeleted ==
    ASSUME FilesInv, NEW s \in Slots, Fil!DeleteSource(s)
    PROVE  FilesInv'
    <1> PICK k : k = call[s].from
        OBVIOUS
    <1>0. Fil!At(s, "move.delete") /\ k \in Keys /\ call[s].to \in Keys
        BY FileRequestShape DEF FilesInv, Fil!DeleteSource
    <1>1. /\ store' = [store EXCEPT ![k] = None]
          /\ removed' = (IF s \in disturbed THEN removed \cup Fil!FilesAt({k}) ELSE removed)
          /\ Fil!Writes(s, {k}) /\ call' = [call EXCEPT ![s] = Fil!Idle]
          /\ UNCHANGED <<rows, uploaded, toRow, orphans, claimed, slipped>>
          /\ calls' \in 0..AreaCalls["files"] /\ faults' \in 0..AreaFaults["files"]
        BY FileCounts DEF FilesInv, Fil!DeleteSource, Fil!Done
    <1>2. /\ call' \in [Slots -> Fil!Request \cup {Fil!Idle}]
          /\ call'[s] = Fil!Idle /\ \A t \in Slots \ {s} : call'[t] = call[t]
        BY <1>1, FileCallMoves DEF FilesInv
    <1>3. /\ store' \in [Keys -> Files \cup {None}] /\ store'[k] = None
          /\ \A y \in Keys \ {k} : store'[y] = store[y]
        BY <1>0, <1>1 DEF FilesInv, Fil!TypeOK
    <1>4. BothHeld' /\ disturbed' \subseteq Slots
        BY <1>1, <1>2, <1>3, MovesKept DEF FilesInv, Fil!At, Fil!Idle
    <1>5. Fil!TypeOK'
        <2>1. \A f \in Fil!FilesAt({k}) : f \in Files
            BY HeldFiles DEF FilesInv, Fil!TypeOK
        <2> QED BY <1>1, <1>2, <1>3, <1>4, <2>1 DEF FilesInv, Fil!TypeOK
    <1>6. PlainHasNoRow'
        BY <1>2, PlainKept DEF FilesInv, Fil!At, Fil!Idle
    <1>7. Fil!FilesRecorded'
        <2>1. Writing(s) = {}
            BY <1>0 DEF Writing, Fil!At
        <2> QED BY <1>1, <1>2, <2>1, RecordsKept DEF FilesInv
    <1>8. Fil!MovesLoseNothing'
        <2>1. store[k] # None => store[k] \in removed' \/ store[k] \in Fil!FilesAt(Keys)'
            <3>1. CASE s \in disturbed
                BY <1>0, <1>1, <3>1, HeldFiles
            <3>2. CASE s \notin disturbed
                <4>1. call[s].to # k /\ store'[call[s].to] = store[k]
                    BY <1>0, <1>3, <3>2 DEF FilesInv, BothHeld
                <4> QED BY <1>0, <4>1, HeldFilesNext
            <3> QED BY <3>1, <3>2
        <2>2. removed \subseteq removed'
            BY <1>1
        <2> QED BY <1>1, <1>3, <2>1, <2>2, FilesKept DEF FilesInv
    <1>9. Fil!DeletedIsGone'
        BY <1>1, <1>3 DEF FilesInv, Fil!DeletedIsGone, Fil!TypeOK
    <1> QED BY <1>4, <1>5, <1>6, <1>7, <1>8, <1>9 DEF FilesInv

LEMMA FilesCrash ==
    ASSUME FilesInv, Fil!Crash
    PROVE  FilesInv'
    <1>1. /\ orphans' = orphans \cup Fil!Unwritten(Slots) /\ disturbed' = {}
          /\ \A s \in Slots : call'[s] = Fil!Idle
          /\ UNCHANGED <<store, rows, uploaded, toRow, removed, claimed, slipped>>
        BY DEF Fil!Crash, Fil!storage
    <1>2. Fil!TypeOK'
        <2>1. Fil!Unwritten(Slots) \subseteq Keys
            <3>1. \A s \in Slots : Writing(s) \subseteq Keys
                BY FileRequestShape DEF FilesInv, Writing
            <3> QED BY <3>1, HeldFiles
        <2>2. calls' \in 0..AreaCalls["files"] /\ faults' \in 0..AreaFaults["files"]
            BY FileCounts DEF FilesInv, Fil!Crash
        <2>3. call' \in [Slots -> Fil!Request \cup {Fil!Idle}]
            BY DEF Fil!Crash
        <2> QED BY <1>1, <2>1, <2>2, <2>3 DEF FilesInv, Fil!TypeOK
    <1>3. PlainHasNoRow' /\ BothHeld'
        BY <1>1 DEF PlainHasNoRow, BothHeld, Fil!At, Fil!Idle
    <1>4. Fil!FilesRecorded'
        BY <1>1 DEF FilesInv, Fil!FilesRecorded
    <1>5. Fil!MovesLoseNothing' /\ Fil!DeletedIsGone'
        BY <1>1 DEF FilesInv, Fil!MovesLoseNothing, Fil!DeletedIsGone, Fil!FilesAt, Fil!Present
    <1> QED BY <1>2, <1>3, <1>4, <1>5 DEF FilesInv

LEMMA FilesStep == FilesInv /\ [Fil!Next]_(Fil!vars) => FilesInv'
    <1> SUFFICES ASSUME FilesInv, [Fil!Next]_(Fil!vars) PROVE FilesInv'
        OBVIOUS
    <1>1. ASSUME NEW s \in Slots, NEW chosen \in SUBSET Files,
                 \/ \E f \in chosen : chosen = {f} /\ Fil!UploadFiles(s, "plain", chosen)
                 \/ \E kind \in {"message", "chat"} : Fil!UploadFiles(s, kind, chosen)
          PROVE  FilesInv'
        BY <1>1, FilesUploaded
    <1>2. ASSUME NEW s \in Slots, NEW f \in Files, NEW k \in Keys, Fil!PutObject(s, f, k) PROVE FilesInv'
        BY <1>2, ObjectPut
    <1>3. ASSUME NEW s \in Slots,
                 \/ \E f \in Files : Fil!PutFails(s, f)
                 \/ \E k \in Keys : Fil!SaveFileRecord(s, k) \/ Fil!SaveFails(s, k)
          PROVE  FilesInv'
        BY <1>3, RowsWritten
    <1>4. ASSUME NEW s \in Slots,
                 \/ \E keys, done \in SUBSET Keys : Fil!DeleteFiles(s, keys, done)
                 \/ Fil!DeleteListed(s)
          PROVE  FilesInv'
        BY <1>4, FilesDeleted
    <1>5. ASSUME NEW s \in Slots,
                 \/ \E listed \in SUBSET Keys : Fil!DeleteFolder(s, listed)
                 \/ Fil!ListFails(s)
                 \/ Fil!DeletionFails(s)
          PROVE  FilesInv'
        BY <1>5, FolderListed
    <1>6. ASSUME NEW s \in Slots, NEW k \in Keys, NEW x \in Keys, Fil!CopyFile(s, k, x) \/ Fil!MoveFile(s, k, x)
          PROVE  FilesInv'
        BY <1>6, FileCopied
    <1>7. ASSUME NEW s \in Slots, Fil!DeleteSource(s) PROVE FilesInv'
        BY <1>7, SourceDeleted
    <1>8. CASE Fil!Crash
        BY <1>8, FilesCrash
    <1>9. CASE UNCHANGED Fil!vars
        <2>1. UNCHANGED <<store, rows, uploaded, toRow, orphans, removed, claimed, slipped, disturbed, call, calls, faults>>
            BY <1>9 DEF Fil!vars, Fil!storage, Fil!records
        <2>2. Fil!TypeOK' /\ PlainHasNoRow' /\ BothHeld'
            BY <2>1 DEF FilesInv, Fil!TypeOK, PlainHasNoRow, BothHeld, Fil!At
        <2>3. Fil!FilesRecorded'
            BY <2>1 DEF FilesInv, Fil!FilesRecorded, Fil!Unwritten, Fil!At
        <2>4. Fil!MovesLoseNothing' /\ Fil!DeletedIsGone'
            BY <2>1 DEF FilesInv, Fil!MovesLoseNothing, Fil!DeletedIsGone, Fil!FilesAt, Fil!Present
        <2> QED BY <2>2, <2>3, <2>4 DEF FilesInv
    <1> QED BY <1>1, <1>2, <1>3, <1>4, <1>5, <1>6, <1>7, <1>8, <1>9 DEF Fil!Next

-----------------------------------------------------------------------------
(* The accounts on social platforms.                                       *)

\* Who will make the account active, and who will write it a token, too; and
\* whoever is only there because the account was.
Heading == {"connect.exchange", "connect.find", "connect.update"}
Giving == Heading \cup {"connect.tokens", "connect.replace", "connect.add"}
Saved == {"connect.update", "connect.tokens", "connect.replace", "connect.add", "connect.job"}
             \cup Plt!Syncing \cup Plt!Disconnecting

SomeActive == \E r \in tokens : r.active
Linking == Plt!Connecting \cup Plt!Syncing

\* When no disconnect has met another request and nothing failed: which way the
\* account and its tokens are going.
AccountGoes ==
    /\ tokens # {} \/ Plt!Busy(Saved) => account # "none"
    /\ ~overlapped /\ ~mishaps =>
           /\ ~(Plt!Busy(Plt!Disconnecting) /\ Plt!Busy(Linking))
           /\ Plt!Busy(Plt!Disconnecting) => account = "disconnected" \/ Plt!Busy({"disconnect.account"})
           /\ account = "disconnected" =>
                  \/ Plt!Busy(Plt!Disconnecting) \/ Plt!Busy(Heading)
                  \/ ~Plt!Busy(Linking) /\ ~SomeActive
           /\ account = "active" /\ ~Plt!Busy(Plt!Disconnecting) => SomeActive \/ Plt!Busy(Giving)

\* A tag stands while nobody syncs.
TagStands == tagged => item = "tagged" /\ ~Plt!Busy(Plt!Syncing)

\* A token in hand is one the platform has given and nobody has stored.
Holding == {"connect.find", "connect.update", "connect.insert", "connect.tokens", "connect.replace",
            "connect.add", "sync.find", "sync.replace"}
Storing == {"sync.find", "sync.replace"}
Replacing == {"connect.replace", "sync.replace"}

Granted ==
    /\ \A v \in valid : v <= granted
    /\ \A r \in tokens : r.refresh <= granted
    /\ \A s \in Slots : call[s] # Plt!Idle => call[s].refresh <= granted
InHand ==
    /\ family # "drops" => \A s \in Slots : call[s].pc \in Holding => call[s].refresh \in valid
    /\ family = "rotates" => \A s \in Slots : call[s].pc \in Holding =>
           /\ \A r \in tokens : r.refresh # call[s].refresh
           /\ \A t \in Slots \ {s} :
                  call[t].pc \in Holding \cup {"sync.refresh"} => call[t].refresh # call[s].refresh
RowsNamed ==
    /\ IsFiniteSet(tokens)
    /\ \A q, r \in tokens : q.id = r.id => q = r
    /\ \A s \in Slots : call[s].pc \in Replacing => \E r \in tokens : r.id = call[s].row
OnlyRow ==
    family # "drops" /\ ~mishaps =>
        \A r : tokens = {r} => r.refresh \in valid \/ Plt!Busy(Storing)

TokensInv == Granted /\ InHand /\ RowsNamed /\ OnlyRow

PlatformsInv == Plt!TypeOK /\ AccountGoes /\ TagStands /\ TokensInv

-----------------------------------------------------------------------------
LEMMA PlatformBounds ==
    /\ AreaCalls["platforms"] \in Nat /\ AreaFaults["platforms"] \in Nat /\ MaxGrants \in Nat
    BY AreasAssumption DEF Areas

LEMMA PlatformsStart == Plt!Init => PlatformsInv
    <1> SUFFICES ASSUME Plt!Init PROVE PlatformsInv
        OBVIOUS
    <1>1. \A s \in Slots : call[s].pc = "idle" /\ call[s] = Plt!Idle
        BY DEF Plt!Init, Plt!Idle
    <1>2. \A pcs : Plt!Busy(pcs) => "idle" \in pcs
        BY <1>1 DEF Plt!Busy
    <1>3. ~Plt!Busy(Saved) /\ ~Plt!Busy(Plt!Disconnecting)
        BY <1>2 DEF Saved, Plt!Syncing, Plt!Disconnecting
    <1>4. AccountGoes
        BY <1>3 DEF AccountGoes, Plt!Init
    <1>5. TagStands
        BY DEF TagStands, Plt!Init
    <1>6. Granted /\ InHand /\ OnlyRow
        BY <1>1 DEF Granted, InHand, OnlyRow, Holding, Plt!Init
    <1>7. RowsNamed
        BY <1>1, FS_EmptySet DEF RowsNamed, Replacing, Plt!Init
    <1>8. Plt!TypeOK
        <2>1. granted \in 0..MaxGrants /\ calls \in 0..AreaCalls["platforms"] /\ faults \in 0..AreaFaults["platforms"]
            BY PlatformBounds DEF Plt!Init
        <2>2. overlapped \in BOOLEAN /\ tagged \in BOOLEAN /\ mishaps \in BOOLEAN
            BY DEF Plt!Init
        <2>3. call \in [Slots -> Plt!Request \cup {Plt!Idle}]
            BY DEF Plt!Init
        <2> QED BY <2>1, <2>2, <2>3 DEF Plt!TypeOK, Plt!Init
    <1> QED BY <1>4, <1>5, <1>6, <1>7, <1>8 DEF PlatformsInv, TokensInv

LEMMA PlatformsHold ==
    PlatformsInv => Plt!TypeOK /\ Plt!AccountMatchesTokens /\ Plt!RefreshTokenKept /\ Plt!TagLastsUntilSync
    <1> SUFFICES ASSUME PlatformsInv
                 PROVE  Plt!TypeOK /\ Plt!AccountMatchesTokens /\ Plt!RefreshTokenKept /\ Plt!TagLastsUntilSync
        OBVIOUS
    <1>1. Plt!AccountMatchesTokens
        <2> SUFFICES ASSUME ~Plt!Busy(Plt!Connecting \cup Plt!Disconnecting), ~overlapped, ~mishaps
                     PROVE  account = "active" <=> SomeActive
            BY DEF Plt!AccountMatchesTokens, SomeActive
        <2>1. ~Plt!Busy(Plt!Disconnecting) /\ ~Plt!Busy(Heading) /\ ~Plt!Busy(Giving)
            BY DEF Plt!Busy, Heading, Giving, Plt!Connecting
        <2>2. account \in {"none", "active", "disconnected"}
            BY DEF PlatformsInv, Plt!TypeOK
        <2> QED BY <2>1, <2>2 DEF PlatformsInv, AccountGoes, SomeActive
    <1>2. Plt!RefreshTokenKept
        <2> SUFFICES ASSUME family # "drops", ~mishaps, Plt!Cardinality(tokens) = 1, NEW r \in tokens
                     PROVE  r.refresh \in valid \/ Plt!Busy(Storing)
            BY DEF Plt!RefreshTokenKept, Plt!Busy, Storing
        <2>1. Cardinality(tokens) = 1
            BY DEF Plt!Cardinality, Cardinality
        <2>2. tokens = {r}
            BY <2>1, FS_Singleton DEF PlatformsInv, TokensInv, RowsNamed
        <2> QED BY <2>2 DEF PlatformsInv, TokensInv, OnlyRow
    <1>3. Plt!TagLastsUntilSync
        BY DEF PlatformsInv, TagStands, Plt!TagLastsUntilSync
    <1> QED BY <1>1, <1>2, <1>3 DEF PlatformsInv

-----------------------------------------------------------------------------
\* One request goes from call[s] to c, and the others stay where they are.
PlatformMoves(s, c) ==
    /\ c \in Plt!Request \cup {Plt!Idle} /\ call' = [call EXCEPT ![s] = c]

LEMMA PlatformMoved ==
    ASSUME Plt!TypeOK, NEW s \in Slots, NEW c, PlatformMoves(s, c)
    PROVE  /\ call' \in [Slots -> Plt!Request \cup {Plt!Idle}]
           /\ call'[s] = c /\ \A t \in Slots \ {s} : call'[t] = call[t]
           /\ \A pcs : Plt!Busy(pcs)' <=> c.pc \in pcs \/ \E t \in Slots \ {s} : call[t].pc \in pcs
           /\ \A pcs : Plt!Busy(pcs) <=> call[s].pc \in pcs \/ \E t \in Slots \ {s} : call[t].pc \in pcs
    <1>1. /\ call' \in [Slots -> Plt!Request \cup {Plt!Idle}]
          /\ call'[s] = c /\ \A t \in Slots \ {s} : call'[t] = call[t]
        BY DEF Plt!TypeOK, PlatformMoves
    <1>2. \A pcs : Plt!Busy(pcs)' <=> c.pc \in pcs \/ \E t \in Slots \ {s} : call[t].pc \in pcs
        BY <1>1 DEF Plt!Busy
    <1>3. \A pcs : Plt!Busy(pcs) <=> call[s].pc \in pcs \/ \E t \in Slots \ {s} : call[t].pc \in pcs
        BY DEF Plt!Busy
    <1> QED BY <1>1, <1>2, <1>3

LEMMA PlatformGoes ==
    ASSUME Plt!TypeOK, NEW s \in Slots
    PROVE  /\ call[s] # Plt!Idle <=> call[s].pc # "idle"
           /\ call[s] # Plt!Idle =>
                  /\ call[s] \in Plt!Request /\ call[s].refresh \in Plt!Refresh
                  /\ call[s].row \in 0..MaxGrants
           /\ \A pc \in Plt!Connecting \cup Plt!Syncing \cup Plt!Other :
                  call[s] # Plt!Idle /\ Plt!Goto(s, pc) => \E c :
                      /\ PlatformMoves(s, c) /\ c # Plt!Idle /\ c.pc = pc
                      /\ c.refresh = call[s].refresh /\ c.row = call[s].row
           /\ Plt!Done(s) => PlatformMoves(s, Plt!Idle) /\ Plt!Idle.pc = "idle"
    <1>1. call[s] # Plt!Idle => call[s] \in Plt!Request
        BY DEF Plt!TypeOK
    <1>2. /\ call[s] # Plt!Idle <=> call[s].pc # "idle"
          /\ call[s] # Plt!Idle => call[s].refresh \in Plt!Refresh /\ call[s].row \in 0..MaxGrants
        BY <1>1 DEF Plt!Request, Plt!Idle, Plt!Connecting, Plt!Syncing, Plt!Other
    <1>3. ASSUME NEW pc \in Plt!Connecting \cup Plt!Syncing \cup Plt!Other, call[s] # Plt!Idle, Plt!Goto(s, pc)
          PROVE  \E c : /\ PlatformMoves(s, c) /\ c # Plt!Idle /\ c.pc = pc
                        /\ c.refresh = call[s].refresh /\ c.row = call[s].row
        <2> PICK c : c = [call[s] EXCEPT !.pc = pc]
            OBVIOUS
        <2>1. c \in Plt!Request /\ c.pc = pc /\ c.refresh = call[s].refresh /\ c.row = call[s].row
            BY <1>1, <1>3 DEF Plt!Request
        <2>2. c # Plt!Idle
            BY <2>1 DEF Plt!Idle, Plt!Connecting, Plt!Syncing, Plt!Other
        <2>3. call' = [call EXCEPT ![s] = c]
            BY <1>3 DEF Plt!Goto
        <2> QED BY <2>1, <2>2, <2>3 DEF PlatformMoves
    <1>4. Plt!Done(s) => PlatformMoves(s, Plt!Idle) /\ Plt!Idle.pc = "idle"
        BY DEF Plt!Done, PlatformMoves, Plt!Idle
    <1> QED BY <1>1, <1>2, <1>3, <1>4

\* A tag stays while no sync begins, or goes.
LEMMA TagKept ==
    ASSUME TagStands, Plt!TypeOK, NEW s \in Slots, NEW c, PlatformMoves(s, c),
           \/ tagged' = FALSE
           \/ /\ tagged' = tagged /\ (item' = item \/ call[s].pc \in Plt!Syncing)
              /\ c.pc \in Plt!Syncing => call[s].pc \in Plt!Syncing
           \/ tagged' = ~Plt!Busy(Plt!Syncing) /\ item' = "tagged" /\ c.pc \notin Plt!Syncing
    PROVE  TagStands'
    BY PlatformMoved DEF TagStands

LEMMA AccountKept ==
    ASSUME AccountGoes, Plt!TypeOK, NEW s \in Slots, NEW c, PlatformMoves(s, c),
           UNCHANGED <<account, overlapped, mishaps>>,
           tokens' # {} => tokens # {} \/ call[s].pc \in Saved,
           SomeActive => SomeActive',
           SomeActive' => SomeActive \/ call[s].pc \in Linking,
           call[s].pc \notin Plt!Disconnecting, c.pc \notin Plt!Disconnecting,
           c.pc \in Linking => call[s].pc \in Linking,
           account = "disconnected" /\ call[s].pc \in Heading => c.pc \in Heading,
           account = "active" /\ call[s].pc \in Giving => c.pc \in Giving \/ SomeActive',
           c.pc \in Saved => account # "none"
    PROVE  AccountGoes'
    <1>1. /\ Plt!Busy(Plt!Disconnecting)' <=> Plt!Busy(Plt!Disconnecting)
          /\ Plt!Busy({"disconnect.account"})' <=> Plt!Busy({"disconnect.account"})
        BY PlatformMoved DEF Plt!Disconnecting
    <1>2. Plt!Busy(Linking)' => Plt!Busy(Linking)
        BY PlatformMoved
    <1>3. account = "disconnected" /\ Plt!Busy(Heading) => Plt!Busy(Heading)'
        BY PlatformMoved
    <1>4. account = "active" /\ Plt!Busy(Giving) => Plt!Busy(Giving)' \/ SomeActive'
        BY PlatformMoved
    <1>5. Plt!Busy(Saved)' => account # "none"
        BY PlatformMoved DEF AccountGoes
    <1>6. tokens' # {} => account # "none"
        BY PlatformMoved DEF AccountGoes
    <1>7. call[s].pc \in Linking => Plt!Busy(Linking)
        BY PlatformMoved
    <1> QED BY <1>1, <1>2, <1>3, <1>4, <1>5, <1>6, <1>7 DEF AccountGoes

LEMMA TokensKept ==
    ASSUME TokensInv, Plt!TypeOK, NEW s \in Slots, NEW c, PlatformMoves(s, c),
           UNCHANGED <<family, valid, granted, tokens>>, mishaps => mishaps',
           c # Plt!Idle => c.refresh <= granted,
           family # "drops" /\ c.pc \in Holding => c.refresh \in valid,
           family = "rotates" /\ c.pc \in Holding => call[s].pc \in Holding /\ c.refresh = call[s].refresh,
           c.pc = "sync.refresh" => \E r \in tokens : r.refresh = c.refresh,
           c.pc \in Replacing => \E r \in tokens : r.id = c.row,
           call[s].pc \in Storing => c.pc \in Storing \/ mishaps'
    PROVE  TokensInv'
    <1>0. call'[s] = c /\ \A t \in Slots \ {s} : call'[t] = call[t]
        BY PlatformMoved
    <1>1. Granted'
        BY <1>0 DEF TokensInv, Granted
    <1>2. InHand'
        <2>1. family # "drops" => \A t \in Slots : call'[t].pc \in Holding => call'[t].refresh \in valid
            BY <1>0 DEF TokensInv, InHand
        <2>2. ASSUME family = "rotates", NEW t \in Slots, call'[t].pc \in Holding
              PROVE  /\ \A r \in tokens : r.refresh # call'[t].refresh
                     /\ \A u \in Slots \ {t} :
                            call'[u].pc \in Holding \cup {"sync.refresh"} => call'[u].refresh # call'[t].refresh
            <3>1. call[t].pc \in Holding /\ call'[t].refresh = call[t].refresh
                BY <1>0, <2>2
            <3>2. /\ \A r \in tokens : r.refresh # call[t].refresh
                  /\ \A u \in Slots \ {t} :
                         call[u].pc \in Holding \cup {"sync.refresh"} => call[u].refresh # call[t].refresh
                BY <2>2, <3>1 DEF TokensInv, InHand
            <3>3. ASSUME NEW u \in Slots \ {t}, call'[u].pc \in Holding \cup {"sync.refresh"}
                  PROVE  call'[u].refresh # call[t].refresh
                <4>1. CASE u # s
                    BY <1>0, <3>2, <3>3, <4>1
                <4>2. CASE u = s /\ c.pc = "sync.refresh"
                    BY <1>0, <3>2, <4>2
                <4>3. CASE u = s /\ c.pc \in Holding
                    BY <1>0, <2>2, <3>2, <4>3
                <4> QED BY <1>0, <3>3, <4>1, <4>2, <4>3
            <3> QED BY <3>1, <3>2, <3>3
        <2> QED BY <2>1, <2>2 DEF InHand
    <1>3. RowsNamed'
        BY <1>0 DEF TokensInv, RowsNamed
    <1>4. OnlyRow'
        <2>1. Plt!Busy(Storing) => Plt!Busy(Storing)' \/ mishaps'
            BY PlatformMoved
        <2> QED BY <2>1 DEF TokensInv, OnlyRow
    <1> QED BY <1>1, <1>2, <1>3, <1>4 DEF TokensInv

LEMMA PlatformCounts ==
    ASSUME Plt!TypeOK
    PROVE  /\ Plt!Counters' = Plt!Counters =>
                  calls' \in 0..AreaCalls["platforms"] /\ faults' \in 0..AreaFaults["platforms"]
           /\ calls < AreaCalls["platforms"] /\ calls' = calls + 1 /\ faults' = faults =>
                  calls' \in 0..AreaCalls["platforms"] /\ faults' \in 0..AreaFaults["platforms"]
           /\ faults < AreaFaults["platforms"] /\ faults' = faults + 1 /\ calls' = calls =>
                  calls' \in 0..AreaCalls["platforms"] /\ faults' \in 0..AreaFaults["platforms"]
    BY PlatformBounds DEF Plt!TypeOK, Plt!Counters

-----------------------------------------------------------------------------
(* What the requests do.                                                   *)

\* A step that writes nothing but where the request is.
LEMMA PlatformWalks ==
    ASSUME PlatformsInv, NEW s \in Slots, NEW c, PlatformMoves(s, c),
           UNCHANGED <<family, valid, granted, account, tokens, item, overlapped, tagged, mishaps, calls, faults>>,
           call[s].pc \notin Plt!Disconnecting, c.pc \notin Plt!Disconnecting,
           c.pc \in Plt!Connecting => call[s].pc \in Plt!Connecting,
           c.pc \in Plt!Syncing => call[s].pc \in Plt!Syncing,
           account = "disconnected" /\ call[s].pc \in Heading => c.pc \in Heading,
           account = "active" /\ call[s].pc \in Giving => c.pc \in Giving \/ SomeActive,
           c.pc \in Saved => account # "none",
           c # Plt!Idle => c.refresh <= granted,
           family # "drops" /\ c.pc \in Holding => c.refresh \in valid,
           family = "rotates" /\ c.pc \in Holding => call[s].pc \in Holding /\ c.refresh = call[s].refresh,
           c.pc = "sync.refresh" => \E r \in tokens : r.refresh = c.refresh,
           c.pc \in Replacing => \E r \in tokens : r.id = c.row,
           call[s].pc \in Storing => c.pc \in Storing
    PROVE  PlatformsInv'
    <1>1. Plt!TypeOK'
        BY PlatformMoved DEF PlatformsInv, Plt!TypeOK
    <1>2. SomeActive' <=> SomeActive
        BY DEF SomeActive
    <1>3. AccountGoes'
        BY <1>2, AccountKept DEF PlatformsInv, Linking
    <1>4. TagStands'
        BY TagKept DEF PlatformsInv
    <1>5. TokensInv'
        BY TokensKept DEF PlatformsInv
    <1> QED BY <1>1, <1>3, <1>4, <1>5 DEF PlatformsInv

LEMMA PlatformRefreshes ==
    ASSUME PlatformsInv
    PROVE  /\ granted \in 0..MaxGrants /\ valid \subseteq 1..MaxGrants
           /\ \A r \in tokens : r \in Plt!Row /\ r.refresh \in Plt!Refresh /\ r.id \in 1..MaxGrants
           /\ \A r \in tokens : r.refresh <= granted
           /\ \A v \in valid : v <= granted
           /\ \A s \in Slots : call[s] # Plt!Idle => call[s].refresh <= granted
           /\ account \in {"none", "active", "disconnected"}
    BY DEF PlatformsInv, TokensInv, Granted, Plt!TypeOK, Plt!Row

\* A request that says where it goes next, or has done.
LEMMA PlatformGoesOn ==
    ASSUME PlatformsInv, NEW s \in Slots,
           \/ Plt!FindAccount(s) \/ Plt!AccountExists(s) \/ Plt!ScheduleSyncJob(s)
           \/ Plt!NoTokens(s) \/ Plt!RefreshKeeps(s) \/ Plt!RefreshRefused(s)
           \/ Plt!FetchContent(s) \/ Plt!SaveContentFails(s) \/ Plt!SyncFinish(s)
    PROVE  PlatformsInv'
    <1> USE DEF Heading, Giving, Saved, Linking, Holding, Storing, Replacing, Plt!Connecting, Plt!Syncing, Plt!Disconnecting,
                Plt!At
    <1>0. Plt!Idle.pc = "idle" /\ account \in {"none", "active", "disconnected"}
        BY PlatformRefreshes DEF Plt!Idle
    <1>1. ASSUME NEW pc \in Plt!Connecting \cup Plt!Syncing \cup Plt!Other, call[s].pc # "idle", Plt!Goto(s, pc)
          PROVE  \E c : /\ PlatformMoves(s, c) /\ c # Plt!Idle /\ c.pc = pc
                        /\ c.refresh = call[s].refresh /\ c.row = call[s].row /\ c.refresh <= granted
        BY <1>1, PlatformGoes, PlatformRefreshes DEF PlatformsInv
    <1>2. CASE Plt!FindAccount(s)
        <2> PICK pc : pc = IF account = "none" THEN "connect.insert" ELSE "connect.update"
            OBVIOUS
        <2>1. call[s].pc = "connect.find" /\ Plt!Goto(s, pc)
              /\ UNCHANGED <<family, valid, granted, account, tokens, item, overlapped, tagged, mishaps, calls, faults>>
            BY <1>2 DEF Plt!FindAccount, Plt!platform, Plt!rows, Plt!history, Plt!Counters
        <2>2. PICK c : /\ PlatformMoves(s, c) /\ c # Plt!Idle /\ c.pc = pc
                       /\ c.refresh = call[s].refresh /\ c.row = call[s].row /\ c.refresh <= granted
            BY <1>1, <2>1
        <2>3. family # "drops" => c.refresh \in valid
            BY <2>1, <2>2 DEF PlatformsInv, TokensInv, InHand
        <2> QED BY <2>1, <2>2, <2>3, PlatformWalks
    <1>3. CASE Plt!AccountExists(s)
        <2>1. /\ call[s].pc = "connect.insert" /\ PlatformMoves(s, Plt!Idle)
              /\ UNCHANGED <<family, valid, granted, account, tokens, item, overlapped, tagged, mishaps, calls, faults>>
            BY <1>3, PlatformGoes DEF PlatformsInv, Plt!AccountExists, Plt!platform, Plt!rows, Plt!history, Plt!Counters
        <2> QED BY <1>0, <2>1, PlatformWalks
    <1>4. CASE Plt!ScheduleSyncJob(s)
        <2>1. /\ call[s].pc = "connect.job" /\ PlatformMoves(s, Plt!Idle)
              /\ UNCHANGED <<family, valid, granted, account, tokens, item, overlapped, tagged, mishaps, calls, faults>>
            BY <1>4, PlatformGoes DEF PlatformsInv, Plt!ScheduleSyncJob, Plt!platform, Plt!rows, Plt!history, Plt!Counters
        <2> QED BY <1>0, <2>1, PlatformWalks
    <1>5. CASE Plt!NoTokens(s) \/ Plt!RefreshRefused(s) \/ Plt!SyncFinish(s)
        <2>1. /\ call[s].pc \in {"sync.token", "sync.refresh", "sync.finish"} /\ PlatformMoves(s, Plt!Idle)
              /\ UNCHANGED <<family, valid, granted, account, tokens, item, overlapped, tagged, mishaps, calls, faults>>
            BY <1>5, PlatformGoes DEF PlatformsInv, Plt!NoTokens, Plt!RefreshRefused, Plt!SyncFinish, Plt!platform,
               Plt!rows, Plt!history, Plt!Counters
        <2> QED BY <1>0, <2>1, PlatformWalks
    <1>6. CASE Plt!RefreshKeeps(s)
        <2>1. /\ call[s].pc = "sync.refresh" /\ Plt!Goto(s, "sync.find") /\ family = "keeps" /\ call[s].refresh \in valid
              /\ UNCHANGED <<family, valid, granted, account, tokens, item, overlapped, tagged, mishaps, calls, faults>>
            BY <1>6 DEF Plt!RefreshKeeps, Plt!platform, Plt!rows, Plt!history, Plt!Counters
        <2>2. PICK c : /\ PlatformMoves(s, c) /\ c # Plt!Idle /\ c.pc = "sync.find"
                       /\ c.refresh = call[s].refresh /\ c.row = call[s].row /\ c.refresh <= granted
            BY <1>1, <2>1
        <2>3. account # "none"
            BY <2>1 DEF PlatformsInv, AccountGoes, Plt!Busy
        <2> QED BY <2>1, <2>2, <2>3, PlatformWalks
    <1>7. CASE Plt!FetchContent(s) \/ Plt!SaveContentFails(s)
        <2>1. PICK pc \in {"sync.insert", "sync.update", "sync.finish"} :
                  /\ call[s].pc \in {"sync.fetch", "sync.insert", "sync.update"} /\ Plt!Goto(s, pc)
                  /\ UNCHANGED <<family, valid, granted, account, tokens, item, overlapped, tagged, mishaps, calls, faults>>
            BY <1>7 DEF Plt!FetchContent, Plt!SaveContentFails, Plt!platform, Plt!rows, Plt!history, Plt!Counters
        <2>2. PICK c : /\ PlatformMoves(s, c) /\ c # Plt!Idle /\ c.pc = pc
                       /\ c.refresh = call[s].refresh /\ c.row = call[s].row /\ c.refresh <= granted
            BY <1>1, <2>1
        <2>3. account # "none"
            BY <2>1 DEF PlatformsInv, AccountGoes, Plt!Busy
        <2> QED BY <2>1, <2>2, <2>3, PlatformWalks
    <1> QED BY <1>2, <1>3, <1>4, <1>5, <1>6, <1>7

\* A request that reads a row of the account's tokens.
LEMMA PlatformReads ==
    ASSUME PlatformsInv, NEW s \in Slots,
           \/ Plt!FindTokens(s) \/ Plt!FindRow(s) \/ \E r \in tokens : Plt!GetTokens(s, r)
    PROVE  PlatformsInv'
    <1> USE DEF Heading, Giving, Saved, Linking, Holding, Storing, Replacing, Plt!Connecting, Plt!Syncing, Plt!Disconnecting,
                Plt!At
    <1>1. /\ call[s].pc \in {"connect.tokens", "sync.find", "sync.token"}
          /\ UNCHANGED <<family, valid, granted, account, tokens, item, overlapped, tagged, mishaps, calls, faults>>
        BY DEF Plt!FindTokens, Plt!FindRow, Plt!GetTokens, Plt!platform, Plt!rows, Plt!history, Plt!Counters
    <1>2. /\ call[s] # Plt!Idle /\ call[s] \in Plt!Request /\ call[s].refresh <= granted
          /\ account # "none"
        BY <1>1, PlatformGoes, PlatformRefreshes DEF PlatformsInv, AccountGoes, Plt!Busy
    <1>h. call[s].pc \in Holding /\ family # "drops" => call[s].refresh \in valid
        BY DEF PlatformsInv, TokensInv, InHand
    <1>3. ASSUME NEW pc, pc \in {"connect.add", "sync.fetch"}, Plt!Goto(s, pc), pc = "connect.add" <=> call[s].pc = "connect.tokens",
                 pc = "sync.fetch" <=> call[s].pc = "sync.token"
          PROVE  PlatformsInv'
        <2>1. PICK c : /\ PlatformMoves(s, c) /\ c # Plt!Idle /\ c.pc = pc
                       /\ c.refresh = call[s].refresh /\ c.row = call[s].row
            BY <1>2, <1>3, PlatformGoes DEF PlatformsInv
        <2> QED BY <1>1, <1>2, <1>h, <1>3, <2>1, PlatformWalks
    <1>4. ASSUME NEW r \in tokens, NEW pc \in Replacing, call' = [call EXCEPT ![s].pc = pc, ![s].row = r.id],
                 pc = "connect.replace" <=> call[s].pc = "connect.tokens",
                 pc = "sync.replace" <=> call[s].pc = "sync.find"
          PROVE  PlatformsInv'
        <2> PICK c : c = [[call[s] EXCEPT !.pc = pc] EXCEPT !.row = r.id]
            OBVIOUS
        <2>0. r.id \in 0..MaxGrants
            BY PlatformRefreshes, PlatformBounds
        <2>1. /\ c \in Plt!Request /\ c.pc = pc /\ c.refresh = call[s].refresh /\ c.row = r.id
            BY <1>2, <2>0 DEF Plt!Request
        <2>2. call' = [call EXCEPT ![s] = c]
            BY <1>4
        <2>3. PlatformMoves(s, c) /\ c.pc # "idle"
            BY <2>1, <2>2 DEF PlatformMoves
        <2> QED BY <1>1, <1>2, <1>h, <1>4, <2>1, <2>3, PlatformWalks
    <1>5. CASE Plt!FindTokens(s)
        BY <1>3, <1>4, <1>5 DEF Plt!FindTokens
    <1>6. CASE Plt!FindRow(s)
        BY <1>4, <1>6 DEF Plt!FindRow
    <1>7. ASSUME NEW r \in tokens, Plt!GetTokens(s, r) PROVE PlatformsInv'
        <2>1. CASE ~r.expired
            BY <1>3, <1>7, <2>1 DEF Plt!GetTokens
        <2>2. CASE r.expired
            <3> PICK c : c = [[call[s] EXCEPT !.pc = "sync.refresh"] EXCEPT !.refresh = r.refresh]
                OBVIOUS
            <3>1. /\ c \in Plt!Request /\ c.pc = "sync.refresh" /\ c.refresh = r.refresh /\ r.refresh <= granted
                BY <1>2, PlatformRefreshes DEF Plt!Request
            <3>2. call' = [call EXCEPT ![s] = c]
                BY <1>7, <2>2 DEF Plt!GetTokens
            <3>3. PlatformMoves(s, c) /\ call[s].pc = "sync.token"
                BY <1>7, <3>1, <3>2 DEF PlatformMoves, Plt!GetTokens
            <3> QED BY <1>1, <1>2, <3>1, <3>3, PlatformWalks
        <2> QED BY <2>1, <2>2
    <1> QED BY <1>5, <1>6, <1>7

\* The platform hands out a token that nobody else has.
LEMMA TokensGranted ==
    ASSUME TokensInv, Plt!TypeOK, NEW s \in Slots, NEW c, PlatformMoves(s, c),
           UNCHANGED <<family, tokens, mishaps>>, granted' = granted + 1,
           c # Plt!Idle, c.refresh = granted + 1, c.pc \in {"connect.find", "sync.find"},
           call[s].pc \notin Storing,
           \/ valid' = valid \cup {granted + 1}
           \/ /\ call[s].pc = "sync.refresh" /\ family = "rotates"
              /\ valid' = (valid \ {call[s].refresh}) \cup {granted + 1} /\ c.pc = "sync.find"
    PROVE  TokensInv'
    <1>0. call'[s] = c /\ \A t \in Slots \ {s} : call'[t] = call[t]
        BY PlatformMoved
    <1>1. /\ granted \in Nat /\ \A v \in valid : v \in Nat /\ v < granted + 1
          /\ \A r \in tokens : r.refresh \in Nat /\ r.refresh < granted + 1
          /\ \A t \in Slots : call[t] # Plt!Idle => call[t].refresh \in Nat /\ call[t].refresh < granted + 1
        <2>1. /\ granted \in Nat /\ \A v \in valid : v \in Nat
              /\ \A r \in tokens : r.refresh \in Nat
            BY PlatformBounds DEF Plt!TypeOK, Plt!Row, Plt!Refresh, Plt!NoRefresh
        <2>2. \A t \in Slots : call[t] # Plt!Idle => call[t].refresh \in Nat
            BY PlatformGoes, PlatformBounds DEF Plt!Refresh, Plt!NoRefresh
        <2> QED BY <2>1, <2>2 DEF TokensInv, Granted
    <1>2. Granted'
        <2>1. \A v \in valid' : v <= granted'
            BY <1>1
        <2>2. \A r \in tokens : r.refresh <= granted'
            BY <1>1
        <2>3. \A t \in Slots : call'[t] # Plt!Idle => call'[t].refresh <= granted'
            BY <1>0, <1>1
        <2> QED BY <2>1, <2>2, <2>3 DEF Granted
    <1>3. \A t \in Slots \ {s} : call[t].pc \in Holding \cup {"sync.refresh"} =>
              call'[t].refresh # granted + 1
        <2>1. \A t \in Slots : call[t].pc \in Holding \cup {"sync.refresh"} => call[t] # Plt!Idle
            BY PlatformGoes DEF Holding
        <2> QED BY <1>0, <1>1, <2>1
    <1>4. \A r \in tokens : r.refresh # granted + 1
        BY <1>1
    <1>5. InHand'
        <2>1. ASSUME family # "drops", NEW t \in Slots, call'[t].pc \in Holding PROVE call'[t].refresh \in valid'
            <3>1. CASE t = s
                BY <1>0, <3>1
            <3>2. CASE t # s
                <4>1. call[t].pc \in Holding /\ call'[t] = call[t] /\ call[t].refresh \in valid
                    BY <1>0, <2>1, <3>2 DEF TokensInv, InHand
                <4>2. call[s].pc = "sync.refresh" /\ family = "rotates" => call[t].refresh # call[s].refresh
                    BY <3>2, <4>1 DEF TokensInv, InHand
                <4> QED BY <4>1, <4>2
            <3> QED BY <3>1, <3>2
        <2>2. ASSUME family = "rotates", NEW t \in Slots, call'[t].pc \in Holding
              PROVE  /\ \A r \in tokens : r.refresh # call'[t].refresh
                     /\ \A u \in Slots \ {t} :
                            call'[u].pc \in Holding \cup {"sync.refresh"} => call'[u].refresh # call'[t].refresh
            <3>1. CASE t = s
                BY <1>0, <1>3, <1>4, <3>1
            <3>2. CASE t # s
                <4>1. call[t].pc \in Holding /\ call'[t] = call[t] /\ call[t].refresh # granted + 1
                    BY <1>0, <1>3, <2>2, <3>2
                <4>2. /\ \A r \in tokens : r.refresh # call[t].refresh
                      /\ \A u \in Slots \ {t} :
                             call[u].pc \in Holding \cup {"sync.refresh"} => call[u].refresh # call[t].refresh
                    BY <2>2, <4>1 DEF TokensInv, InHand
                <4> QED BY <1>0, <4>1, <4>2
            <3> QED BY <3>1, <3>2
        <2> QED BY <2>1, <2>2 DEF InHand
    <1>6. RowsNamed'
        BY <1>0 DEF TokensInv, RowsNamed, Replacing
    <1>7. OnlyRow'
        <2>1. Plt!Busy(Storing) => Plt!Busy(Storing)'
            BY PlatformMoved
        <2>2. c.pc = "sync.find" => Plt!Busy(Storing)'
            BY PlatformMoved DEF Storing
        <2>3. c.pc = "sync.find" \/ valid \subseteq valid'
            OBVIOUS
        <2> QED BY <2>1, <2>2, <2>3 DEF TokensInv, OnlyRow
    <1> QED BY <1>2, <1>5, <1>6, <1>7 DEF TokensInv

LEMMA PlatformGrants ==
    ASSUME PlatformsInv, NEW s \in Slots, Plt!Exchange(s) \/ Plt!RefreshRotates(s)
    PROVE  PlatformsInv'
    <1> USE DEF Heading, Giving, Saved, Linking, Holding, Storing, Replacing, Plt!Connecting, Plt!Syncing, Plt!Disconnecting,
                Plt!At
    <1>1. /\ call[s].pc \in {"connect.exchange", "sync.refresh"}
          /\ UNCHANGED <<family, account, tokens, item, overlapped, tagged, mishaps, calls, faults>>
        BY DEF Plt!Exchange, Plt!RefreshRotates, Plt!rows, Plt!history, Plt!Counters
    <1>2. call[s] # Plt!Idle /\ call[s] \in Plt!Request /\ call[s].refresh <= granted
        BY <1>1, PlatformGoes, PlatformRefreshes DEF PlatformsInv
    <1>3. CASE family = "drops"
        <2>1. call[s].pc = "connect.exchange" /\ Plt!Goto(s, "connect.find") /\ UNCHANGED <<valid, granted>>
            BY <1>3 DEF Plt!Exchange, Plt!RefreshRotates, Plt!platform
        <2>2. PICK c : /\ PlatformMoves(s, c) /\ c # Plt!Idle /\ c.pc = "connect.find"
                       /\ c.refresh = call[s].refresh /\ c.row = call[s].row
            BY <1>2, <2>1, PlatformGoes DEF PlatformsInv
        <2> QED BY <1>1, <1>2, <1>3, <2>1, <2>2, PlatformWalks
    <1>4. CASE family # "drops"
        <2>1. PICK pc \in {"connect.find", "sync.find"}, keeping \in {valid, valid \ {call[s].refresh}} :
                  /\ Plt!Grant(s, pc, keeping)
                  /\ pc = "connect.find" => keeping = valid /\ call[s].pc = "connect.exchange"
                  /\ pc = "sync.find" => call[s].pc = "sync.refresh" /\ family = "rotates" /\ keeping = valid \ {call[s].refresh}
            BY <1>4 DEF Plt!Exchange, Plt!RefreshRotates
        <2> PICK c : c = [[call[s] EXCEPT !.pc = pc] EXCEPT !.refresh = granted + 1]
            OBVIOUS
        <2>2. granted < MaxGrants /\ granted' = granted + 1 /\ valid' = keeping \cup {granted + 1} /\ call' = [call EXCEPT ![s] = c]
            BY <2>1 DEF Plt!Grant
        <2>3. granted + 1 \in 1..MaxGrants /\ granted + 1 \in 0..MaxGrants
            BY <2>2, PlatformBounds, PlatformRefreshes
        <2>4. c \in Plt!Request /\ c.pc = pc /\ c.refresh = granted + 1
            BY <1>2, <2>3 DEF Plt!Request, Plt!Refresh, Plt!NoRefresh
        <2>5. PlatformMoves(s, c) /\ c # Plt!Idle
            BY <2>2, <2>4 DEF PlatformMoves, Plt!Idle
        <2>6. Plt!TypeOK'
            <3>1. valid' \subseteq 1..MaxGrants /\ granted' \in 0..MaxGrants
                BY <2>2, <2>3, PlatformRefreshes
            <3> QED BY <1>1, <2>5, <3>1, PlatformMoved DEF PlatformsInv, Plt!TypeOK
        <2>7. TokensInv'
            BY <1>1, <1>4, <2>1, <2>2, <2>4, <2>5, TokensGranted DEF PlatformsInv
        <2>8. AccountGoes'
            <3>1. SomeActive' <=> SomeActive
                BY <1>1 DEF SomeActive
            <3>2. c.pc = "sync.find" => account # "none"
                BY <2>1, <2>4 DEF PlatformsInv, AccountGoes, Plt!Busy
            <3> QED BY <1>1, <2>1, <2>4, <2>5, <3>1, <3>2, AccountKept DEF PlatformsInv
        <2>9. TagStands'
            BY <1>1, <2>1, <2>4, <2>5, TagKept DEF PlatformsInv
        <2> QED BY <2>6, <2>7, <2>8, <2>9 DEF PlatformsInv
    <1> QED BY <1>3, <1>4

\* A request stores the token it has in hand, in a row of its own or another.
LEMMA TokensStored ==
    ASSUME TokensInv, Plt!TypeOK, NEW s \in Slots, NEW c, PlatformMoves(s, c),
           UNCHANGED <<family, valid, granted, mishaps>>,
           call[s].pc \in Holding, c.pc \in {"connect.job", "sync.fetch"}, c.refresh = call[s].refresh,
           IsFiniteSet(tokens'), \A q, r \in tokens' : q.id = r.id => q = r,
           \A r \in tokens : \E q \in tokens' : q.id = r.id,
           \A q \in tokens' : q.refresh = call[s].refresh \/ \E r \in tokens : r.refresh = q.refresh,
           \A q : tokens' = {q} => q.refresh = call[s].refresh
    PROVE  TokensInv'
    <1>0. call'[s] = c /\ (\A t \in Slots \ {s} : call'[t] = call[t]) /\ call[s] # Plt!Idle
        BY PlatformMoved, PlatformGoes DEF Holding
    <1>1. Granted'
        BY <1>0 DEF TokensInv, Granted
    <1>2. \A t \in Slots : call'[t].pc \in Holding \cup {"sync.refresh"} \cup Replacing => t # s /\ call'[t] = call[t]
        BY <1>0 DEF Holding, Replacing
    <1>3. InHand'
        <2>1. family # "drops" => \A t \in Slots : call'[t].pc \in Holding => call'[t].refresh \in valid
            BY <1>2 DEF TokensInv, InHand
        <2>2. ASSUME family = "rotates", NEW t \in Slots, call'[t].pc \in Holding
              PROVE  /\ \A r \in tokens' : r.refresh # call'[t].refresh
                     /\ \A u \in Slots \ {t} :
                            call'[u].pc \in Holding \cup {"sync.refresh"} => call'[u].refresh # call'[t].refresh
            <3>1. t # s /\ call'[t] = call[t]
                BY <1>2, <2>2
            <3>2. /\ \A r \in tokens : r.refresh # call[t].refresh
                  /\ \A u \in Slots \ {t} :
                         call[u].pc \in Holding \cup {"sync.refresh"} => call[u].refresh # call[t].refresh
                BY <2>2, <3>1 DEF TokensInv, InHand
            <3>3. call[s].refresh # call[t].refresh
                BY <3>1, <3>2
            <3> QED BY <1>2, <3>1, <3>2, <3>3
        <2> QED BY <2>1, <2>2 DEF InHand
    <1>4. RowsNamed'
        BY <1>2 DEF TokensInv, RowsNamed
    <1>5. OnlyRow'
        BY DEF TokensInv, OnlyRow, InHand
    <1> QED BY <1>1, <1>3, <1>4, <1>5 DEF TokensInv

\* The rows keep their numbers and their tokens.
LEMMA TokensMarked ==
    ASSUME TokensInv, UNCHANGED <<family, valid, granted, mishaps>>,
           \A t \in Slots : call'[t] = call[t] \/ (call[t].pc = "disconnect.tokens" /\ call'[t] = Plt!Idle),
           IsFiniteSet(tokens'), \A q, r \in tokens' : q.id = r.id => q = r,
           \A r \in tokens : \E q \in tokens' : q.id = r.id,
           \A q \in tokens' : \E r \in tokens : r.id = q.id /\ r.refresh = q.refresh
    PROVE  TokensInv'
    <1>1. Granted'
        BY DEF TokensInv, Granted
    <1>2. /\ \A t \in Slots : call'[t].pc \in Holding \cup {"sync.refresh"} \cup Replacing => call'[t] = call[t]
          /\ Plt!Busy(Storing) => Plt!Busy(Storing)'
        BY DEF Holding, Storing, Replacing, Plt!Busy, Plt!Idle
    <1>3. InHand'
        <2>1. family # "drops" => \A t \in Slots : call'[t].pc \in Holding => call'[t].refresh \in valid
            BY <1>2 DEF TokensInv, InHand
        <2>2. ASSUME family = "rotates", NEW t \in Slots, call'[t].pc \in Holding
              PROVE  /\ \A r \in tokens' : r.refresh # call'[t].refresh
                     /\ \A u \in Slots \ {t} :
                            call'[u].pc \in Holding \cup {"sync.refresh"} => call'[u].refresh # call'[t].refresh
            <3>1. call'[t] = call[t]
                BY <1>2, <2>2
            <3>2. /\ \A r \in tokens : r.refresh # call[t].refresh
                  /\ \A u \in Slots \ {t} :
                         call[u].pc \in Holding \cup {"sync.refresh"} => call[u].refresh # call[t].refresh
                BY <2>2, <3>1 DEF TokensInv, InHand
            <3> QED BY <1>2, <3>1, <3>2
        <2> QED BY <2>1, <2>2 DEF InHand
    <1>4. RowsNamed'
        BY <1>2 DEF TokensInv, RowsNamed
    <1>5. OnlyRow'
        <2> SUFFICES ASSUME family # "drops", ~mishaps, NEW q, tokens' = {q}
                     PROVE  q.refresh \in valid \/ Plt!Busy(Storing)'
            BY DEF OnlyRow
        <2> PICK r \in tokens : r.id = q.id /\ r.refresh = q.refresh
            OBVIOUS
        <2>1. tokens = {r}
            BY DEF TokensInv, RowsNamed
        <2> QED BY <1>2, <2>1 DEF TokensInv, OnlyRow
    <1> QED BY <1>1, <1>3, <1>4, <1>5 DEF TokensInv

LEMMA RowsFinite ==
    ASSUME NEW S, IsFiniteSet(S), NEW T, \A q, r \in T : q.id = r.id => q = r,
           \A q \in T : \E r \in S : r.id = q.id
    PROVE  IsFiniteSet(T)
    <1> PICK f : f = [q \in T |-> CHOOSE r \in S : r.id = q.id]
        OBVIOUS
    <1>1. \A q \in T : f[q] \in S /\ f[q].id = q.id
        OBVIOUS
    <1>2. f \in Injection(T, S)
        BY <1>1 DEF Injection, IsInjective
    <1> QED BY <1>2, FS_Injection

LEMMA PlatformStores ==
    ASSUME PlatformsInv, NEW s \in Slots, Plt!AddTokens(s) \/ Plt!ReplaceTokens(s)
    PROVE  PlatformsInv'
    <1>1. PICK pc \in {"connect.job", "sync.fetch"} :
              /\ call[s].pc \in {"connect.add", "connect.replace", "sync.replace"} /\ Plt!Goto(s, pc)
              /\ pc = "sync.fetch" <=> call[s].pc = "sync.replace"
              /\ UNCHANGED <<family, valid, granted, account, item, overlapped, tagged, mishaps, calls, faults>>
        BY DEF Plt!AddTokens, Plt!ReplaceTokens, Plt!At, Plt!platform, Plt!history, Plt!Counters
    <1>2. call[s] # Plt!Idle /\ call[s].refresh \in Plt!Refresh
        BY <1>1, PlatformGoes DEF PlatformsInv
    <1>3. PICK c : /\ PlatformMoves(s, c) /\ c # Plt!Idle /\ c.pc = pc
                   /\ c.refresh = call[s].refresh /\ c.row = call[s].row
        BY <1>1, <1>2, PlatformGoes DEF PlatformsInv, Plt!Connecting, Plt!Syncing
    <1>4. /\ tokens' \subseteq Plt!Row /\ IsFiniteSet(tokens')
          /\ \A q, r \in tokens' : q.id = r.id => q = r
          /\ \A r \in tokens : \E q \in tokens' : q.id = r.id
          /\ \A q \in tokens' : q.refresh = call[s].refresh \/ \E r \in tokens : r.refresh = q.refresh
          /\ \A q : tokens' = {q} => q.refresh = call[s].refresh
          /\ \E q \in tokens' : q.active
        <2>t. /\ tokens \subseteq Plt!Row /\ IsFiniteSet(tokens) /\ \A q, r \in tokens : q.id = r.id => q = r
            BY DEF PlatformsInv, TokensInv, RowsNamed, Plt!TypeOK
        <2>1. CASE Plt!AddTokens(s)
            <3>1. PICK i \in 1..MaxGrants \ {r.id : r \in tokens} :
                      tokens' = tokens \cup {[id |-> i, refresh |-> call[s].refresh,
                                              active |-> TRUE, expired |-> FALSE]}
                BY <2>1 DEF Plt!AddTokens
            <3> PICK n : n = [id |-> i, refresh |-> call[s].refresh, active |-> TRUE, expired |-> FALSE]
                OBVIOUS
            <3>2. /\ n \in Plt!Row /\ n.id = i /\ n.refresh = call[s].refresh /\ n.active
                  /\ tokens' = tokens \cup {n} /\ \A r \in tokens : r.id # i
                BY <1>2, <3>1 DEF Plt!Row
            <3>3. IsFiniteSet(tokens')
                BY <2>t, <3>2, FS_AddElement
            <3>4. /\ \A q, r \in tokens' : q.id = r.id => q = r
                  /\ \A r \in tokens : \E q \in tokens' : q.id = r.id
                <4>1. ASSUME NEW q \in tokens', NEW r \in tokens', q.id = r.id PROVE q = r
                    <5>1. q \in tokens \/ q = n
                        BY <3>2
                    <5>2. r \in tokens \/ r = n
                        BY <3>2
                    <5> QED BY <2>t, <3>2, <4>1, <5>1, <5>2
                <4>2. \A r \in tokens : r \in tokens'
                    BY <3>2
                <4> QED BY <4>1, <4>2
            <3>5. /\ \A q \in tokens' : q.refresh = call[s].refresh \/ \E r \in tokens : r.refresh = q.refresh
                  /\ \A q : tokens' = {q} => q.refresh = call[s].refresh
                  /\ \E q \in tokens' : q.active
                BY <3>2
            <3> QED BY <2>t, <3>2, <3>3, <3>4, <3>5
        <2>2. CASE Plt!ReplaceTokens(s)
            <3> DEFINE F(r) == IF r.id = call[s].row
                               THEN [r EXCEPT !.refresh = call[s].refresh, !.active = TRUE, !.expired = FALSE]
                               ELSE r
            <3>1. tokens' = {F(r) : r \in tokens}
                BY <2>2 DEF Plt!ReplaceTokens
            <3>2. /\ \A r \in Plt!Row : F(r) \in Plt!Row /\ F(r).id = r.id
                  /\ \A r \in Plt!Row : r.id = call[s].row => F(r).refresh = call[s].refresh /\ F(r).active
                  /\ \A r \in Plt!Row : r.id # call[s].row => F(r).refresh = r.refresh
                BY <1>2 DEF Plt!Row
            <3> HIDE DEF F
            <3>4. call[s].pc \in Replacing
                BY <2>2 DEF Plt!ReplaceTokens, Plt!At, Replacing
            <3> PICK r0 \in tokens : r0.id = call[s].row
                BY <3>4 DEF PlatformsInv, TokensInv, RowsNamed
            <3>5. F(r0) \in tokens' /\ F(r0).refresh = call[s].refresh /\ F(r0).active
                BY <2>t, <3>1, <3>2
            <3>6. \A q, r \in tokens' : q.id = r.id => q = r
                BY <2>t, <3>1, <3>2
            <3>7. \A r \in tokens : \E q \in tokens' : q.id = r.id
                BY <2>t, <3>1, <3>2
            <3>8. \A q \in tokens' : q.refresh = call[s].refresh \/ \E r \in tokens : r.refresh = q.refresh
                BY <2>t, <3>1, <3>2
            <3>9. tokens' \subseteq Plt!Row
                BY <2>t, <3>1, <3>2
            <3>3. IsFiniteSet(tokens')
                <4>1. \A q \in tokens' : \E r \in tokens : r.id = q.id
                    BY <2>t, <3>1, <3>2
                <4> QED BY <2>t, <3>6, <4>1, RowsFinite
            <3> QED BY <3>3, <3>5, <3>6, <3>7, <3>8, <3>9
        <2> QED BY <2>1, <2>2
    <1>5. Plt!TypeOK'
        BY <1>1, <1>3, <1>4, PlatformMoved DEF PlatformsInv, Plt!TypeOK
    <1>6. TokensInv'
        <2>1. call[s].pc \in Holding
            BY <1>1 DEF Holding
        <2> QED BY <1>1, <1>3, <1>4, <2>1, TokensStored DEF PlatformsInv
    <1>7. AccountGoes'
        <2>1. SomeActive'
            BY <1>4 DEF SomeActive
        <2>2. /\ call[s].pc \in Saved /\ call[s].pc \in Linking /\ call[s].pc \notin Plt!Disconnecting
              /\ call[s].pc \notin Heading /\ c.pc \notin Plt!Disconnecting
            BY <1>1, <1>3 DEF Saved, Linking, Heading, Plt!Connecting, Plt!Syncing, Plt!Disconnecting
        <2>3. account # "none"
            BY <2>2 DEF PlatformsInv, AccountGoes, Plt!Busy
        <2> QED BY <1>1, <1>3, <2>1, <2>2, <2>3, AccountKept DEF PlatformsInv
    <1>8. TagStands'
        BY <1>1, <1>3, TagKept DEF PlatformsInv, Plt!Syncing
    <1> QED BY <1>5, <1>6, <1>7, <1>8 DEF PlatformsInv

\* The account is saved, the content is, and what the tags do.
LEMMA PlatformSaves ==
    ASSUME PlatformsInv, NEW s \in Slots,
           Plt!SaveAccount(s) \/ Plt!SaveContent(s) \/ Plt!Tag(s) \/ Plt!TagWrite(s)
    PROVE  PlatformsInv'
    <1> USE DEF Heading, Giving, Saved, Linking, Holding, Storing, Replacing, Plt!Connecting, Plt!Syncing, Plt!Disconnecting,
                Plt!At
    <1>p. Plt!Idle.pc = "idle" /\ 0 <= granted
        BY PlatformRefreshes, PlatformBounds DEF Plt!Idle
    <1>1. CASE Plt!SaveAccount(s)
        <2>1. /\ call[s].pc \in {"connect.update", "connect.insert"} /\ Plt!Goto(s, "connect.tokens") /\ account' = "active"
              /\ UNCHANGED <<family, valid, granted, tokens, item, overlapped, tagged, mishaps, calls, faults>>
            BY <1>1 DEF Plt!SaveAccount, Plt!platform, Plt!history, Plt!Counters
        <2>2. call[s] # Plt!Idle /\ call[s].refresh <= granted
            BY <2>1, PlatformGoes, PlatformRefreshes DEF PlatformsInv
        <2>3. PICK c : /\ PlatformMoves(s, c) /\ c # Plt!Idle /\ c.pc = "connect.tokens"
                       /\ c.refresh = call[s].refresh /\ c.row = call[s].row
            BY <2>1, <2>2, PlatformGoes DEF PlatformsInv
        <2>4. Plt!TypeOK'
            BY <2>1, <2>3, PlatformMoved DEF PlatformsInv, Plt!TypeOK
        <2>5. TagStands'
            BY <2>1, <2>3, TagKept DEF PlatformsInv
        <2>6. TokensInv'
            <3>1. family # "drops" => c.refresh \in valid
                BY <2>1, <2>3 DEF PlatformsInv, TokensInv, InHand
            <3> QED BY <2>1, <2>2, <2>3, <3>1, TokensKept DEF PlatformsInv
        <2>7. AccountGoes'
            <3>1. /\ Plt!Busy(Plt!Disconnecting)' <=> Plt!Busy(Plt!Disconnecting)
                  /\ Plt!Busy(Linking)' => Plt!Busy(Linking)
                  /\ Plt!Busy(Linking) /\ Plt!Busy(Giving)'
                BY <2>1, <2>3, PlatformMoved DEF PlatformsInv
            <3> QED BY <2>1, <3>1 DEF PlatformsInv, AccountGoes
        <2> QED BY <2>4, <2>5, <2>6, <2>7 DEF PlatformsInv
    <1>2. CASE Plt!SaveContent(s)
        <2>1. /\ call[s].pc \in {"sync.update", "sync.insert"} /\ Plt!Goto(s, "sync.finish") /\ item' = "untagged"
              /\ UNCHANGED <<family, valid, granted, account, tokens, overlapped, tagged, mishaps, calls, faults>>
            BY <1>2 DEF Plt!SaveContent, Plt!platform, Plt!history, Plt!Counters
        <2>2. call[s] # Plt!Idle /\ call[s].refresh <= granted
            BY <2>1, PlatformGoes, PlatformRefreshes DEF PlatformsInv
        <2>3. PICK c : /\ PlatformMoves(s, c) /\ c # Plt!Idle /\ c.pc = "sync.finish"
                       /\ c.refresh = call[s].refresh /\ c.row = call[s].row
            BY <2>1, <2>2, PlatformGoes DEF PlatformsInv
        <2>4. Plt!TypeOK'
            BY <2>1, <2>3, PlatformMoved DEF PlatformsInv, Plt!TypeOK
        <2>5. TagStands'
            BY <2>1, <2>3, TagKept DEF PlatformsInv
        <2>6. TokensInv'
            BY <2>1, <2>2, <2>3, TokensKept DEF PlatformsInv
        <2>7. AccountGoes'
            <3>1. account # "none" /\ (SomeActive' <=> SomeActive)
                BY <2>1 DEF PlatformsInv, AccountGoes, Plt!Busy, SomeActive
            <3> QED BY <2>1, <2>3, <3>1, AccountKept DEF PlatformsInv
        <2> QED BY <2>4, <2>5, <2>6, <2>7 DEF PlatformsInv
    <1>3. CASE Plt!Tag(s)
        <2> PICK c : c = [pc |-> "tag.write", refresh |-> Plt!NoRefresh, row |-> 0]
            OBVIOUS
        <2>1. c \in Plt!Request /\ c.pc = "tag.write" /\ c.refresh = 0
            BY PlatformBounds DEF Plt!Request, Plt!Refresh, Plt!NoRefresh, Plt!Other
        <2>2. /\ PlatformMoves(s, c) /\ call[s].pc = "idle" /\ c # Plt!Idle
              /\ UNCHANGED <<family, valid, granted, account, tokens, item, overlapped, tagged, mishaps>>
            BY <1>3, <1>p, <2>1 DEF Plt!Tag, Plt!Begin, Plt!platform, Plt!rows, PlatformMoves
        <2>3. calls' \in 0..AreaCalls["platforms"] /\ faults' \in 0..AreaFaults["platforms"]
            BY <1>3, PlatformCounts DEF PlatformsInv, Plt!Tag, Plt!Begin
        <2>4. Plt!TypeOK'
            BY <2>2, <2>3, PlatformMoved DEF PlatformsInv, Plt!TypeOK
        <2>5. TagStands'
            BY <2>1, <2>2, TagKept DEF PlatformsInv
        <2>6. TokensInv'
            BY <1>p, <2>1, <2>2, TokensKept DEF PlatformsInv
        <2>7. AccountGoes'
            <3>1. SomeActive' <=> SomeActive
                BY <2>2 DEF SomeActive
            <3> QED BY <2>1, <2>2, <3>1, AccountKept DEF PlatformsInv
        <2> QED BY <2>4, <2>5, <2>6, <2>7 DEF PlatformsInv
    <1>4. CASE Plt!TagWrite(s)
        <2>1. /\ call[s].pc = "tag.write" /\ Plt!Done(s) /\ item' = "tagged" /\ tagged' = ~Plt!Busy(Plt!Syncing)
              /\ UNCHANGED <<family, valid, granted, account, tokens, overlapped, mishaps, calls, faults>>
            BY <1>4 DEF Plt!TagWrite, Plt!platform, Plt!Counters
        <2>2. PlatformMoves(s, Plt!Idle)
            BY <2>1, PlatformGoes DEF PlatformsInv
        <2>4. Plt!TypeOK'
            <3>1. tagged' \in BOOLEAN
                BY <2>1
            <3> QED BY <2>1, <2>2, <3>1, PlatformMoved DEF PlatformsInv, Plt!TypeOK
        <2>5. TagStands'
            BY <1>p, <2>1, <2>2, TagKept DEF PlatformsInv
        <2>6. TokensInv'
            BY <1>p, <2>1, <2>2, TokensKept DEF PlatformsInv
        <2>7. AccountGoes'
            <3>1. SomeActive' <=> SomeActive
                BY <2>1 DEF SomeActive
            <3> QED BY <1>p, <2>1, <2>2, <3>1, AccountKept DEF PlatformsInv
        <2> QED BY <2>4, <2>5, <2>6, <2>7 DEF PlatformsInv
    <1> QED BY <1>1, <1>2, <1>3, <1>4

\* A request begins.
LEMMA PlatformBegins ==
    ASSUME PlatformsInv, NEW s \in Slots,
           Plt!Connect(s) \/ Plt!SyncContent(s) \/ Plt!Disconnect(s)
    PROVE  PlatformsInv'
    <1> USE DEF Heading, Giving, Saved, Linking, Holding, Storing, Replacing, Plt!Connecting, Plt!Syncing, Plt!Disconnecting
    <1>1. PICK pc \in {"connect.exchange", "sync.token", "disconnect.account"} :
              /\ Plt!Begin(s, pc)
              /\ pc = "connect.exchange" => Plt!Connect(s)
              /\ pc = "sync.token" => Plt!SyncContent(s)
              /\ pc = "disconnect.account" => Plt!Disconnect(s)
        BY DEF Plt!Connect, Plt!SyncContent, Plt!Disconnect
    <1> PICK c : c = [pc |-> pc, refresh |-> Plt!NoRefresh, row |-> 0]
        OBVIOUS
    <1>2. c \in Plt!Request /\ c.pc = pc /\ c.refresh = 0 /\ 0 <= granted
        <2>1. 0 \in 0..MaxGrants
            BY PlatformBounds
        <2>2. 0 <= granted
            BY PlatformRefreshes, PlatformBounds
        <2> QED BY <2>1, <2>2 DEF Plt!Request, Plt!Refresh, Plt!NoRefresh, Plt!Other
    <1>3. /\ PlatformMoves(s, c) /\ call[s].pc = "idle" /\ c # Plt!Idle
          /\ UNCHANGED <<family, valid, granted, account, tokens, item, mishaps>>
        BY <1>1, <1>2 DEF Plt!Begin, Plt!platform, Plt!rows, PlatformMoves, Plt!Idle
    <1>4. calls' \in 0..AreaCalls["platforms"] /\ faults' \in 0..AreaFaults["platforms"]
        BY <1>1, PlatformCounts DEF PlatformsInv, Plt!Begin
    <1>5. Plt!TypeOK'
        <2>0. overlapped \in BOOLEAN /\ tagged \in BOOLEAN /\ \A pcs : Plt!Busy(pcs) \in BOOLEAN
            BY DEF PlatformsInv, Plt!TypeOK, Plt!Busy
        <2>a. /\ overlapped' \in {Plt!Busy(Plt!Disconnecting), overlapped \/ Plt!Busy(Plt!Disconnecting), Plt!Busy(Linking)}
              /\ tagged' \in {tagged, FALSE}
            BY <1>1 DEF Plt!Connect, Plt!SyncContent, Plt!Disconnect
        <2>1. overlapped' \in BOOLEAN /\ tagged' \in BOOLEAN
            BY <2>0, <2>a
        <2> QED BY <1>3, <1>4, <2>1, PlatformMoved DEF PlatformsInv, Plt!TypeOK
    <1>6. TagStands'
        <2>1. tagged' = FALSE \/ (tagged' = tagged /\ pc \notin Plt!Syncing)
            BY <1>1 DEF Plt!Connect, Plt!SyncContent, Plt!Disconnect
        <2> QED BY <1>2, <1>3, <2>1, TagKept DEF PlatformsInv
    <1>7. TokensInv'
        BY <1>2, <1>3, TokensKept DEF PlatformsInv
    <1>8. SomeActive' <=> SomeActive
        BY <1>3 DEF SomeActive
    <1>9. /\ Plt!Busy(Plt!Disconnecting)' <=> pc = "disconnect.account" \/ Plt!Busy(Plt!Disconnecting)
          /\ Plt!Busy({"disconnect.account"})' <=> pc = "disconnect.account" \/ Plt!Busy({"disconnect.account"})
          /\ Plt!Busy(Linking)' <=> pc # "disconnect.account" \/ Plt!Busy(Linking)
          /\ Plt!Busy(Heading)' <=> pc = "connect.exchange" \/ Plt!Busy(Heading)
          /\ Plt!Busy(Giving)' <=> pc = "connect.exchange" \/ Plt!Busy(Giving)
          /\ Plt!Busy(Saved)' <=> pc # "connect.exchange" \/ Plt!Busy(Saved)
        BY <1>2, <1>3, PlatformMoved DEF PlatformsInv
    <1>10. AccountGoes'
        <2>1. CASE pc = "connect.exchange"
            <3>1. overlapped' <=> Plt!Busy(Plt!Disconnecting)
                BY <1>1, <2>1 DEF Plt!Connect
            <3> QED BY <1>3, <1>8, <1>9, <2>1, <3>1 DEF PlatformsInv, AccountGoes
        <2>2. CASE pc = "sync.token"
            <3>1. account = "active" /\ (overlapped' <=> overlapped \/ Plt!Busy(Plt!Disconnecting))
                BY <1>1, <2>2 DEF Plt!SyncContent
            <3> QED BY <1>3, <1>8, <1>9, <2>2, <3>1 DEF PlatformsInv, AccountGoes
        <2>3. CASE pc = "disconnect.account"
            <3>1. account # "none" /\ (overlapped' <=> Plt!Busy(Linking))
                BY <1>1, <2>3 DEF Plt!Disconnect
            <3> QED BY <1>3, <1>8, <1>9, <2>3, <3>1 DEF PlatformsInv, AccountGoes
        <2> QED BY <2>1, <2>2, <2>3
    <1> QED BY <1>5, <1>6, <1>7, <1>10 DEF PlatformsInv

LEMMA PlatformDisconnects ==
    ASSUME PlatformsInv, NEW s \in Slots, Plt!DisconnectAccount(s) \/ Plt!DisconnectTokens(s)
    PROVE  PlatformsInv'
    <1>1. CASE Plt!DisconnectAccount(s)
        <2> USE DEF Heading, Giving, Saved, Linking, Holding, Storing, Replacing, Plt!Connecting, Plt!Syncing,
                    Plt!Disconnecting
        <2>1. /\ call[s].pc = "disconnect.account" /\ Plt!Goto(s, "disconnect.tokens") /\ account' = "disconnected"
              /\ UNCHANGED <<family, valid, granted, tokens, item, overlapped, tagged, mishaps, calls, faults>>
            BY <1>1 DEF Plt!DisconnectAccount, Plt!At, Plt!platform, Plt!history, Plt!Counters
        <2>2. call[s] # Plt!Idle /\ call[s].refresh <= granted
            BY <2>1, PlatformGoes, PlatformRefreshes DEF PlatformsInv
        <2>3. PICK c : /\ PlatformMoves(s, c) /\ c # Plt!Idle /\ c.pc = "disconnect.tokens"
                       /\ c.refresh = call[s].refresh /\ c.row = call[s].row
            BY <2>1, <2>2, PlatformGoes DEF PlatformsInv, Plt!Other
        <2>4. Plt!TypeOK'
            BY <2>1, <2>3, PlatformMoved DEF PlatformsInv, Plt!TypeOK
        <2>5. TagStands'
            BY <2>1, <2>3, TagKept DEF PlatformsInv
        <2>6. TokensInv'
            BY <2>1, <2>2, <2>3, TokensKept DEF PlatformsInv
        <2>7. AccountGoes'
            <3>1. /\ Plt!Busy(Plt!Disconnecting)' /\ Plt!Busy(Plt!Disconnecting)
                  /\ Plt!Busy(Linking)' <=> Plt!Busy(Linking)
                BY <2>1, <2>3, PlatformMoved DEF PlatformsInv
            <3> QED BY <2>1, <3>1 DEF PlatformsInv, AccountGoes
        <2> QED BY <2>4, <2>5, <2>6, <2>7 DEF PlatformsInv
    <1>2. CASE Plt!DisconnectTokens(s)
        <2>1. /\ call[s].pc = "disconnect.tokens" /\ PlatformMoves(s, Plt!Idle) /\ Plt!Idle.pc = "idle"
              /\ tokens' = {[r EXCEPT !.active = FALSE] : r \in tokens}
              /\ UNCHANGED <<family, valid, granted, account, item, overlapped, tagged, mishaps, calls, faults>>
            BY <1>2, PlatformGoes DEF PlatformsInv, Plt!DisconnectTokens, Plt!At, Plt!platform, Plt!history, Plt!Counters
        <2>2. /\ tokens' \subseteq Plt!Row
              /\ \A r \in tokens : \E q \in tokens' : q.id = r.id
              /\ \A q \in tokens' : \E r \in tokens : q = [r EXCEPT !.active = FALSE]
              /\ \A q \in tokens' : \E r \in tokens : r.id = q.id /\ r.refresh = q.refresh
              /\ ~SomeActive'
            <3> DEFINE F(r) == [r EXCEPT !.active = FALSE]
            <3>1. tokens' = {F(r) : r \in tokens}
                BY <2>1
            <3>2. \A r \in Plt!Row : F(r) \in Plt!Row /\ F(r).id = r.id /\ F(r).refresh = r.refresh /\ ~F(r).active
                BY DEF Plt!Row
            <3>3. tokens \subseteq Plt!Row
                BY DEF PlatformsInv, Plt!TypeOK
            <3>4. \A q \in tokens' : \E r \in tokens : q = [r EXCEPT !.active = FALSE]
                BY <3>1
            <3> HIDE DEF F
            <3>5. tokens' \subseteq Plt!Row /\ ~SomeActive'
                BY <3>1, <3>2, <3>3 DEF SomeActive
            <3>6. \A r \in tokens : \E q \in tokens' : q.id = r.id
                BY <3>1, <3>2, <3>3
            <3>7. \A q \in tokens' : \E r \in tokens : r.id = q.id /\ r.refresh = q.refresh
                BY <3>1, <3>2, <3>3
            <3> QED BY <3>4, <3>5, <3>6, <3>7
        <2>3. \A q, r \in tokens' : q.id = r.id => q = r
            <3> SUFFICES ASSUME NEW q \in tokens', NEW r \in tokens', q.id = r.id PROVE q = r
                OBVIOUS
            <3> PICK q0 \in tokens : q = [q0 EXCEPT !.active = FALSE]
                BY <2>2
            <3> PICK r0 \in tokens : r = [r0 EXCEPT !.active = FALSE]
                BY <2>2
            <3>1. q0 \in Plt!Row /\ r0 \in Plt!Row
                BY DEF PlatformsInv, Plt!TypeOK
            <3>2. q0.id = r0.id
                BY <3>1 DEF Plt!Row
            <3> QED BY <3>2 DEF PlatformsInv, TokensInv, RowsNamed
        <2>4. IsFiniteSet(tokens')
            <3>1. \A q \in tokens' : \E r \in tokens : r.id = q.id
                BY <2>2
            <3> QED BY <2>3, <3>1, RowsFinite DEF PlatformsInv, TokensInv, RowsNamed
        <2>5. TokensInv'
            <3>1. \A t \in Slots : call'[t] = call[t] \/ (call[t].pc = "disconnect.tokens" /\ call'[t] = Plt!Idle)
                BY <2>1, PlatformMoved DEF PlatformsInv
            <3> QED BY <2>1, <2>2, <2>3, <2>4, <3>1, TokensMarked DEF PlatformsInv
        <2>6. Plt!TypeOK'
            BY <2>1, <2>2, PlatformMoved DEF PlatformsInv, Plt!TypeOK
        <2>7. TagStands'
            BY <2>1, TagKept DEF PlatformsInv, Plt!Syncing
        <2>8. AccountGoes'
            <3>1. /\ Plt!Busy(Linking)' <=> Plt!Busy(Linking)
                  /\ Plt!Busy({"disconnect.account"})' <=> Plt!Busy({"disconnect.account"})
                  /\ Plt!Busy({"disconnect.account"}) => Plt!Busy(Plt!Disconnecting)'
                  /\ Plt!Busy(Plt!Disconnecting) /\ (Plt!Busy(Plt!Disconnecting)' => Plt!Busy(Plt!Disconnecting))
                  /\ Plt!Busy(Saved)
                BY <2>1, PlatformMoved
                   DEF PlatformsInv, Linking, Saved, Plt!Connecting, Plt!Syncing, Plt!Disconnecting
            <3>2. account # "none"
                BY <3>1 DEF PlatformsInv, AccountGoes
            <3> QED BY <2>1, <2>2, <3>1, <3>2 DEF PlatformsInv, AccountGoes
        <2> QED BY <2>5, <2>6, <2>7, <2>8 DEF PlatformsInv
    <1> QED BY <1>1, <1>2

LEMMA PlatformTokenExpires ==
    ASSUME PlatformsInv, NEW r \in tokens, Plt!TokenExpires(r)
    PROVE  PlatformsInv'
    <1> PICK n : n = [r EXCEPT !.expired = TRUE]
        OBVIOUS
    <1>1. /\ tokens' = (tokens \ {r}) \cup {n}
          /\ UNCHANGED <<family, valid, granted, account, item, overlapped, tagged, mishaps, call, calls, faults>>
        BY DEF Plt!TokenExpires, Plt!platform, Plt!history, Plt!Counters
    <1>2. tokens \subseteq Plt!Row /\ \A q, p \in tokens : q.id = p.id => q = p
        BY DEF PlatformsInv, TokensInv, RowsNamed, Plt!TypeOK
    <1>3. n \in Plt!Row /\ n.id = r.id /\ n.refresh = r.refresh /\ n.active = r.active
        BY <1>2 DEF Plt!Row
    <1>4. Plt!TypeOK'
        BY <1>1, <1>2, <1>3 DEF PlatformsInv, Plt!TypeOK
    <1>5. TagStands'
        BY <1>1 DEF PlatformsInv, TagStands, Plt!Busy
    <1>6. \A q, p \in tokens' : q.id = p.id => q = p
        <2> SUFFICES ASSUME NEW q \in tokens', NEW p \in tokens', q.id = p.id PROVE q = p
            OBVIOUS
        <2>1. (q \in tokens /\ q # r) \/ q = n
            BY <1>1
        <2>2. (p \in tokens /\ p # r) \/ p = n
            BY <1>1
        <2> QED BY <1>2, <1>3, <2>1, <2>2
    <1>7. /\ \A p \in tokens : \E q \in tokens' : q.id = p.id
          /\ \A q \in tokens' : \E p \in tokens : p.id = q.id /\ p.refresh = q.refresh
        <2>1. \A p \in tokens : \E q \in tokens' : q.id = p.id
            BY <1>1, <1>3
        <2>2. \A q \in tokens' : \E p \in tokens : p.id = q.id /\ p.refresh = q.refresh
            BY <1>1, <1>3
        <2> QED BY <2>1, <2>2
    <1>8. IsFiniteSet(tokens')
        <2>1. \A q \in tokens' : \E p \in tokens : p.id = q.id
            BY <1>7
        <2> QED BY <1>6, <2>1, RowsFinite DEF PlatformsInv, TokensInv, RowsNamed
    <1>9. TokensInv'
        <2>1. \A t \in Slots : call'[t] = call[t]
            BY <1>1
        <2> QED BY <1>1, <1>6, <1>7, <1>8, <2>1, TokensMarked DEF PlatformsInv
    <1>10. AccountGoes'
        <2>1. (SomeActive' <=> SomeActive) /\ tokens # {}
            BY <1>1, <1>3 DEF SomeActive
        <2> QED BY <1>1, <2>1 DEF PlatformsInv, AccountGoes, Plt!Busy
    <1> QED BY <1>4, <1>5, <1>9, <1>10 DEF PlatformsInv

\* A request breaks off, or all of them do.
LEMMA PlatformFails ==
    ASSUME PlatformsInv, Plt!Crash \/ \E s \in Slots : Plt!RequestFails(s)
    PROVE  PlatformsInv'
    <1>1. /\ mishaps' = TRUE /\ faults < AreaFaults["platforms"] /\ faults' = faults + 1 /\ calls' = calls
          /\ UNCHANGED <<family, valid, granted, account, tokens, item, overlapped, tagged>>
        BY DEF Plt!Crash, Plt!RequestFails, Plt!platform, Plt!rows
    <1>2. call' \in [Slots -> Plt!Request \cup {Plt!Idle}] /\ \A t \in Slots : call'[t] \in {call[t], Plt!Idle}
        <2>1. CASE Plt!Crash
            BY <2>1 DEF Plt!Crash
        <2>2. ASSUME NEW s \in Slots, Plt!RequestFails(s)
              PROVE  call' \in [Slots -> Plt!Request \cup {Plt!Idle}] /\ \A t \in Slots : call'[t] \in {call[t], Plt!Idle}
            BY <2>2 DEF Plt!RequestFails, Plt!Done, PlatformsInv, Plt!TypeOK
        <2> QED BY <2>1, <2>2
    <1>3. \A pcs : "idle" \notin pcs /\ Plt!Busy(pcs)' => Plt!Busy(pcs)
        BY <1>2 DEF Plt!Busy, Plt!Idle
    <1>4. Plt!TypeOK'
        <2>1. calls' \in 0..AreaCalls["platforms"] /\ faults' \in 0..AreaFaults["platforms"]
            BY <1>1, PlatformCounts DEF PlatformsInv
        <2>2. mishaps' \in BOOLEAN
            BY <1>1
        <2> QED BY <1>1, <1>2, <2>1, <2>2 DEF PlatformsInv, Plt!TypeOK
    <1>5. TagStands'
        <2>1. "idle" \notin Plt!Syncing
            BY DEF Plt!Syncing
        <2> QED BY <1>1, <1>3, <2>1 DEF PlatformsInv, TagStands
    <1>6. AccountGoes'
        <2>1. "idle" \notin Saved
            BY DEF Saved, Plt!Syncing, Plt!Disconnecting
        <2> QED BY <1>1, <1>3, <2>1 DEF PlatformsInv, AccountGoes
    <1>7. TokensInv'
        <2>1. \A t \in Slots : call'[t].pc \in Holding \cup {"sync.refresh"} \cup Replacing => call'[t] = call[t]
            BY <1>2 DEF Plt!Idle, Holding, Replacing
        <2>2. Granted'
            BY <1>1, <1>2 DEF PlatformsInv, TokensInv, Granted
        <2>3. InHand'
            <3>1. family # "drops" => \A t \in Slots : call'[t].pc \in Holding => call'[t].refresh \in valid
                BY <2>1 DEF PlatformsInv, TokensInv, InHand
            <3>2. ASSUME family = "rotates", NEW t \in Slots, call'[t].pc \in Holding
                  PROVE  /\ \A r \in tokens : r.refresh # call'[t].refresh
                         /\ \A u \in Slots \ {t} :
                                call'[u].pc \in Holding \cup {"sync.refresh"} => call'[u].refresh # call'[t].refresh
                BY <2>1, <3>2 DEF PlatformsInv, TokensInv, InHand
            <3> QED BY <1>1, <3>1, <3>2 DEF InHand
        <2>4. RowsNamed'
            BY <1>1, <2>1 DEF PlatformsInv, TokensInv, RowsNamed
        <2>5. OnlyRow'
            BY <1>1 DEF OnlyRow
        <2> QED BY <2>2, <2>3, <2>4, <2>5 DEF TokensInv
    <1> QED BY <1>4, <1>5, <1>6, <1>7 DEF PlatformsInv

LEMMA PlatformsStep == PlatformsInv /\ [Plt!Next]_(Plt!vars) => PlatformsInv'
    <1> SUFFICES ASSUME PlatformsInv, [Plt!Next]_(Plt!vars) PROVE PlatformsInv'
        OBVIOUS
    <1>1. ASSUME NEW s \in Slots,
                 \/ Plt!FindAccount(s) \/ Plt!AccountExists(s) \/ Plt!ScheduleSyncJob(s)
                 \/ Plt!NoTokens(s) \/ Plt!RefreshKeeps(s) \/ Plt!RefreshRefused(s)
                 \/ Plt!FetchContent(s) \/ Plt!SaveContentFails(s) \/ Plt!SyncFinish(s)
          PROVE  PlatformsInv'
        BY <1>1, PlatformGoesOn
    <1>2. ASSUME NEW s \in Slots, Plt!FindTokens(s) \/ Plt!FindRow(s) \/ \E r \in tokens : Plt!GetTokens(s, r)
          PROVE  PlatformsInv'
        BY <1>2, PlatformReads
    <1>3. ASSUME NEW s \in Slots, Plt!Exchange(s) \/ Plt!RefreshRotates(s) PROVE PlatformsInv'
        BY <1>3, PlatformGrants
    <1>4. ASSUME NEW s \in Slots, Plt!AddTokens(s) \/ Plt!ReplaceTokens(s) PROVE PlatformsInv'
        BY <1>4, PlatformStores
    <1>5. ASSUME NEW s \in Slots, Plt!SaveAccount(s) \/ Plt!SaveContent(s) \/ Plt!Tag(s) \/ Plt!TagWrite(s)
          PROVE  PlatformsInv'
        BY <1>5, PlatformSaves
    <1>6. ASSUME NEW s \in Slots, Plt!Connect(s) \/ Plt!SyncContent(s) \/ Plt!Disconnect(s) PROVE PlatformsInv'
        BY <1>6, PlatformBegins
    <1>7. ASSUME NEW s \in Slots, Plt!DisconnectAccount(s) \/ Plt!DisconnectTokens(s) PROVE PlatformsInv'
        BY <1>7, PlatformDisconnects
    <1>8. ASSUME NEW r \in tokens, Plt!TokenExpires(r) PROVE PlatformsInv'
        BY <1>8, PlatformTokenExpires
    <1>9. CASE Plt!Crash \/ \E s \in Slots : Plt!RequestFails(s)
        BY <1>9, PlatformFails
    <1>10. CASE UNCHANGED Plt!vars
        <2>1. UNCHANGED <<family, valid, granted, account, tokens, item, overlapped, tagged, mishaps, call, calls, faults>>
            BY <1>10 DEF Plt!vars, Plt!platform
        <2>2. Plt!TypeOK'
            BY <2>1 DEF PlatformsInv, Plt!TypeOK
        <2>3. AccountGoes' /\ TagStands'
            BY <2>1 DEF PlatformsInv, AccountGoes, TagStands, SomeActive, Plt!Busy
        <2>4. Granted' /\ InHand' /\ RowsNamed' /\ OnlyRow'
            BY <2>1 DEF PlatformsInv, TokensInv, Granted, InHand, RowsNamed, OnlyRow, Plt!Busy
        <2> QED BY <2>2, <2>3, <2>4 DEF PlatformsInv, TokensInv
    <1> QED BY <1>1, <1>2, <1>3, <1>4, <1>5, <1>6, <1>7, <1>8, <1>9, <1>10 DEF Plt!Next

-----------------------------------------------------------------------------
(* The history of the numbers.                                             *)

\* Who is about to merge over rows nobody has written meanwhile has read the end
\* of the latest, and its day is no earlier.
MergesWell(c) ==
    c.pc = "sync.merge" =>
        /\ c.on <= day
        /\ ~c.missed => \A d \in Met!Filed(growth) :
               /\ d <= c.on
               /\ (\A e \in Met!Filed(growth) : e <= d) => c.start = growth[d].end

\* Each row and the one before it.
Chained ==
    \A b, d \in Met!Filed(growth) :
        b < d /\ (\A e \in Met!Filed(growth) : e < d => e <= b) =>
            growth[d].start = growth[b].end \/ {d, b} \cap shadowed # {}

\* Who is about to file views has them from the platform, of that day at the latest.
FilesWell(c) ==
    /\ c.pc = "sync.content" => c.views <= counted[day]
    /\ c.pc \in {"sync.snapshot", "sync.detailed"} => c.on <= day /\ c.views <= counted[c.on]
    /\ c.pc = "sync.daily" => c.on <= day

\* No row is of a day to come, and what is counted so far counts for all of them.
RowsPast == \A d \in Met!Filed(growth) : d <= day
CountGoesOn == \A d \in Met!Days : day <= d => counted[d] = counted[day]

HistoryInv ==
    /\ Met!TypeOK /\ RowsPast /\ CountGoesOn
    /\ \A s \in Slots : MergesWell(call[s]) /\ FilesWell(call[s])
    /\ Chained /\ Met!NothingAhead

HistoryRequest == Met!Track \cup Met!Collect \cup {Met!Idle}

LEMMA HistoryBounds ==
    /\ AreaCalls["history"] \in Nat /\ AreaFaults["history"] \in Nat
    /\ MaxDay \in Nat /\ 1 <= MaxDay /\ MaxViews \in Nat /\ MaxFollowers \in Nat
    /\ Met!Days \subseteq Nat /\ Met!Counts \subseteq Nat
    /\ \A d \in Met!Days : 1 <= d /\ d <= MaxDay
    BY AreasAssumption DEF Areas, Met!Days, Met!Counts

\* The latest of some days is one of them.
LEMMA LatestDay ==
    ASSUME NEW D, D \subseteq Met!Days, D # {}
    PROVE  Met!Latest(D) \in D /\ \A e \in D : e <= Met!Latest(D)
    <1> PICK T : T = {n \in Nat : \E d \in D : n = MaxDay - d}
        OBVIOUS
    <1>1. T # {}
        <2> PICK d : d \in D
            OBVIOUS
        <2>1. MaxDay - d \in Nat
            BY HistoryBounds
        <2> QED BY <2>1
    <1> PICK R : R = {p \in Nat \X Nat : p[1] < p[2]}
        OBVIOUS
    <1>2. IsWellFoundedOn(R, Nat)
        BY NatLessThanWellFounded DEF OpToRel
    <1>3. T \subseteq Nat
        OBVIOUS
    <1>4. \E n \in T : \A m \in T : ~(<<m, n>> \in R)
        BY <1>1, <1>2, <1>3, WFMin
    <1> PICK n \in T : \A m \in T : ~(m < n)
        BY <1>4
    <1> PICK d \in D : n = MaxDay - d
        OBVIOUS
    <1>5. \A e \in D : e <= d
        <2> SUFFICES ASSUME NEW e \in D PROVE e <= d
            OBVIOUS
        <2>1. MaxDay - e \in T
            BY HistoryBounds
        <2> QED BY <2>1, HistoryBounds
    <1> QED BY <1>5 DEF Met!Latest

LEMMA HistoryShape ==
    ASSUME NEW c \in HistoryRequest
    PROVE  /\ c # Met!Idle <=> c.pc # "idle"
           /\ c.pc \in {"sync.growth", "sync.merge"} =>
                  /\ c \in Met!Track /\ c.count \in Met!Counts /\ c.start \in Met!Counts
                  /\ c.on \in Met!Days /\ c.missed \in BOOLEAN
           /\ c.pc \in {"sync.fetch", "sync.content", "sync.snapshot", "sync.details", "sync.detailed", "sync.daily"} =>
                  /\ c \in Met!Collect /\ c.views \in 0..MaxViews
                  /\ c.on \in Met!Days
           /\ c.pc \in {"idle", "sync.growth", "sync.merge", "sync.fetch", "sync.content", "sync.snapshot",
                        "sync.details", "sync.detailed", "sync.daily"}
    BY DEF HistoryRequest, Met!Track, Met!Collect, Met!Idle

LEMMA HistoryTyped ==
    ASSUME Met!TypeOK
    PROVE  /\ day \in Met!Days /\ day \in Nat /\ 1 <= day
           /\ \A s \in Slots : call[s] \in HistoryRequest
           /\ \A d \in Met!Days : metrics[d] = Met!NoRow \/ (metrics[d] \in Met!Views /\ metrics[d].views \in Nat)
           /\ \A d \in Met!Days : growth[d] = Met!NoRow \/ growth[d] \in Met!Growth
           /\ \A d \in Met!Days : counted[d] \in 0..MaxViews /\ counted[d] \in Nat
           /\ Met!Filed(growth) \subseteq Met!Days
    <1>1. \A s \in Slots : call[s] \in HistoryRequest
        BY DEF Met!TypeOK, HistoryRequest
    <1>2. \A d \in Met!Days : metrics[d] = Met!NoRow \/ (metrics[d] \in Met!Views /\ metrics[d].views \in Nat)
        BY HistoryBounds DEF Met!TypeOK, Met!Views
    <1>3. Met!Filed(growth) \subseteq Met!Days
        BY DEF Met!Filed
    <1>4. \A d \in Met!Days : counted[d] \in 0..MaxViews /\ counted[d] \in Nat
        BY HistoryBounds DEF Met!TypeOK
    <1> QED BY <1>1, <1>2, <1>3, <1>4, HistoryBounds DEF Met!TypeOK

LEMMA HistoryStart == Met!Init => HistoryInv
    <1> SUFFICES ASSUME Met!Init PROVE HistoryInv
        OBVIOUS
    <1>1. \A s \in Slots : call[s].pc = "idle"
        BY DEF Met!Init, Met!Idle
    <1>2. \A s \in Slots : MergesWell(call[s]) /\ FilesWell(call[s])
        BY <1>1 DEF MergesWell, FilesWell
    <1>3. Met!Filed(growth) = {} /\ Met!Filed(metrics) = {}
        BY DEF Met!Init, Met!Filed
    <1>4. Chained /\ Met!NothingAhead /\ RowsPast /\ CountGoesOn
        BY <1>3, HistoryBounds DEF Chained, Met!NothingAhead, RowsPast, CountGoesOn, Met!Init, Met!Days
    <1>5. Met!TypeOK
        BY HistoryBounds DEF Met!TypeOK, Met!Init, Met!Days, Met!Counts
    <1> QED BY <1>2, <1>4, <1>5 DEF HistoryInv

LEMMA HistoryHolds == HistoryInv => Met!TypeOK /\ Met!GrowthChains /\ Met!NothingAhead
    <1> SUFFICES ASSUME HistoryInv PROVE Met!GrowthChains
        BY DEF HistoryInv
    <1> SUFFICES ASSUME NEW d \in Met!Filed(growth), NEW before,
                        before = {e \in Met!Filed(growth) : e < d}, before # {}
                 PROVE  growth[d].start = growth[Met!Latest(before)].end \/ {d, Met!Latest(before)} \cap shadowed # {}
        BY DEF Met!GrowthChains
    <1>1. before \subseteq Met!Days
        BY HistoryTyped DEF HistoryInv
    <1>2. Met!Latest(before) \in before /\ \A e \in before : e <= Met!Latest(before)
        BY <1>1, LatestDay
    <1> QED BY <1>2 DEF HistoryInv, Chained

-----------------------------------------------------------------------------
\* What a sync has read stays good while nobody writes.
LEMMA MergeKept ==
    ASSUME NEW c, MergesWell(c), c.pc = "sync.merge" => c.on \in Nat, day \in Nat, day' \in Nat, day <= day',
           growth' = growth \/ c.pc # "sync.merge"
    PROVE  MergesWell(c)'
    BY DEF MergesWell, Met!Filed

LEMMA FileKept ==
    ASSUME NEW c \in HistoryRequest, FilesWell(c), day \in Met!Days, day' \in Met!Days, day <= day',
           \A d \in Met!Days : counted[d] \in Nat /\ counted'[d] \in Nat /\ counted[d] <= counted'[d],
           counted[day] <= counted'[day']
    PROVE  FilesWell(c)'
    <1>1. day \in Nat /\ day' \in Nat
        BY HistoryBounds
    <1>2. CASE c.pc = "sync.content"
        <2>1. c.views \in Nat /\ c.views <= counted[day]
            BY <1>2, HistoryShape, HistoryBounds DEF FilesWell
        <2>2. c.views <= counted'[day']
            BY <2>1
        <2> QED BY <1>2, <2>2 DEF FilesWell
    <1>3. CASE c.pc \in {"sync.snapshot", "sync.detailed"}
        <2>1. c.views \in Nat /\ c.on \in Met!Days /\ c.on \in Nat /\ c.on <= day /\ c.views <= counted[c.on]
            <3>1. c.views \in 0..MaxViews /\ c.on \in Met!Days
                BY <1>3, HistoryShape
            <3>2. 0..MaxViews \subseteq Nat /\ Met!Days \subseteq Nat
                BY HistoryBounds
            <3> QED BY <1>3, <3>1, <3>2 DEF FilesWell
        <2>2. c.on <= day' /\ c.views <= counted'[c.on]
            BY <1>1, <2>1
        <2> QED BY <1>3, <2>2 DEF FilesWell
    <1>4. CASE c.pc = "sync.daily"
        <2>1. c.on \in Nat /\ c.on <= day
            BY <1>4, HistoryShape, HistoryBounds DEF FilesWell
        <2> QED BY <1>1, <1>4, <2>1 DEF FilesWell
    <1> QED BY <1>2, <1>3, <1>4 DEF FilesWell

\* No growth row is written, and what is filed counts nothing ahead.
LEMMA HistoryWalks ==
    ASSUME HistoryInv, Met!TypeOK', day <= day', UNCHANGED <<growth, shadowed>>,
           \A d \in Met!Days : counted[d] <= counted'[d], counted[day] <= counted'[day'],
           CountGoesOn', Met!NothingAhead',
           \A t \in Slots : call'[t] = call[t] \/ (MergesWell(call[t])' /\ FilesWell(call[t])')
    PROVE  HistoryInv'
    <1>1. /\ day \in Met!Days /\ day' \in Met!Days /\ day \in Nat /\ day' \in Nat
          /\ \A d \in Met!Days : counted[d] \in Nat /\ counted'[d] \in Nat
        BY HistoryTyped, HistoryBounds DEF HistoryInv, Met!TypeOK
    <1>2. ASSUME NEW t \in Slots PROVE MergesWell(call[t])' /\ FilesWell(call[t])'
        <2>1. CASE call'[t] = call[t]
            <3> PICK c : c = call[t]
                OBVIOUS
            <3>1. c \in HistoryRequest /\ MergesWell(c) /\ FilesWell(c)
                BY HistoryTyped DEF HistoryInv
            <3>2. c.pc = "sync.merge" => c.on \in Nat
                BY <3>1, HistoryShape, HistoryBounds
            <3>3. MergesWell(c)'
                BY <1>1, <3>1, <3>2, MergeKept
            <3>4. FilesWell(c)'
                BY <1>1, <3>1, FileKept
            <3>5. call'[t] = c
                BY <2>1
            <3> QED BY <3>3, <3>4, <3>5
        <2> QED BY <2>1, <1>2
    <1>3. Chained'
        BY DEF HistoryInv, Chained, Met!Filed
    <1>4. RowsPast'
        <2>1. \A d \in Met!Filed(growth) : d \in Nat /\ d <= day
            BY HistoryTyped, HistoryBounds DEF HistoryInv, RowsPast
        <2> QED BY <1>1, <2>1 DEF RowsPast, Met!Filed
    <1> QED BY <1>2, <1>3, <1>4 DEF HistoryInv

LEMMA HistoryCallMoves ==
    ASSUME Met!TypeOK, NEW s \in Slots, NEW c \in HistoryRequest, call' = [call EXCEPT ![s] = c]
    PROVE  /\ call' \in [Slots -> Met!Track \cup Met!Collect \cup {Met!Idle}]
           /\ call'[s] = c /\ \A t \in Slots \ {s} : call'[t] = call[t]
    BY DEF Met!TypeOK, HistoryRequest

LEMMA HistoryCounts ==
    ASSUME Met!TypeOK
    PROVE  /\ Met!Counters' = Met!Counters =>
                  calls' \in 0..AreaCalls["history"] /\ faults' \in 0..AreaFaults["history"]
           /\ calls < AreaCalls["history"] /\ calls' = calls + 1 /\ faults' = faults =>
                  calls' \in 0..AreaCalls["history"] /\ faults' \in 0..AreaFaults["history"]
           /\ faults < AreaFaults["history"] /\ faults' = faults + 1 /\ calls' = calls =>
                  calls' \in 0..AreaCalls["history"] /\ faults' \in 0..AreaFaults["history"]
    BY HistoryBounds DEF Met!TypeOK, Met!Counters

\* One sync goes on, and no row is written.
LEMMA SyncGoesOn ==
    ASSUME HistoryInv, NEW s \in Slots, NEW c \in HistoryRequest, call' = [call EXCEPT ![s] = c],
           UNCHANGED <<day, followers, counted, growth, shadowed>>,
           metrics' \in [Met!Days -> Met!Views \cup {Met!NoRow}], Met!NothingAhead',
           calls' \in 0..AreaCalls["history"] /\ faults' \in 0..AreaFaults["history"],
           MergesWell(c), FilesWell(c)
    PROVE  HistoryInv'
    <1>1. /\ call' \in [Slots -> Met!Track \cup Met!Collect \cup {Met!Idle}]
          /\ call'[s] = c /\ \A t \in Slots \ {s} : call'[t] = call[t]
        BY HistoryCallMoves DEF HistoryInv
    <1>2. Met!TypeOK'
        BY <1>1 DEF HistoryInv, Met!TypeOK
    <1>3. MergesWell(call[s])' /\ FilesWell(call[s])'
        <2>1. MergesWell(c)' /\ FilesWell(c)'
            BY DEF MergesWell, FilesWell, Met!Filed
        <2> QED BY <1>1, <2>1
    <1>4. /\ \A d \in Met!Days : counted[d] <= counted'[d]
          /\ counted[day] <= counted'[day'] /\ day <= day'
        BY HistoryTyped DEF HistoryInv
    <1>5. CountGoesOn'
        BY DEF HistoryInv, CountGoesOn
    <1> QED BY <1>1, <1>2, <1>3, <1>4, <1>5, HistoryWalks

\* ... likewise, when no row is written at all.
LEMMA SyncReads ==
    ASSUME HistoryInv, NEW s \in Slots, NEW c \in HistoryRequest, call' = [call EXCEPT ![s] = c],
           UNCHANGED <<day, followers, counted, growth, shadowed, metrics>>,
           Met!Counters' = Met!Counters, MergesWell(c), FilesWell(c)
    PROVE  HistoryInv'
    <1>1. metrics' \in [Met!Days -> Met!Views \cup {Met!NoRow}] /\ Met!NothingAhead'
        BY DEF HistoryInv, Met!TypeOK, Met!NothingAhead, Met!Filed
    <1>2. calls' \in 0..AreaCalls["history"] /\ faults' \in 0..AreaFaults["history"]
        BY HistoryCounts DEF HistoryInv
    <1> QED BY <1>1, <1>2, SyncGoesOn

LEMMA SyncBegins ==
    ASSUME HistoryInv, NEW s \in Slots, Met!SyncContent(s) \/ Met!NoDetails(s) \/ Met!SyncFails(s)
    PROVE  HistoryInv'
    <1>1. /\ UNCHANGED <<day, followers, counted, growth, shadowed, metrics>>
          /\ metrics' \in [Met!Days -> Met!Views \cup {Met!NoRow}] /\ Met!NothingAhead'
        BY DEF Met!SyncContent, Met!NoDetails, Met!SyncFails, Met!World, Met!GrowthState,
               HistoryInv, Met!TypeOK, Met!NothingAhead, Met!Filed
    <1>2. calls' \in 0..AreaCalls["history"] /\ faults' \in 0..AreaFaults["history"]
        BY HistoryCounts DEF HistoryInv, Met!SyncContent, Met!NoDetails, Met!SyncFails
    <1>3. CASE Met!SyncContent(s)
        <2> PICK c : c = [pc |-> "sync.growth", count |-> followers, start |-> 0, on |-> 1, missed |-> FALSE]
            OBVIOUS
        <2>1. followers \in Met!Counts /\ 0 \in Met!Counts /\ 1 \in Met!Days
            BY HistoryBounds DEF HistoryInv, Met!TypeOK, Met!Counts, Met!Days
        <2>2. c \in HistoryRequest /\ MergesWell(c) /\ FilesWell(c)
            BY <2>1 DEF HistoryRequest, Met!Track, MergesWell, FilesWell
        <2>3. call' = [call EXCEPT ![s] = c]
            BY <1>3 DEF Met!SyncContent
        <2> QED BY <1>1, <1>2, <2>2, <2>3, SyncGoesOn
    <1>4. CASE Met!NoDetails(s) \/ Met!SyncFails(s)
        <2> PICK c : c = Met!Idle
            OBVIOUS
        <2>1. c \in HistoryRequest /\ MergesWell(c) /\ FilesWell(c)
            BY DEF HistoryRequest, Met!Idle, MergesWell, FilesWell
        <2>2. call' = [call EXCEPT ![s] = c]
            BY <1>4 DEF Met!NoDetails, Met!SyncFails
        <2> QED BY <1>1, <1>2, <2>1, <2>2, SyncGoesOn
    <1> QED BY <1>3, <1>4

LEMMA GrowthTracked ==
    ASSUME HistoryInv, NEW s \in Slots, Met!TrackFollowerGrowth(s)
    PROVE  HistoryInv'
    <1>t. /\ day \in Met!Days /\ call[s] \in HistoryRequest
        BY HistoryTyped DEF HistoryInv
    <1> PICK start : start = IF Met!Filed(growth) = {} THEN call[s].count ELSE growth[Met!Latest(Met!Filed(growth))].end
        OBVIOUS
    <1> PICK c : c = [[[call[s] EXCEPT !.pc = "sync.merge"] EXCEPT !.on = day] EXCEPT !.start = start]
        OBVIOUS
    <1>1. /\ call[s].pc = "sync.growth" /\ call' = [call EXCEPT ![s] = c]
          /\ UNCHANGED <<day, followers, counted, growth, shadowed, metrics>> /\ Met!Counters' = Met!Counters
        BY DEF Met!TrackFollowerGrowth, Met!At, Met!World, Met!GrowthState
    <1>3. /\ start \in Met!Counts
          /\ \A d \in Met!Filed(growth) : (\A e \in Met!Filed(growth) : e <= d) => start = growth[d].end
        <3>1. CASE Met!Filed(growth) = {}
            BY <1>t, <1>1, <3>1, HistoryShape
        <3>2. CASE Met!Filed(growth) # {}
            <4> PICK L : L = Met!Latest(Met!Filed(growth))
                OBVIOUS
            <4>1. L \in Met!Filed(growth) /\ \A e \in Met!Filed(growth) : e <= L
                BY <3>2, LatestDay, HistoryTyped DEF HistoryInv
            <4>2. \A d \in Met!Filed(growth) : d \in Nat
                BY HistoryTyped, HistoryBounds DEF HistoryInv
            <4>3. growth[L] \in Met!Growth /\ start = growth[L].end
                BY <3>2, <4>1, HistoryTyped DEF HistoryInv, Met!Filed
            <4>4. start \in Met!Counts
                BY <4>3 DEF Met!Growth
            <4>5. ASSUME NEW d \in Met!Filed(growth), \A e \in Met!Filed(growth) : e <= d PROVE d = L
                BY <4>1, <4>2, <4>5
            <4> QED BY <4>3, <4>4, <4>5
        <3> QED BY <3>1, <3>2
    <1>4. /\ c \in Met!Track /\ c.pc = "sync.merge" /\ c.on = day /\ c.start = start
        BY <1>t, <1>1, <1>3, HistoryShape DEF Met!Track
    <1>5. MergesWell(c)
        <2>1. \A d \in Met!Filed(growth) : d <= day
            BY DEF HistoryInv, RowsPast
        <2>2. day <= day
            BY HistoryTyped DEF HistoryInv
        <2> QED BY <1>3, <1>4, <2>1, <2>2 DEF MergesWell
    <1>6. FilesWell(c)
        BY <1>4 DEF FilesWell
    <1> QED BY <1>1, <1>4, <1>5, <1>6, SyncReads DEF HistoryRequest

\* The platform answers, and the date is taken.
LEMMA ViewsRead ==
    ASSUME HistoryInv, NEW s \in Slots,
           Met!FetchContent(s) \/ Met!ContentSaved(s) \/ Met!FetchContentMetrics(s)
    PROVE  HistoryInv'
    <1>t. /\ day \in Met!Days /\ day <= day /\ 1 \in Met!Days /\ call[s] \in HistoryRequest /\ FilesWell(call[s])
          /\ counted[day] \in Nat /\ \A v \in Met!Answers : v \in 0..MaxViews /\ v <= counted[day]
        BY HistoryTyped, HistoryBounds DEF HistoryInv, Met!Days, Met!Answers
    <1>1. UNCHANGED <<day, followers, counted, growth, shadowed, metrics>> /\ Met!Counters' = Met!Counters
        BY DEF Met!FetchContent, Met!ContentSaved, Met!FetchContentMetrics, Met!World, Met!GrowthState
    <1>2. CASE Met!FetchContent(s)
        <2> PICK v \in Met!Answers : call' = [call EXCEPT ![s] = [pc |-> "sync.content", views |-> v, on |-> 1]]
            BY <1>2 DEF Met!FetchContent
        <2> PICK c : c = [pc |-> "sync.content", views |-> v, on |-> 1]
            OBVIOUS
        <2>1. c \in HistoryRequest /\ MergesWell(c) /\ FilesWell(c)
            BY <1>t DEF HistoryRequest, Met!Collect, MergesWell, FilesWell
        <2> QED BY <1>1, <2>1, SyncReads
    <1>3. CASE Met!ContentSaved(s)
        <2> PICK pc \in {"sync.snapshot", "sync.details"} :
                    call' = [call EXCEPT ![s] = [[call[s] EXCEPT !.pc = pc] EXCEPT !.on = day]]
            BY <1>3 DEF Met!ContentSaved
        <2> PICK c : c = [[call[s] EXCEPT !.pc = pc] EXCEPT !.on = day]
            OBVIOUS
        <2>1. call[s].pc = "sync.content"
            BY <1>3 DEF Met!ContentSaved, Met!At
        <2>2. c \in Met!Collect /\ c.pc = pc /\ c.on = day /\ c.views = call[s].views
            BY <1>t, <2>1, HistoryShape DEF Met!Collect
        <2>3. call[s].views <= counted[day]
            BY <1>t, <2>1 DEF FilesWell
        <2>4. c \in HistoryRequest /\ MergesWell(c) /\ FilesWell(c)
            BY <1>t, <2>2, <2>3 DEF HistoryRequest, MergesWell, FilesWell
        <2> QED BY <1>1, <2>4, SyncReads
    <1>4. CASE Met!FetchContentMetrics(s)
        <2> PICK v \in Met!Answers : call' = [call EXCEPT ![s] = [pc |-> "sync.detailed", views |-> v, on |-> day]]
            BY <1>4 DEF Met!FetchContentMetrics
        <2> PICK c : c = [pc |-> "sync.detailed", views |-> v, on |-> day]
            OBVIOUS
        <2>1. c \in HistoryRequest /\ MergesWell(c) /\ FilesWell(c)
            BY <1>t DEF HistoryRequest, Met!Collect, MergesWell, FilesWell
        <2> QED BY <1>1, <2>1, SyncReads
    <1> QED BY <1>2, <1>3, <1>4

\* Days, followers and views come by themselves.
LEMMA WorldGoesOn ==
    ASSUME HistoryInv, Met!Tomorrow \/ Met!Reconnect \/ Met!Watch \/ UNCHANGED Met!vars
    PROVE  HistoryInv'
    <1>t. /\ day \in Nat /\ day \in Met!Days /\ 1 <= day /\ \A d \in Met!Days : counted[d] \in Nat /\ d \in Nat
        BY HistoryTyped, HistoryBounds DEF HistoryInv
    <1>1. UNCHANGED <<growth, shadowed, metrics, call, calls, faults>>
        BY DEF Met!Tomorrow, Met!Reconnect, Met!Watch, Met!vars, Met!GrowthState, Met!Counters
    <1>2. day' \in Met!Days /\ day <= day'
        <2>1. day' = day \/ (day < MaxDay /\ day' = day + 1)
            BY DEF Met!Tomorrow, Met!Reconnect, Met!Watch, Met!vars
        <2> QED BY <1>t, <2>1, HistoryBounds DEF Met!Days
    <1>3. followers' \in Met!Counts
        BY DEF Met!Tomorrow, Met!Reconnect, Met!Watch, Met!vars, HistoryInv, Met!TypeOK
    <1>4. /\ counted' \in [Met!Days -> 0..MaxViews] /\ \A d \in Met!Days : counted[d] <= counted'[d]
          /\ counted[day] <= counted'[day'] /\ CountGoesOn'
        <2>1. CASE counted' = counted
            <3>1. counted'[day'] = counted[day]
                BY <1>2, <2>1 DEF HistoryInv, CountGoesOn
            <3>2. ASSUME NEW d \in Met!Days, day' <= d PROVE counted'[d] = counted'[day']
                <4>1. day <= d
                    BY <1>t, <1>2, <3>2
                <4> QED BY <2>1, <3>1, <4>1 DEF HistoryInv, CountGoesOn
            <3>3. CountGoesOn'
                BY <3>2 DEF CountGoesOn
            <3> QED BY <1>t, <2>1, <3>1, <3>3 DEF HistoryInv, Met!TypeOK
        <2>2. CASE Met!Watch
            <3>1. /\ counted[day] < MaxViews /\ day' = day
                  /\ counted' = [d \in Met!Days |-> IF d < day THEN counted[d] ELSE counted[day] + 1]
                BY <2>2 DEF Met!Watch
            <3>2. \A d \in Met!Days : day <= d => counted[d] = counted[day]
                BY DEF HistoryInv, CountGoesOn
            <3>3. \A d \in Met!Days : counted[d] \in 0..MaxViews
                BY HistoryTyped DEF HistoryInv
            <3>4. \A d \in Met!Days : /\ d < day => counted'[d] = counted[d]
                                      /\ day <= d => counted'[d] = counted[day] + 1
                BY <1>t, <3>1
            <3>5. ASSUME NEW d \in Met!Days PROVE counted'[d] \in 0..MaxViews /\ counted[d] <= counted'[d]
                <4>1. CASE d < day
                    BY <1>t, <3>3, <3>4, <4>1
                <4>2. CASE day <= d
                    BY <1>t, <3>1, <3>2, <3>4, <4>2, HistoryBounds
                <4> QED BY <1>t, <4>1, <4>2
            <3>6. counted' \in [Met!Days -> 0..MaxViews]
                BY <3>1, <3>5
            <3>7. CountGoesOn'
                BY <1>t, <3>1, <3>4 DEF CountGoesOn
            <3> QED BY <1>t, <3>1, <3>5, <3>6, <3>7
        <2> QED BY <2>1, <2>2 DEF Met!Tomorrow, Met!Reconnect, Met!vars
    <1>5. Met!TypeOK'
        BY <1>1, <1>2, <1>3, <1>4 DEF HistoryInv, Met!TypeOK
    <1>6. Met!NothingAhead'
        <2> SUFFICES ASSUME NEW d \in Met!Filed(metrics)
                     PROVE  d <= day' /\ (metrics[d].from = "sync" => metrics[d].views <= counted'[d])
            BY <1>1 DEF Met!NothingAhead, Met!Filed
        <2>1. d \in Met!Days /\ d \in Nat /\ metrics[d].views \in Nat /\ counted[d] \in Nat /\ counted'[d] \in Nat
              /\ day' \in Nat
            BY <1>2, <1>5, HistoryTyped, HistoryBounds DEF HistoryInv, Met!Filed, Met!TypeOK
        <2>2. d <= day /\ (metrics[d].from = "sync" => metrics[d].views <= counted[d])
            BY DEF HistoryInv, Met!NothingAhead
        <2>3. counted[d] <= counted'[d]
            BY <1>4, <2>1
        <2> QED BY <1>t, <1>2, <2>1, <2>2, <2>3
    <1> QED BY <1>1, <1>2, <1>4, <1>5, <1>6, HistoryWalks

-----------------------------------------------------------------------------
\* Who has read the growth hears of a merge.
LEMMA MergeNoticed ==
    ASSUME Met!TypeOK, NEW s \in Slots, NEW c \in HistoryRequest,
           call' = [t \in Slots |-> IF t = s THEN c
                                    ELSE IF Met!At(t, "sync.merge") THEN [call[t] EXCEPT !.missed = TRUE]
                                    ELSE call[t]]
    PROVE  /\ call' \in [Slots -> Met!Track \cup Met!Collect \cup {Met!Idle}]
           /\ call'[s] = c
           /\ \A t \in Slots \ {s} :
                  /\ call[t].pc # "sync.merge" => call'[t] = call[t]
                  /\ call[t].pc = "sync.merge" =>
                         call'[t].pc = call[t].pc /\ call'[t].on = call[t].on /\ call'[t].missed = TRUE
    <1>1. ASSUME NEW t \in Slots, call[t].pc = "sync.merge"
          PROVE  /\ [call[t] EXCEPT !.missed = TRUE] \in HistoryRequest
                 /\ [call[t] EXCEPT !.missed = TRUE].pc = call[t].pc /\ [call[t] EXCEPT !.missed = TRUE].on = call[t].on
                 /\ [call[t] EXCEPT !.missed = TRUE].missed = TRUE
        <2>1. call[t] \in Met!Track
            BY <1>1, HistoryTyped, HistoryShape
        <2> QED BY <2>1 DEF Met!Track, HistoryRequest
    <1>2. \A t \in Slots : call[t] \in HistoryRequest
        BY HistoryTyped
    <1>3. call' \in [Slots -> HistoryRequest]
        BY <1>1, <1>2 DEF Met!At
    <1> QED BY <1>1, <1>3 DEF HistoryRequest, Met!At

LEMMA ResetShape ==
    ASSUME NEW pc \in {"sync.fetch", "sync.details", "sync.daily"}, 1 <= day
    PROVE  /\ Met!Reset(pc) \in HistoryRequest /\ Met!Reset(pc).pc = pc
           /\ MergesWell(Met!Reset(pc)) /\ FilesWell(Met!Reset(pc))
    BY HistoryBounds DEF Met!Reset, HistoryRequest, Met!Collect, MergesWell, FilesWell, Met!Days

LEMMA GrowthMerged ==
    ASSUME HistoryInv, NEW s \in Slots, Met!MergeGrowth(s)
    PROVE  HistoryInv'
    <1> PICK c : c = call[s]
        OBVIOUS
    <1> PICK n : n = Met!Reset("sync.fetch")
        OBVIOUS
    <1>t. /\ day \in Nat /\ 1 <= day /\ c \in HistoryRequest /\ MergesWell(c) /\ c.pc = "sync.merge"
          /\ c.on \in Met!Days /\ c.on \in Nat /\ c.count \in Met!Counts /\ c.start \in Met!Counts /\ c.on <= day
          /\ n \in HistoryRequest /\ n.pc = "sync.fetch"
        <2>1. c.pc = "sync.merge"
            BY DEF Met!MergeGrowth, Met!At
        <2> QED BY <2>1, HistoryTyped, HistoryShape, HistoryBounds, ResetShape DEF HistoryInv, MergesWell
    <1>1. /\ growth' = [growth EXCEPT ![c.on] = IF growth[c.on] = Met!NoRow
                                                THEN [from |-> "sync", start |-> c.start, end |-> c.count]
                                                ELSE [growth[c.on] EXCEPT !.end = c.count]]
          /\ shadowed' = IF c.missed THEN shadowed \cup {c.on} ELSE shadowed
          /\ call' = [t \in Slots |-> IF t = s THEN n
                                      ELSE IF Met!At(t, "sync.merge") THEN [call[t] EXCEPT !.missed = TRUE]
                                      ELSE call[t]]
          /\ UNCHANGED <<day, followers, counted, metrics, calls, faults>>
        BY DEF Met!MergeGrowth, Met!World, Met!Counters
    <1>2. /\ call' \in [Slots -> Met!Track \cup Met!Collect \cup {Met!Idle}]
          /\ call'[s] = n
          /\ \A t \in Slots \ {s} :
                 /\ call[t].pc # "sync.merge" => call'[t] = call[t]
                 /\ call[t].pc = "sync.merge" =>
                        call'[t].pc = call[t].pc /\ call'[t].on = call[t].on /\ call'[t].missed = TRUE
        <2>1. Met!TypeOK /\ n \in HistoryRequest
            BY <1>t DEF HistoryInv
        <2> QED BY <1>1, <2>1, MergeNoticed
    <1>3. /\ growth'[c.on] \in Met!Growth /\ growth'[c.on].end = c.count
          /\ growth[c.on] = Met!NoRow => growth'[c.on].start = c.start
          /\ growth[c.on] # Met!NoRow => growth'[c.on].start = growth[c.on].start
          /\ \A d \in Met!Days \ {c.on} : growth'[d] = growth[d]
          /\ growth' \in [Met!Days -> Met!Growth \cup {Met!NoRow}]
        <2>1. growth \in [Met!Days -> Met!Growth \cup {Met!NoRow}]
            BY DEF HistoryInv, Met!TypeOK
        <2>2. /\ growth'[c.on] = (IF growth[c.on] = Met!NoRow
                                  THEN [from |-> "sync", start |-> c.start, end |-> c.count]
                                  ELSE [growth[c.on] EXCEPT !.end = c.count])
              /\ \A d \in Met!Days \ {c.on} : growth'[d] = growth[d]
            BY <1>t, <1>1, <2>1
        <2>3. CASE growth[c.on] = Met!NoRow
            <3>1. growth'[c.on] = [from |-> "sync", start |-> c.start, end |-> c.count]
                BY <2>2, <2>3
            <3>2. growth'[c.on] \in Met!Growth /\ growth'[c.on].end = c.count /\ growth'[c.on].start = c.start
                BY <1>t, <3>1 DEF Met!Growth
            <3> QED BY <1>t, <1>1, <2>1, <2>2, <2>3, <3>2
        <2>4. CASE growth[c.on] # Met!NoRow
            <3>1. growth[c.on] \in Met!Growth
                BY <1>t, <2>1, <2>4
            <3>2. growth'[c.on] = [growth[c.on] EXCEPT !.end = c.count]
                BY <2>2, <2>4
            <3>3. growth'[c.on] \in Met!Growth /\ growth'[c.on].end = c.count /\ growth'[c.on].start = growth[c.on].start
                BY <1>t, <3>1, <3>2 DEF Met!Growth
            <3> QED BY <1>t, <1>1, <2>1, <2>2, <2>4, <3>3
        <2> QED BY <2>3, <2>4
    <1>4. /\ Met!Filed(growth)' = Met!Filed(growth) \cup {c.on}
          /\ \A d \in Met!Filed(growth) : d \in Nat
        <2>1. growth'[c.on] # Met!NoRow
            BY <1>3 DEF Met!Growth, Met!NoRow
        <2> QED BY <1>t, <1>3, <2>1, HistoryBounds DEF Met!Filed
    <1>5. Met!TypeOK'
        <2>1. shadowed' \subseteq Met!Days
            BY <1>t, <1>1 DEF HistoryInv, Met!TypeOK
        <2>2. calls' \in 0..AreaCalls["history"] /\ faults' \in 0..AreaFaults["history"]
            BY <1>1 DEF HistoryInv, Met!TypeOK
        <2> QED BY <1>1, <1>2, <1>3, <2>1, <2>2 DEF HistoryInv, Met!TypeOK
    <1>6. RowsPast' /\ CountGoesOn'
        BY <1>t, <1>1, <1>4 DEF HistoryInv, RowsPast, CountGoesOn
    <1>7. ASSUME NEW t \in Slots PROVE MergesWell(call[t])' /\ FilesWell(call[t])'
        <2>1. CASE t = s
            <3>1. FilesWell(n)' /\ MergesWell(n)'
                BY <1>t DEF MergesWell, FilesWell
            <3> QED BY <1>2, <2>1, <3>1
        <2>2. CASE t # s /\ call[t].pc = "sync.merge"
            <3>1. call'[t].pc = "sync.merge" /\ call'[t].on <= day' /\ call'[t].missed
                BY <1>1, <1>2, <2>2 DEF HistoryInv, MergesWell
            <3> QED BY <3>1 DEF MergesWell, FilesWell
        <2>3. CASE t # s /\ call[t].pc # "sync.merge"
            <3> PICK d : d = call[t]
                OBVIOUS
            <3>1. call'[t] = d /\ d.pc # "sync.merge" /\ FilesWell(d)
                BY <1>2, <2>3 DEF HistoryInv
            <3>2. FilesWell(d)' /\ MergesWell(d)'
                BY <1>1, <3>1 DEF FilesWell, MergesWell
            <3> QED BY <3>1, <3>2
        <2> QED BY <2>1, <2>2, <2>3
    <1>8. Met!NothingAhead'
        BY <1>1 DEF HistoryInv, Met!NothingAhead, Met!Filed
    <1>9. Chained'
        <2> SUFFICES ASSUME NEW b \in Met!Filed(growth)', NEW d \in Met!Filed(growth)', b < d,
                            \A e \in Met!Filed(growth)' : e < d => e <= b
                     PROVE  growth'[d].start = growth'[b].end \/ {d, b} \cap shadowed' # {}
            BY DEF Chained
        <2>n. b \in Nat /\ d \in Nat /\ b \in Met!Days /\ d \in Met!Days
            BY <1>t, <1>4, HistoryTyped DEF HistoryInv
        <2>1. CASE c.missed /\ (d = c.on \/ b = c.on)
            BY <1>1, <2>1
        <2>2. CASE c.on \notin {b, d}
            <3>1. /\ b \in Met!Filed(growth) /\ d \in Met!Filed(growth) /\ growth'[d] = growth[d] /\ growth'[b] = growth[b]
                  /\ \A e \in Met!Filed(growth) : e < d => e <= b
                BY <1>3, <1>4, <2>n, <2>2
            <3>2. growth[d].start = growth[b].end \/ {d, b} \cap shadowed # {}
                BY <3>1 DEF HistoryInv, Chained
            <3> QED BY <1>1, <3>1, <3>2
        <2>3. CASE ~c.missed /\ b = c.on
            <3>1. d \in Met!Filed(growth) /\ d <= c.on
                BY <1>t, <1>4, <2>n, <2>3 DEF MergesWell
            <3> QED BY <2>n, <2>3, <3>1
        <2>4. CASE ~c.missed /\ d = c.on
            <3>1. b \in Met!Filed(growth) /\ growth'[b] = growth[b]
                BY <1>3, <1>4, <2>n, <2>4
            <3>2. CASE growth[c.on] = Met!NoRow
                <4>1. \A e \in Met!Filed(growth) : e < d
                    <5>1. \A e \in Met!Filed(growth) : e <= d /\ e # d /\ e \in Nat
                        BY <1>t, <1>4, <2>4, <3>2 DEF MergesWell, Met!Filed
                    <5> QED BY <2>n, <5>1
                <4>2. \A e \in Met!Filed(growth) : e <= b
                    BY <1>4, <4>1
                <4>3. c.start = growth[b].end
                    BY <1>t, <2>4, <3>1, <4>2 DEF MergesWell
                <4> QED BY <1>3, <2>4, <3>1, <3>2, <4>3
            <3>3. CASE growth[c.on] # Met!NoRow
                <4>1. d \in Met!Filed(growth) /\ \A e \in Met!Filed(growth) : e < d => e <= b
                    BY <1>t, <1>4, <2>4, <3>3 DEF Met!Filed
                <4>2. growth[d].start = growth[b].end \/ {d, b} \cap shadowed # {}
                    BY <3>1, <4>1 DEF HistoryInv, Chained
                <4> QED BY <1>1, <1>3, <2>4, <3>1, <3>3, <4>2
            <3> QED BY <3>2, <3>3
        <2> QED BY <2>1, <2>2, <2>3, <2>4
    <1> QED BY <1>5, <1>6, <1>7, <1>8, <1>9 DEF HistoryInv

\* Views are filed.
LEMMA ViewsFiled ==
    ASSUME HistoryInv, NEW s \in Slots, Met!SaveDailySnapshot(s) \/ Met!SaveDetails(s)
    PROVE  HistoryInv'
    <1> PICK c : c = call[s]
        OBVIOUS
    <1>t. /\ 1 <= day /\ c \in HistoryRequest /\ FilesWell(c) /\ c.pc \in {"sync.snapshot", "sync.detailed"}
        BY HistoryTyped DEF HistoryInv, Met!SaveDailySnapshot, Met!SaveDetails, Met!At
    <1>i. /\ Met!Idle \in HistoryRequest /\ Met!Idle.pc = "idle" /\ MergesWell(Met!Idle) /\ FilesWell(Met!Idle)
        BY DEF HistoryRequest, Met!Idle, MergesWell, FilesWell
    <1> PICK n \in {Met!Idle, Met!Reset("sync.details"), Met!Reset("sync.daily")} :
              call' = [call EXCEPT ![s] = n]
        BY DEF Met!SaveDailySnapshot, Met!SaveDetails
    <1>1. n \in HistoryRequest /\ MergesWell(n) /\ FilesWell(n)
        BY <1>t, <1>i, ResetShape
    <1>2. /\ UNCHANGED <<day, followers, counted, growth, shadowed, calls, faults>>
          /\ metrics' = [metrics EXCEPT ![c.on] = [from |-> "sync", views |-> c.views]]
        BY DEF Met!SaveDailySnapshot, Met!SaveDetails, Met!World, Met!GrowthState, Met!Counters
    <1>3. /\ c.on \in Met!Days /\ c.views \in 0..MaxViews /\ c.on <= day /\ c.views <= counted[c.on]
        BY <1>t, HistoryShape DEF FilesWell
    <1> PICK r : r = [from |-> "sync", views |-> c.views]
        OBVIOUS
    <1>4. /\ metrics' \in [Met!Days -> Met!Views \cup {Met!NoRow}]
          /\ metrics'[c.on] = r /\ r.views = c.views /\ \A d \in Met!Days \ {c.on} : metrics'[d] = metrics[d]
        BY <1>2, <1>3 DEF Met!Views, HistoryInv, Met!TypeOK
    <1>5. Met!NothingAhead'
        BY <1>2, <1>3, <1>4 DEF HistoryInv, Met!NothingAhead, Met!Filed
    <1>6. calls' \in 0..AreaCalls["history"] /\ faults' \in 0..AreaFaults["history"]
        BY <1>2 DEF HistoryInv, Met!TypeOK
    <1> QED BY <1>1, <1>2, <1>4, <1>5, <1>6, SyncGoesOn

\* What was counted on a day takes the place of the total.
LEMMA AnalyticsFiled ==
    ASSUME HistoryInv, NEW s \in Slots, Met!SaveDailyAnalytics(s)
    PROVE  HistoryInv'
    <1> PICK c : c = call[s]
        OBVIOUS
    <1>t. /\ day \in Nat /\ day <= MaxDay /\ c \in HistoryRequest /\ c.pc = "sync.daily"
          /\ c \in Met!Collect /\ c.on \in Met!Days /\ c.on \in Nat /\ 1 <= c.on /\ c.on <= day
        <2>1. c.pc = "sync.daily"
            BY DEF Met!SaveDailyAnalytics, Met!At
        <2> QED BY <2>1, HistoryTyped, HistoryShape, HistoryBounds DEF HistoryInv, FilesWell
    <1>1. /\ (\E v \in Met!Answers : metrics' = [metrics EXCEPT ![c.on] = [from |-> "daily", views |-> v]])
             \/ metrics' = metrics
          /\ (c.on < day /\ call' = [call EXCEPT ![s] = [c EXCEPT !.on = c.on + 1]])
             \/ call' = [call EXCEPT ![s] = Met!Idle]
          /\ UNCHANGED <<day, followers, counted, growth, shadowed, calls, faults>>
        BY DEF Met!SaveDailyAnalytics, Met!World, Met!GrowthState, Met!Counters
    <1>2. PICK n \in HistoryRequest : call' = [call EXCEPT ![s] = n] /\ MergesWell(n) /\ FilesWell(n)
        <2>1. CASE c.on < day /\ call' = [call EXCEPT ![s] = [c EXCEPT !.on = c.on + 1]]
            <3> PICK n : n = [c EXCEPT !.on = c.on + 1]
                OBVIOUS
            <3>1. c.on + 1 \in Met!Days /\ c.on + 1 <= day
                BY <1>t, <2>1, HistoryBounds DEF Met!Days
            <3>2. n \in Met!Collect /\ n.pc = "sync.daily" /\ n.on <= day
                BY <1>t, <3>1 DEF Met!Collect
            <3> QED BY <2>1, <3>2 DEF HistoryRequest, MergesWell, FilesWell
        <2>2. CASE call' = [call EXCEPT ![s] = Met!Idle]
            <3> PICK n : n = Met!Idle
                OBVIOUS
            <3>1. n \in HistoryRequest /\ MergesWell(n) /\ FilesWell(n)
                BY DEF HistoryRequest, Met!Idle, MergesWell, FilesWell
            <3> QED BY <2>2, <3>1
        <2> QED BY <1>1, <2>1, <2>2
    <1>3. metrics' \in [Met!Days -> Met!Views \cup {Met!NoRow}] /\ Met!NothingAhead'
        <2>1. CASE metrics' = metrics
            BY <1>1, <2>1 DEF HistoryInv, Met!TypeOK, Met!NothingAhead, Met!Filed
        <2>2. ASSUME NEW v \in Met!Answers, metrics' = [metrics EXCEPT ![c.on] = [from |-> "daily", views |-> v]]
              PROVE  metrics' \in [Met!Days -> Met!Views \cup {Met!NoRow}] /\ Met!NothingAhead'
            <3> PICK r : r = [from |-> "daily", views |-> v]
                OBVIOUS
            <3>1. v \in 0..MaxViews
                BY HistoryTyped, HistoryBounds DEF HistoryInv, Met!Answers
            <3>2. r \in Met!Views /\ r.from = "daily"
                BY <3>1 DEF Met!Views
            <3>3. /\ metrics' \in [Met!Days -> Met!Views \cup {Met!NoRow}]
                  /\ metrics'[c.on] = r /\ \A d \in Met!Days \ {c.on} : metrics'[d] = metrics[d]
                BY <1>t, <2>2, <3>2 DEF HistoryInv, Met!TypeOK
            <3> QED BY <1>t, <1>1, <3>2, <3>3 DEF HistoryInv, Met!NothingAhead, Met!Filed
        <2> QED BY <1>1, <2>1, <2>2
    <1>4. calls' \in 0..AreaCalls["history"] /\ faults' \in 0..AreaFaults["history"]
        BY <1>1 DEF HistoryInv, Met!TypeOK
    <1> QED BY <1>1, <1>2, <1>3, <1>4, SyncGoesOn

LEMMA HistoryStep == HistoryInv /\ [Met!Next]_(Met!vars) => HistoryInv'
    <1> SUFFICES ASSUME HistoryInv, [Met!Next]_(Met!vars) PROVE HistoryInv'
        OBVIOUS
    <1>1. ASSUME NEW s \in Slots, Met!SyncContent(s) \/ Met!NoDetails(s) \/ Met!SyncFails(s) PROVE HistoryInv'
        BY <1>1, SyncBegins
    <1>2. ASSUME NEW s \in Slots, Met!TrackFollowerGrowth(s) PROVE HistoryInv'
        BY <1>2, GrowthTracked
    <1>3. ASSUME NEW s \in Slots, Met!MergeGrowth(s) PROVE HistoryInv'
        BY <1>3, GrowthMerged
    <1>4. ASSUME NEW s \in Slots, Met!FetchContent(s) \/ Met!ContentSaved(s) \/ Met!FetchContentMetrics(s)
          PROVE  HistoryInv'
        BY <1>4, ViewsRead
    <1>5. ASSUME NEW s \in Slots, Met!SaveDailySnapshot(s) \/ Met!SaveDetails(s) PROVE HistoryInv'
        BY <1>5, ViewsFiled
    <1>6. ASSUME NEW s \in Slots, Met!SaveDailyAnalytics(s) PROVE HistoryInv'
        BY <1>6, AnalyticsFiled
    <1>7. CASE Met!Tomorrow \/ Met!Reconnect \/ Met!Watch \/ UNCHANGED Met!vars
        BY <1>7, WorldGoesOn
    <1> QED BY <1>1, <1>2, <1>3, <1>4, <1>5, <1>6, <1>7 DEF Met!Next, Met!Step

-----------------------------------------------------------------------------
(* The areas together.                                                     *)

AreasInv ==
    /\ area \in Areas
    /\ area = "codes" => CodesInv
    /\ area = "limits" => LimitsInv
    /\ area = "offers" => OffersInv
    /\ area = "shares" => Shr!TypeOK /\ RootedInv
    /\ area = "events" => EventsInv
    /\ area = "files" => FilesInv
    /\ area = "platforms" => PlatformsInv
    /\ area = "history" => HistoryInv

LEMMA AreasStart == AreasInit => AreasInv
    <1> SUFFICES ASSUME AreasInit PROVE AreasInv
        OBVIOUS
    <1>1. area \in Areas /\ Init /\ Plt!Init /\ Off!Init /\ Fil!Init /\ Lim!Init /\ Evt!Init /\ Met!Init /\ Shr!Init
        BY DEF AreasInit
    <1>2. CodesInv /\ LimitsInv /\ OffersInv
        BY <1>1, CodesStart, LimitsStart, OffersStart
    <1>3. Shr!TypeOK /\ RootedInv /\ EventsInv
        BY <1>1, SharesStart, RootedInit, EventsStart
    <1>4. FilesInv /\ PlatformsInv /\ HistoryInv
        BY <1>1, FilesStart, PlatformsStart, HistoryStart
    <1> QED BY <1>1, <1>2, <1>3, <1>4 DEF AreasInv

\* The area whose requests run takes a step of its own.
LEMMA AreaSteps ==
    ASSUME [AreasNext]_allVars
    PROVE  /\ area' = area
           /\ area = "codes" => [Next]_vars
           /\ area = "limits" => [Lim!Next]_(Lim!vars)
           /\ area = "offers" => [Off!Next]_(Off!vars)
           /\ area = "shares" => [Shr!Next]_(Shr!vars)
           /\ area = "events" => [Evt!Next]_(Evt!vars)
           /\ area = "files" => [Fil!Next]_(Fil!vars)
           /\ area = "platforms" => [Plt!Next]_(Plt!vars)
           /\ area = "history" => [Met!Next]_(Met!vars)
    <1>1. CASE AreasNext
        <2>1. area' = area
            BY <1>1 DEF AreasNext
        <2>2. /\ area = "codes" => Next
              /\ area = "limits" => Lim!Next
              /\ area = "offers" => Off!Next
              /\ area = "shares" => Shr!Next
              /\ area = "events" => Evt!Next
              /\ area = "files" => Fil!Next
              /\ area = "platforms" => Plt!Next
              /\ area = "history" => Met!Next
            BY <1>1 DEF AreasNext
        <2> QED BY <2>1, <2>2
    <1>2. CASE UNCHANGED allVars
        <2>1. UNCHANGED <<area, codes, platforms, offers, files, limits, events, history, shares, call, calls, faults>>
            BY <1>2 DEF allVars
        <2>2. UNCHANGED vars
            BY <2>1 DEF codes, vars
        <2>3. UNCHANGED Lim!vars /\ UNCHANGED Off!vars /\ UNCHANGED Shr!vars
            BY <2>1 DEF limits, Lim!vars, Lim!limits, offers, Off!vars, Off!tables, Off!history, shares, Shr!vars
        <2>4. UNCHANGED Evt!vars /\ UNCHANGED Fil!vars
            BY <2>1 DEF events, Evt!vars, Evt!facets, files, Fil!vars, Fil!storage, Fil!records
        <2>5. UNCHANGED Plt!vars /\ UNCHANGED Met!vars
            BY <2>1 DEF platforms, Plt!vars, Plt!platform, history, Met!vars
        <2> QED BY <2>1, <2>2, <2>3, <2>4, <2>5
    <1> QED BY <1>1, <1>2

LEMMA AreasStep == AreasInv /\ [AreasNext]_allVars => AreasInv'
    <1> SUFFICES ASSUME AreasInv, [AreasNext]_allVars PROVE AreasInv'
        OBVIOUS
    <1>0. area' = area /\ area \in Areas
        BY AreaSteps DEF AreasInv
    <1>1. area = "codes" => CodesInv'
        BY AreaSteps, CodesStep DEF AreasInv
    <1>2. area = "limits" => LimitsInv'
        BY AreaSteps, LimitsStep DEF AreasInv
    <1>3. area = "offers" => OffersInv'
        BY AreaSteps, OffersStep DEF AreasInv
    <1>4. area = "shares" => Shr!TypeOK' /\ RootedInv'
        BY AreaSteps, SharesTyped, RootedStep DEF AreasInv
    <1>5. area = "events" => EventsInv'
        BY AreaSteps, EventsStep DEF AreasInv
    <1>6. area = "files" => FilesInv'
        BY AreaSteps, FilesStep DEF AreasInv
    <1>7. area = "platforms" => PlatformsInv'
        BY AreaSteps, PlatformsStep DEF AreasInv
    <1>8. area = "history" => HistoryInv'
        BY AreaSteps, HistoryStep DEF AreasInv
    <1> QED BY <1>0, <1>1, <1>2, <1>3, <1>4, <1>5, <1>6, <1>7, <1>8 DEF AreasInv

LEMMA AreasAlways == AreasSpec => []AreasInv
    BY AreasStart, AreasStep, PTL DEF AreasSpec

\* PermissionsRooted: every permission was given by an administrator, by the
\* creator, or by somebody who had been given the right to share
\* (checkAccess in front of grantResourcePermission).
THEOREM RootedAlways == Shr!Spec => []Shr!PermissionsRooted
    <1>1. RootedInv => Shr!PermissionsRooted
        BY DEF RootedInv
    <1> QED BY <1>1, RootedInit, RootedStep, PTL DEF Shr!Spec

\* SharingDiesOut: those who have lost the right to share cannot bring it back
\* among themselves (grantResourcePermission, revokeResourcePermission).
THEOREM SharingStaysDead == Shr!Spec => []Shr!SharingDiesOut
    <1>1. RootedInv => Shr!SharingDiesOut
        BY DEF RootedInv
    <1> QED BY <1>1, RootedInit, RootedStep, PTL DEF Shr!Spec

\* With the other areas at rest, too, codes, verifiers and reset tokens keep
\* their types and work once (verifyCode, getCodeVerifier, resetPassword).
THEOREM CodesStaySpent == AreasSpec => []CodesSpentOnce
    <1>1. CodesInv => TypeOK /\ SpentOnce
        BY DEF CodesInv, SpentOnce, AcceptedOnce, HandedOnce, ChangedOnce,
               CodeAcceptedOnce, VerifierOnce, ResetOnce
    <1>2. AreasInv => CodesSpentOnce
        BY <1>1 DEF AreasInv, CodesSpentOnce
    <1> QED BY <1>2, AreasAlways, PTL

\* Unless a request failed or a disconnect met another, an account is active
\* exactly when it has active tokens; the stored refresh token is accepted or
\* about to be replaced, however many requests refresh at once; a campaign tag
\* stays until the next sync; each row of the follower growth starts where the
\* row before it ended, except where a sync filed another between; and no row a
\* sync files counts views of a later day (getValidToken, saveTokens,
\* disconnectAccount, tagContentAsCampaign, trackFollowerGrowth, saveDailySnapshot).
THEOREM PlatformsStayConsistent == AreasSpec => []PlatformsConsistent
    <1>1. AreasInv => PlatformsConsistent
        BY PlatformsHold, HistoryHolds DEF AreasInv, PlatformsConsistent
    <1> QED BY <1>1, AreasAlways, PTL

\* An offer has the plans and cycles it was asked for once its creation is over and
\* until its deletion takes the first row, is applied to no other plan, is kept when
\* it was used and starts before it ends; the usage of a role's limit is the number of invitations since it
\* was cleared; permissions come from those who may give them.  Each but for
\* the failures and overlaps its own definition names (createOffer,
\* applyOfferCode, deleteOffer, updateOffer, incrementRoleLimitUsage,
\* grantResourcePermission).
THEOREM AllowancesStayConsistent == AreasSpec => []AllowancesConsistent
    <1>1. OffersInv =>
              /\ Off!TypeOK
              /\ Off!OfferIsWhole /\ Off!AppliedAsAsked /\ Off!UsedIsKept /\ Off!DatesOrdered
        BY DEF OffersInv
    <1>2. RootedInv => Shr!PermissionsRooted /\ Shr!SharingDiesOut
        BY DEF RootedInv
    <1>3. AreasInv => AllowancesConsistent
        BY <1>1, <1>2, LimitsHold DEF AreasInv, AllowancesConsistent
    <1> QED BY <1>3, AreasAlways, PTL

\* A move loses no file that no other request touches, an attachment has its
\* row or is about to have it, and a key whose deletion was answered holds
\* nothing until it is written again (moveFile, uploadChatAttachment,
\* deleteMultipleFiles, deleteFolder).
THEOREM FilesStayConsistent == AreasSpec => []FilesConsistent
    <1>1. AreasInv => FilesConsistent
        BY DEF AreasInv, FilesInv, FilesConsistent
    <1> QED BY <1>1, AreasAlways, PTL

\* Who follows the events knows the tables: once no event about a facet of the
\* message is on its way, the last one tells what is so, unless events crossed,
\* one was lost, or the change came over HTTP (handleEditMessage and the others
\* of the gateway, broadcastToChannel).
THEOREM EventsStayConsistent == AreasSpec => []EventsConsistent
    <1>1. AreasInv => EventsConsistent
        BY EventsHold DEF AreasInv, EventsConsistent
    <1> QED BY <1>1, AreasAlways, PTL

=============================================================================
