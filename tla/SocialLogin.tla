----------------------------- MODULE SocialLogin -----------------------------
(***************************************************************************)
(* Signing in with Google or Microsoft: the callbacks of one person, whose *)
(* first sign-in makes the user, the key pair and the link to the          *)
(* provider's account.  The user and the link are written in a             *)
(* transaction; the key and the session go to the pool and are committed   *)
(* at once, for a user whom the transaction may yet take back.             *)
(***************************************************************************)
EXTENDS Naturals, FiniteSets

CONSTANTS
    Providers,  \* who vouches for the person, each under an account id of its own
    Ids,        \* ids that users rows for the person's address may get
    Slots,      \* callbacks in flight at once
    None,
    PoolSize,   \* pool.max, 10
    MaxCalls,   \* bound: callbacks
    MaxFaults   \* bound: statements or answers of a provider that fail, restarts

VARIABLES
    user,       \* the users row with the address, if any; the address is UNIQUE
    used,       \* ids that were given away, to rows that were taken back too
    link,       \* link[p]: user_social_accounts.user_id for the account at p
    keyOf,      \* users that user_encryption_keys has a row of
    sessionOf,  \* users that user_sessions has a row of
    mishap,     \* history: users at whom something failed
    call, calls, faults

vars == <<user, used, link, keyOf, sessionOf, mishap, call, calls, faults>>

-----------------------------------------------------------------------------
Idle == [pc |-> "idle"]
Steps == {"social.exchange", "social.begin", "social.lookup", "social.tokens", "social.email",
          "social.insert", "social.keys", "social.link", "social.session", "social.commit"}
Callback == [pc : Steps, by : Providers, user : Ids \cup {None}, new : BOOLEAN, linked : BOOLEAN]

TypeOK ==
    /\ user \in Ids \cup {None} /\ used \subseteq Ids
    /\ link \in [Providers -> Ids \cup {None}]
    /\ keyOf \subseteq Ids /\ sessionOf \subseteq Ids /\ mishap \subseteq Ids
    /\ call \in [Slots -> Callback \cup {Idle}]
    /\ calls \in 0..MaxCalls /\ faults \in 0..MaxFaults

Init ==
    /\ user = None /\ used = {}
    /\ link = [p \in Providers |-> None]
    /\ keyOf = {} /\ sessionOf = {} /\ mishap = {}
    /\ call = [s \in Slots |-> Idle]
    /\ calls = 0 /\ faults = 0

At(s, pc) == call[s].pc = pc
Goto(s, pc) == call' = [call EXCEPT ![s].pc = pc]
Counters == <<calls, faults>>
rows == <<user, used, link, keyOf, sessionOf, mishap>>

Holds(s) == call[s].pc \in Steps \ {"social.exchange", "social.begin"}
Exhausted == Cardinality({s \in Slots : Holds(s)}) >= PoolSize
Connected(s) == call[s].pc \in {"social.begin", "social.keys", "social.session"} => ~Exhausted

\* Another transaction has put the address in, or written this account, and is
\* open: whoever reads or writes the row waits.
OpenElsewhere(s) ==
    \E t \in Slots \ {s} :
        \/ call[s].pc \in {"social.email", "social.insert"} /\ Holds(t) /\ call[t].new
        \/ call[s].pc \in {"social.lookup", "social.tokens", "social.link"}
           /\ Holds(t) /\ call[t].linked /\ call[t].by = call[s].by

-----------------------------------------------------------------------------
\* googleCallback, microsoftCallback: the code is exchanged, the profile read.
Arrive(s, p) ==
    /\ call[s] = Idle
    /\ calls < MaxCalls
    /\ calls' = calls + 1
    /\ call' = [call EXCEPT ![s] = [pc |-> "social.exchange", by |-> p, user |-> None,
                                    new |-> FALSE, linked |-> FALSE]]
    /\ UNCHANGED <<rows, faults>>

Exchange(s) ==
    /\ At(s, "social.exchange")
    /\ Goto(s, "social.begin")
    /\ UNCHANGED <<rows, Counters>>

Begin(s) ==
    /\ At(s, "social.begin") /\ Connected(s)
    /\ Goto(s, "social.lookup")
    /\ UNCHANGED <<rows, Counters>>

\* loginWithSocial: an account that is known ...
Lookup(s) ==
    LET u == link[call[s].by]
    IN  /\ At(s, "social.lookup") /\ ~OpenElsewhere(s)
        /\ call' = IF u # None THEN [call EXCEPT ![s].pc = "social.tokens", ![s].user = u]
                   ELSE [call EXCEPT ![s].pc = "social.email"]
        /\ UNCHANGED <<rows, Counters>>

\* ... gets new tokens, ...
UpdateTokens(s) ==
    /\ At(s, "social.tokens") /\ ~OpenElsewhere(s)
    /\ call' = [call EXCEPT ![s].pc = "social.session", ![s].linked = TRUE]
    /\ UNCHANGED <<rows, Counters>>

\* ... another is the user's with the address, if there is one, ...
LookupEmail(s) ==
    /\ At(s, "social.email") /\ ~OpenElsewhere(s)
    /\ call' = IF user # None THEN [call EXCEPT ![s].pc = "social.link", ![s].user = user]
               ELSE [call EXCEPT ![s].pc = "social.insert"]
    /\ UNCHANGED <<rows, Counters>>

\* ... or a new one's, ...
InsertUser(s, i) ==
    /\ At(s, "social.insert") /\ ~OpenElsewhere(s)
    /\ user = None
    /\ i \notin used
    /\ used' = used \cup {i}
    /\ call' = [call EXCEPT ![s].pc = "social.keys", ![s].user = i, ![s].new = TRUE]
    /\ UNCHANGED <<user, link, keyOf, sessionOf, mishap, Counters>>

\* ... whose keys are made under a password that nobody knows, ...
StoreKeys(s) ==
    /\ At(s, "social.keys") /\ Connected(s)
    /\ keyOf' = keyOf \cup {call[s].user}
    /\ Goto(s, "social.link")
    /\ UNCHANGED <<user, used, link, sessionOf, mishap, Counters>>

\* ... and is linked to it.
InsertLink(s) ==
    /\ At(s, "social.link") /\ ~OpenElsewhere(s)
    /\ link[call[s].by] = None
    /\ call' = [call EXCEPT ![s].pc = "social.session", ![s].linked = TRUE]
    /\ UNCHANGED <<rows, Counters>>

CreateSession(s) ==
    /\ At(s, "social.session") /\ Connected(s)
    /\ sessionOf' = sessionOf \cup {call[s].user}
    /\ Goto(s, "social.commit")
    /\ UNCHANGED <<user, used, link, keyOf, mishap, Counters>>

Commit(s) ==
    LET c == call[s]
    IN  /\ At(s, "social.commit")
        /\ user' = IF c.new THEN c.user ELSE user
        /\ link' = IF c.linked THEN [link EXCEPT ![c.by] = c.user] ELSE link
        /\ call' = [call EXCEPT ![s] = Idle]
        /\ UNCHANGED <<used, keyOf, sessionOf, mishap, Counters>>

\* A failure to make the keys is logged; any other rolls back and redirects to
\* the sign-in page.
Break(s) ==
    /\ mishap' = mishap \cup ({call[s].user} \ {None})
    /\ IF At(s, "social.keys") THEN Goto(s, "social.link")
       ELSE call' = [call EXCEPT ![s] = Idle]

\* The address or the account is there by now: a UNIQUE key is violated.
Duplicate(s) ==
    /\ ~OpenElsewhere(s)
    /\ \/ At(s, "social.insert") /\ user # None
       \/ At(s, "social.link") /\ link[call[s].by] # None
    /\ Break(s)
    /\ UNCHANGED <<user, used, link, keyOf, sessionOf, Counters>>

\* 30 seconds without a connection or behind a lock.
Timeout(s) ==
    /\ call[s] # Idle
    /\ ~Connected(s) \/ OpenElsewhere(s)
    /\ Break(s)
    /\ UNCHANGED <<user, used, link, keyOf, sessionOf, Counters>>

StatementFails(s) ==
    /\ call[s] # Idle
    /\ faults < MaxFaults /\ faults' = faults + 1
    /\ Break(s)
    /\ UNCHANGED <<user, used, link, keyOf, sessionOf, calls>>

Crash ==
    /\ faults < MaxFaults /\ faults' = faults + 1
    /\ mishap' = mishap \cup ({call[s].user : s \in {r \in Slots : call[r] # Idle}} \ {None})
    /\ call' = [s \in Slots |-> Idle]
    /\ UNCHANGED <<user, used, link, keyOf, sessionOf, calls>>

Step(s) ==
    \/ Exchange(s) \/ Begin(s) \/ Lookup(s) \/ UpdateTokens(s)
    \/ LookupEmail(s)
    \/ \E i \in Ids : InsertUser(s, i)
    \/ StoreKeys(s) \/ InsertLink(s) \/ CreateSession(s) \/ Commit(s)
    \/ Duplicate(s) \/ Timeout(s)

Next ==
    \/ \E s \in Slots, p \in Providers : Arrive(s, p)
    \/ \E s \in Slots : Step(s) \/ StatementFails(s)
    \/ Crash

Fairness == \A s \in Slots : WF_vars(Step(s))

Spec == Init /\ [][Next]_vars /\ Fairness

-----------------------------------------------------------------------------
\* Whatever provider vouches for the person, it is the same user, who has a key
\* unless making it failed.
OnePerson ==
    /\ \A p \in Providers : link[p] \in {user, None}
    /\ user # None => user \in keyOf \cup mishap

\* A key or a session of somebody who is no user is one of a transaction that is
\* open or failed.
StraysExplained ==
    \A i \in keyOf \cup sessionOf :
        i = user \/ i \in mishap \/ \E s \in Slots : call[s] # Idle /\ call[s].user = i

=============================================================================
