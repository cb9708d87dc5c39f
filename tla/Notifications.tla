---------------------------- MODULE Notifications ----------------------------
(***************************************************************************)
(* The notifications of one channel's messages: sendMessage answers and    *)
(* leaves logMessageActivity to setImmediate, which makes a row for one    *)
(* recipient after the other, looking up as it goes who has muted the      *)
(* channel and taking off the mutes that are over; meanwhile the           *)
(* participants mute and unmute it.                                        *)
(***************************************************************************)
EXTENDS Naturals, FiniteSets

CONSTANTS
    Users,      \* the participants of the channel
    Senders,    \* those who post
    Named,      \* those whom messages mention
    Ids,        \* message ids the channel may come to use
    None,
    MaxCalls,   \* bound: requests that are made
    MaxFaults   \* bound: statements that fail, restarts

VARIABLES
    from,       \* from[m]: the sender of message m
    muted,      \* muted[u]: chat_participants.is_muted, with mute_until
    notes,      \* the notifications rows, as <<message, recipient, kind>>
    job,        \* job[m]: the request that sends m, then its logMessageActivity
    wished,     \* history: users whose last request muted the channel, and it has not ended
    overtaken,  \* history: users who muted it while a job was ending an older mute
    quiet,      \* history: quiet[m]: users who have had it muted since m was sent
    skipped,    \* history: skipped[m]: users whom the job of m found muted
    broke,      \* history: messages at which something failed
    calls, faults

history == <<wished, overtaken, quiet, skipped, broke>>
vars == <<from, muted, notes, job, history, calls, faults>>

-----------------------------------------------------------------------------
Kinds == {"message", "thread"}
NoJob == [pc |-> "none"]
Job == [pc : {"tail", "check", "unmute", "create"}, kind : Kinds, user : Users \cup {None},
        todo : SUBSET Users, mentions : SUBSET Users]

TypeOK ==
    /\ from \in [Ids -> Senders \cup {None}]
    /\ muted \in [Users -> {"off", "on", "over"}]
    /\ notes \subseteq Ids \X Users \X (Kinds \cup {"mention"})
    /\ job \in [Ids -> Job \cup {NoJob}]
    /\ wished \subseteq Users /\ overtaken \subseteq Users
    /\ quiet \in [Ids -> SUBSET Users] /\ skipped \in [Ids -> SUBSET Users]
    /\ broke \subseteq Ids
    /\ calls \in 0..MaxCalls /\ faults \in 0..MaxFaults

Init ==
    /\ from = [m \in Ids |-> None]
    /\ muted = [u \in Users |-> "off"]
    /\ notes = {}
    /\ job = [m \in Ids |-> NoJob]
    /\ wished = {} /\ overtaken = {}
    /\ quiet = [m \in Ids |-> {}] /\ skipped = [m \in Ids |-> {}]
    /\ broke = {}
    /\ calls = 0 /\ faults = 0

At(m, pc) == job[m].pc = pc
Counters == <<calls, faults>>
Call == calls < MaxCalls /\ calls' = calls + 1 /\ UNCHANGED faults
Failing == faults < MaxFaults /\ faults' = faults + 1 /\ UNCHANGED calls

\* The channel is no longer muted for u.
Heard(u) == quiet' = [m \in Ids |-> quiet[m] \ {u}]

-----------------------------------------------------------------------------
\* sendMessage, of its own or for replyInThread or forwardMessage: the row is
\* inserted, ...
SendMessage(u, m, kind, mentions) ==
    /\ Call
    /\ from[m] = None
    /\ from' = [from EXCEPT ![m] = u]
    /\ job' = [job EXCEPT ![m] = [pc |-> "tail", kind |-> kind, user |-> None,
                                  todo |-> Users \ {u}, mentions |-> mentions]]
    /\ quiet' = [quiet EXCEPT ![m] = {v \in Users : muted[v] = "on"}]
    /\ UNCHANGED <<muted, notes, wished, overtaken, skipped, broke>>

\* ... read back and answered, and logMessageActivity is left to setImmediate.
SendTail(m) ==
    /\ At(m, "tail")
    /\ job' = [job EXCEPT ![m].pc = "check"]
    /\ UNCHANGED <<from, muted, notes, history, Counters>>

\* muteChannel, one UPDATE.
Mute(u) ==
    /\ Call
    /\ muted' = [muted EXCEPT ![u] = "on"]
    /\ wished' = wished \cup {u}
    /\ overtaken' = IF \E m \in Ids : At(m, "unmute") /\ job[m].user = u
                    THEN overtaken \cup {u} ELSE overtaken \ {u}
    /\ UNCHANGED <<from, notes, job, quiet, skipped, broke>>

Unmute(u) ==
    /\ Call
    /\ muted' = [muted EXCEPT ![u] = "off"]
    /\ wished' = wished \ {u}
    /\ Heard(u)
    /\ UNCHANGED <<from, notes, job, overtaken, skipped, broke>>

\* mute_until passes.
MuteEnds(u) ==
    /\ muted[u] = "on"
    /\ muted' = [muted EXCEPT ![u] = "over"]
    /\ wished' = wished \ {u}
    /\ Heard(u)
    /\ UNCHANGED <<from, notes, job, overtaken, skipped, broke, Counters>>

-----------------------------------------------------------------------------
Recipient(m, u) == At(m, "check") /\ u \in job[m].todo
GoTo(m, u, pc) == job' = [job EXCEPT ![m].pc = pc, ![m].user = u]

\* Mutant: the first recipient who has muted the channel ends the loop.
EndAtMuted(m, u) ==
    /\ Recipient(m, u) /\ job[m].kind = "message" /\ muted[u] = "on"
    /\ job' = [job EXCEPT ![m].todo = {}]
    /\ skipped' = [skipped EXCEPT ![m] = @ \cup {u}]
    /\ UNCHANGED <<from, muted, notes, wished, overtaken, quiet, broke, Counters>>

\* notifyNewMessage asks isChannelMuted of one recipient after the other:
\* "continue" if it is, ...
SkipMuted(m, u) ==
    /\ Recipient(m, u) /\ job[m].kind = "message" /\ muted[u] = "on"
    /\ job' = [job EXCEPT ![m].todo = @ \ {u}]
    /\ skipped' = [skipped EXCEPT ![m] = @ \cup {u}]
    /\ UNCHANGED <<from, muted, notes, wished, overtaken, quiet, broke, Counters>>

\* ... one whose mute_until is past is to be taken off first, ...
FindEndedMute(m, u) ==
    /\ Recipient(m, u) /\ job[m].kind = "message" /\ muted[u] = "over"
    /\ GoTo(m, u, "unmute")
    /\ UNCHANGED <<from, muted, notes, history, Counters>>

\* ... whatever the row says by then, ...
TakeOff(m) ==
    LET u == job[m].user
    IN  /\ At(m, "unmute")
        /\ muted' = [muted EXCEPT ![u] = "off"]
        /\ Heard(u)
        /\ GoTo(m, u, "create")
        /\ UNCHANGED <<from, notes, wished, overtaken, skipped, broke, Counters>>

\* ... or not, and the user is notified all the same ...
TakeOffFails(m) ==
    /\ At(m, "unmute")
    /\ Failing
    /\ job' = [job EXCEPT ![m].pc = "create"]
    /\ UNCHANGED <<from, muted, notes, history>>

\* ... and the others get a row; notifyThreadReply asks nobody.
FindUnmuted(m, u) ==
    /\ Recipient(m, u) /\ (job[m].kind = "thread" \/ muted[u] = "off")
    /\ GoTo(m, u, "create")
    /\ UNCHANGED <<from, muted, notes, history, Counters>>

\* A question that fails counts as a no.
AskFails(m, u) ==
    /\ Recipient(m, u) /\ job[m].kind = "message"
    /\ Failing
    /\ GoTo(m, u, "create")
    /\ quiet' = [quiet EXCEPT ![m] = @ \ {u}]
    /\ UNCHANGED <<from, muted, notes, wished, overtaken, skipped, broke>>

\* createNotification.
Create(m) ==
    /\ At(m, "create")
    /\ notes' = notes \cup {<<m, job[m].user, job[m].kind>>}
    /\ job' = [job EXCEPT ![m].pc = "check", ![m].todo = @ \ {job[m].user}]
    /\ UNCHANGED <<from, muted, history, Counters>>

\* The loop is inside the try: the first row that cannot be made ends it.
CreateFails(m) ==
    /\ At(m, "create")
    /\ Failing
    /\ job' = [job EXCEPT ![m].pc = "check", ![m].todo = {}]
    /\ broke' = broke \cup {m}
    /\ UNCHANGED <<from, muted, notes, wished, overtaken, quiet, skipped>>

\* Each mention has a notifyMention of its own, muted or not, and
\* a failure of its own.
Mention(m, u) ==
    /\ At(m, "check") /\ job[m].todo = {} /\ u \in job[m].mentions
    /\ notes' = notes \cup {<<m, u, "mention">>}
    /\ job' = [job EXCEPT ![m].mentions = @ \ {u}]
    /\ UNCHANGED <<from, muted, history, Counters>>

MentionFails(m, u) ==
    /\ At(m, "check") /\ job[m].todo = {} /\ u \in job[m].mentions
    /\ Failing
    /\ job' = [job EXCEPT ![m].mentions = @ \ {u}]
    /\ broke' = broke \cup {m}
    /\ UNCHANGED <<from, muted, notes, wished, overtaken, quiet, skipped>>

\* The job ends: invalidateCaches deletes the key "msgs:{channel}:*", which is
\* no key.
JobEnds(m) ==
    /\ At(m, "check") /\ job[m].todo = {} /\ job[m].mentions = {}
    /\ job' = [job EXCEPT ![m] = NoJob]
    /\ UNCHANGED <<from, muted, notes, history, Counters>>

\* A statement of the request fails, or one of logActivity: no row is made
\* after it.
Fails(m) ==
    /\ At(m, "tail") \/ At(m, "check")
    /\ Failing
    /\ job' = [job EXCEPT ![m] = NoJob]
    /\ broke' = broke \cup {m}
    /\ UNCHANGED <<from, muted, notes, wished, overtaken, quiet, skipped>>

\* The process restarts.
Crash ==
    /\ Failing
    /\ broke' = broke \cup {m \in Ids : job[m] # NoJob}
    /\ job' = [m \in Ids |-> NoJob]
    /\ UNCHANGED <<from, muted, notes, wished, overtaken, quiet, skipped>>

Steps(m) ==
    \/ SendTail(m) \/ TakeOff(m) \/ Create(m) \/ JobEnds(m)
    \/ \E u \in Users :
           SkipMuted(m, u) \/ FindEndedMute(m, u) \/ FindUnmuted(m, u) \/ Mention(m, u)

Next ==
    \/ \E u \in Senders, m \in Ids, kind \in Kinds, mentions \in SUBSET Named :
           SendMessage(u, m, kind, mentions)
    \/ \E u \in Users : Mute(u) \/ Unmute(u) \/ MuteEnds(u)
    \/ \E m \in Ids : Steps(m) \/ TakeOffFails(m) \/ CreateFails(m) \/ Fails(m)
    \/ \E m \in Ids, u \in Users : AskFails(m, u) \/ MentionFails(m, u)
    \/ Crash

\* Requests that were begun and jobs go on.
Fairness == \A m \in Ids : WF_vars(Steps(m))

Spec == Init /\ [][Next]_vars /\ Fairness

-----------------------------------------------------------------------------
\* A mute lasts until it ends or the user takes it off, except when it was set
\* while a job was taking an older one off.
MutesLast == \A u \in wished : muted[u] = "on" \/ u \in overtaken

\* A user who has had the channel muted since before a message was sent is not
\* notified of it, unless the question failed.
MuteHolds == \A m \in Ids : \A u \in quiet[m] : <<m, u, "message">> \notin notes

\* Everyone but the sender gets a row or had muted the channel, and everyone
\* mentioned gets one, unless a statement failed or the process restarted.
Told(m, u) == <<m, u, "message">> \in notes \/ <<m, u, "thread">> \in notes \/ u \in skipped[m]
EveryoneHears ==
    \A m \in Ids :
        /\ \A u \in Users : job[m] # NoJob /\ u \in job[m].todo ~> Told(m, u) \/ m \in broke
        /\ \A u \in Named :
               job[m] # NoJob /\ u \in job[m].mentions ~> <<m, u, "mention">> \in notes \/ m \in broke

=============================================================================
