---------------------------- MODULE ReadReceipts ----------------------------
(***************************************************************************)
(* Read receipts of one channel: messages.read_by_user_ids, written by     *)
(* markChannelAsRead and, in a direct channel, by sendMessage's auto-read, *)
(* and the message_read events the gateway derives from what               *)
(* markChannelAsRead returns.  markChannelAsRead selects the unread        *)
(* messages, updates by a predicate of its own in a second statement, and  *)
(* returns the ids of the first; sendMessage inserts the message in one    *)
(* statement and marks it read in another.                                 *)
(***************************************************************************)
EXTENDS ChatUsers, Naturals, FiniteSets

CONSTANTS
    Messages,
    Calls,      \* markChannelAsRead calls in flight at once
    Within,     \* pairs <<u, v>>: the digits of u's id occur in v's id
    MaxAborts   \* bound: handlers that die between two statements

ASSUME WithinAssumption == Within \subseteq Users \X Users /\ \A u \in Users : <<u, u>> \in Within
ASSUME UsersAssumption == IsFiniteSet(Users)
ASSUME AbortsAssumption == MaxAborts \in Nat

VARIABLES
    direct,     \* is the channel_type 'direct'
    participants,    \* active participants; they are only added here
    lists,      \* history: the participant lists a validation may have cached
    stage,      \* stage[m]: "unsent", "auto" (inserted, to be marked read), "sent"
    sender,     \* sender[m]
    reader,     \* reader[m]: {the auto-read recipient} or {}
    deleted,    \* messages with is_deleted = 1
    readBy,     \* readBy[m]: the ids listed in read_by_user_ids
    call,       \* the markChannelAsRead calls
    announced,  \* pairs <<m, u>> the gateway has broadcast as message_read
    aborts

receiptVars == <<direct, participants, lists, stage, sender, reader, deleted, readBy,
          call, announced, aborts>>
channel == <<direct, participants, lists>>

NoCall == [pc |-> "idle"]
MarkCall == [pc : {"update", "announce"}, user : Users,
         ids : SUBSET Messages,      \* messageIds
         before : SUBSET Messages]   \* history: what others had posted by then

ReceiptTypeOK ==
    /\ direct \in BOOLEAN
    /\ participants \subseteq Users
    /\ lists \subseteq SUBSET Users
    /\ stage \in [Messages -> {"unsent", "auto", "sent"}]
    /\ sender \in [Messages -> Users]
    /\ reader \in [Messages -> SUBSET Users]
    /\ deleted \subseteq Messages
    /\ readBy \in [Messages -> SUBSET Users]
    /\ call \in [Calls -> MarkCall \cup {NoCall}]
    /\ announced \subseteq Messages \X Users
    /\ aborts \in 0..MaxAborts

ReceiptInit ==
    /\ direct \in BOOLEAN
    /\ participants \in SUBSET Users
    /\ IF direct THEN Cardinality(participants) = 2 ELSE participants # {}
    /\ lists = {participants}
    /\ stage = [m \in Messages |-> "unsent"]
    /\ sender \in [Messages -> participants]
    /\ reader = [m \in Messages |-> {}]
    /\ deleted = {}
    /\ readBy = [m \in Messages |-> {}]
    /\ call = [c \in Calls |-> NoCall]
    /\ announced = {}
    /\ aborts = 0

-----------------------------------------------------------------------------
\* addMembers takes any channel, a direct one as well.
AddParticipant(u) ==
    /\ u \notin participants
    /\ participants' = participants \cup {u}
    /\ lists' = lists \cup {participants'}
    /\ UNCHANGED <<direct, stage, sender, reader, deleted, readBy, call, announced, aborts>>

-----------------------------------------------------------------------------
\* sendMessage up to sp_SendMessage_Fast.  The participants are those of the
\* validation, which may be cached.  The check for a recipient who is online
\* asks for @userId: it tells whether the sender was active of late.
Send(m) ==
    /\ stage[m] = "unsent"
    /\ \E list \in lists, online \in BOOLEAN :
           LET others == list \ {sender[m]}
               auto == direct /\ Cardinality(others) = 1 /\ online
           IN  /\ reader' = [reader EXCEPT ![m] = IF auto THEN others ELSE {}]
               /\ stage' = [stage EXCEPT ![m] = IF auto THEN "auto" ELSE "sent"]
    /\ UNCHANGED <<channel, sender, deleted, readBy, call, announced, aborts>>

\* SET read_by_user_ids = the recipient, whatever the column holds by now.
AutoRead(m) ==
    /\ stage[m] = "auto"
    /\ readBy' = [readBy EXCEPT ![m] = reader[m]]
    /\ stage' = [stage EXCEPT ![m] = "sent"]
    /\ UNCHANGED <<channel, sender, reader, deleted, call, announced, aborts>>

DeleteMessage(m) ==
    /\ stage[m] # "unsent"
    /\ m \notin deleted
    /\ deleted' = deleted \cup {m}
    /\ UNCHANGED <<channel, stage, sender, reader, readBy, call, announced, aborts>>

-----------------------------------------------------------------------------
\* read_by_user_ids LIKE '%' + @userIdStr + '%'
Like(u, ids) == \E v \in ids : <<u, v>> \in Within

Others(u) == {m \in Messages : stage[m] # "unsent" /\ sender[m] # u /\ m \notin deleted}
Unread(u) == {m \in Others(u) : ~Like(u, readBy[m])}

\* Nothing unread: the handler answers without the UPDATE.
MarkSelect(c, u) ==
    /\ call[c] = NoCall
    /\ u \in participants
    /\ call' = [call EXCEPT ![c] =
                   [pc |-> IF Unread(u) = {} THEN "announce" ELSE "update",
                    user |-> u, ids |-> Unread(u), before |-> Others(u)]]
    /\ UNCHANGED <<channel, stage, sender, reader, deleted, readBy, announced, aborts>>

\* Mutants: the list is replaced; only messages nobody has read are marked.
MarkUpdateReplacing(c) ==
    LET u == call[c].user
    IN  /\ call[c].pc = "update"
        /\ readBy' = [m \in Messages |-> IF m \in Unread(u) THEN {u} ELSE readBy[m]]
        /\ call' = [call EXCEPT ![c].pc = "announce"]
        /\ UNCHANGED <<channel, stage, sender, reader, deleted, announced, aborts>>
MarkUpdateFirst(c) ==
    LET u == call[c].user
    IN  /\ call[c].pc = "update"
        /\ readBy' = [m \in Messages |-> IF m \in Unread(u) /\ readBy[m] = {} THEN {u} ELSE readBy[m]]
        /\ call' = [call EXCEPT ![c].pc = "announce"]
        /\ UNCHANGED <<channel, stage, sender, reader, deleted, announced, aborts>>

MarkUpdate(c) ==
    LET u == call[c].user
    IN  /\ call[c].pc = "update"
        /\ readBy' = [m \in Messages |-> IF m \in Unread(u) THEN readBy[m] \cup {u} ELSE readBy[m]]
        /\ call' = [call EXCEPT ![c].pc = "announce"]
        /\ UNCHANGED <<channel, stage, sender, reader, deleted, announced, aborts>>

\* handleMarkAsRead broadcasts the ids, one event each.
Announce(c) ==
    /\ call[c].pc = "announce"
    /\ announced' = announced \cup {<<m, call[c].user>> : m \in call[c].ids}
    /\ call' = [call EXCEPT ![c] = NoCall]
    /\ UNCHANGED <<channel, stage, sender, reader, deleted, readBy, aborts>>

-----------------------------------------------------------------------------
Abort ==
    /\ aborts < MaxAborts
    /\ aborts' = aborts + 1
    /\ \/ \E c \in Calls : /\ call[c] # NoCall
                           /\ call' = [call EXCEPT ![c] = NoCall]
                           /\ UNCHANGED stage
       \/ \E m \in Messages : /\ stage[m] = "auto"
                              /\ stage' = [stage EXCEPT ![m] = "sent"]
                              /\ UNCHANGED call
    /\ UNCHANGED <<channel, sender, reader, deleted, readBy, announced>>

ReceiptNext ==
    \/ \E u \in Users : AddParticipant(u)
    \/ \E m \in Messages : Send(m) \/ AutoRead(m) \/ DeleteMessage(m)
    \/ \E c \in Calls : \/ \E u \in Users : MarkSelect(c, u)
                        \/ MarkUpdate(c) \/ Announce(c)
    \/ Abort

ReceiptSpec == ReceiptInit /\ [][ReceiptNext]_receiptVars

-----------------------------------------------------------------------------
\* A direct channel that has been given a third participant.
Crowded == direct /\ Cardinality(participants) > 2

\* A receipt is never taken back, although sendMessage overwrites the column in
\* a statement that may come after the recipient's own markChannelAsRead: in a
\* channel that is not direct, or that has kept its two participants.
ReceiptsLast == [][~Crowded' => \A m \in Messages : readBy[m] \subseteq readBy'[m]]_receiptVars

\* LIKE takes another reader's id, in which the digits of u's occur, for u's own.
Shadowed(u, m) == \E v \in readBy[m] \ {u} : <<u, v>> \in Within
Settled(u, m) == u \in readBy[m] \/ m \in deleted \/ Shadowed(u, m)

\* What the gateway announces is so: a message broadcast as read by u lists u,
\* unless, between the SELECT that found it and the UPDATE, it was deleted or a
\* reader came first whose id u's occurs in.
AnnouncedIsRecorded ==
    ~Crowded => \A m \in Messages, u \in Users : <<m, u>> \in announced => Settled(u, m)

\* When markChannelAsRead is through, everything others had posted when it
\* began is marked, whatever other calls and senders did meanwhile, but for
\* what was deleted and what such a reader hides.
MarkedAll ==
    ~Crowded => \A c \in Calls : call[c].pc = "announce" =>
                    \A m \in call[c].before : Settled(call[c].user, m)

\* Both sides of a mark: what is announced is there, and what should be there
\* is.
MarkingHolds == AnnouncedIsRecorded /\ MarkedAll
=============================================================================
