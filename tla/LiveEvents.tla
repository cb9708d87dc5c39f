----------------------------- MODULE LiveEvents -----------------------------
(***************************************************************************)
(* What the gateway tells the clients of a channel about one message, next *)
(* to what the tables say of it: its text, deletion, pin and reactions, and *)
(* who is typing.  A handler writes through ChatService, may look up the   *)
(* sender's name, and emits an event with the value it was asked for; the  *)
(* same operations over HTTP write and emit nothing.  Who receives an      *)
(* event is the matter of ChannelDelivery, and a client that was not       *)
(* connected reads the tables.                                             *)
(***************************************************************************)
EXTENDS Naturals

CONSTANTS
    Reactions,  \* pairs of a user and an emoji
    Typists,    \* users who type
    Slots,      \* handlers in flight at once
    MaxCalls,   \* bound: requests that are made
    MaxFaults   \* bound: handlers that fail on their way

VARIABLES
    row,        \* row[f]: what the tables, or the client who types, last said
    told,       \* told[f]: what the last event about f said
    doubtful,   \* history: facets whose events crossed, failed or were not sent
    call, calls, faults

facets == <<row, told, doubtful>>
vars == <<facets, call, calls, faults>>

Switches == {"gone", "pinned"} \cup Reactions \cup Typists
Facets == {"text"} \cup Switches
Texts == {"none", "first", "second", "third"}
Settings == Texts \cup {"off", "on"}

Idle == [pc |-> "idle"]
Handlers == {"read", "reread", "enrich", "name", "twice", "emit"}

TypeOK ==
    /\ row \in [Facets -> Settings] /\ told \in [Facets -> Settings]
    /\ \A r \in {row, told} : r["text"] \in Texts /\ \A f \in Switches : r[f] \in {"off", "on"}
    /\ doubtful \subseteq Facets
    /\ \A s \in Slots : call[s] # Idle =>
           /\ call[s].pc \in Handlers
           /\ call[s].crossed \subseteq DOMAIN call[s].tell
           /\ DOMAIN call[s].tell \subseteq Facets
    /\ calls \in 0..MaxCalls /\ faults \in 0..MaxFaults

Init ==
    /\ row = [f \in Facets |-> IF f = "text" THEN "none" ELSE "off"]
    /\ told = row
    /\ doubtful = {}
    /\ call = [s \in Slots |-> Idle]
    /\ calls = 0 /\ faults = 0

-----------------------------------------------------------------------------
At(s, pc) == call[s].pc = pc
Done(s) == call' = [call EXCEPT ![s] = Idle]
Sent == row["text"] # "none"

\* What tell says, and r for the facets of which it says nothing.
Updated(tell, r) == [f \in Facets |-> IF f \in DOMAIN tell THEN tell[f] ELSE r[f]]

Tells(s, f) == call[s] # Idle /\ f \in DOMAIN call[s].tell
Pending(fs) == {f \in fs : \E t \in Slots : Tells(t, f)}
Changed(tell) == {f \in DOMAIN tell : row[f] # tell[f]}

\* The calls once others have changed the facets fs under them.
Crossing(fs) ==
    [t \in Slots |-> IF call[t] = Idle THEN Idle
                     ELSE [call[t] EXCEPT !.crossed = @ \cup (fs \cap DOMAIN call[t].tell)]]

Count == calls < MaxCalls /\ calls' = calls + 1 /\ UNCHANGED faults

\* A handler of the gateway writes what tell says, and goes on at pc.
Write(s, pc, tell) ==
    /\ call[s] = Idle
    /\ Count
    /\ row' = Updated(tell, row)
    /\ doubtful' = doubtful \cup Pending(DOMAIN tell)
    /\ call' = [Crossing(Changed(tell)) EXCEPT ![s] =
                   [pc |-> pc, tell |-> tell, crossed |-> Pending(DOMAIN tell)]]
    /\ UNCHANGED told

\* A handler of the controller writes, and nobody is told.
WriteSilently(tell) ==
    /\ Count
    /\ row' = Updated(tell, row)
    /\ doubtful' = doubtful \cup Changed(tell)
    /\ call' = Crossing(Changed(tell))
    /\ UNCHANGED told

-----------------------------------------------------------------------------
Columns == {"text", "gone", "pinned"}
New == [f \in Columns |-> IF f = "text" THEN "first" ELSE "off"]
Only(f, v) == [g \in {f} |-> v]

\* The message is read again before anybody is told of it: by handleSendMessage,
\* and by the services of handleThreadReply and handleSendFileMessage.
HandleSendMessage(s) == ~Sent /\ Write(s, "read", New)
HandleThreadReply(s) == ~Sent /\ Write(s, "enrich", New)
HandleSendFileMessage(s) == ~Sent /\ Write(s, "read", New)

\* sendFilesAsMessage, the one HTTP request that emits: first its service
\* tells of the message, and then the controller does.
SendFilesAsMessage(s) == ~Sent /\ Write(s, "reread", New)

\* The message as it is now; what is being written to it is told by others.
Reread(s, pc) ==
    LET now == [f \in Columns |-> row[f]]
        others == {f \in Columns : \E t \in Slots \ {s} : Tells(t, f)}
    IN  call' = [call EXCEPT ![s] = [pc |-> pc, tell |-> now, crossed |-> others]]

Rereads(s) == At(s, "read") \/ At(s, "reread")
Then(s) == IF At(s, "reread") THEN "twice" ELSE "emit"

\* Mutant: what sendMessage returned is emitted.
RereadNothing(s) ==
    /\ Rereads(s) /\ row["gone"] = "off"
    /\ call' = [call EXCEPT ![s].pc = Then(s),
                            ![s].crossed = {f \in @ : \E t \in Slots \ {s} : Tells(t, f)}]
    /\ UNCHANGED <<facets, calls, faults>>

\* getMessage, which finds no deleted one: then the request is answered with an
\* error, and nobody hears of the message.
GetMessage(s) ==
    /\ Rereads(s) /\ row["gone"] = "off"
    /\ Reread(s, Then(s))
    /\ UNCHANGED <<facets, calls, faults>>
GetMessageGone(s) ==
    /\ Rereads(s) /\ row["gone"] = "on"
    /\ doubtful' = doubtful \cup DOMAIN call[s].tell
    /\ Done(s)
    /\ UNCHANGED <<row, told, calls, faults>>

\* replyInThread's SELECT finds it either way.
Enrich(s) ==
    /\ At(s, "enrich")
    /\ Reread(s, "emit")
    /\ UNCHANGED <<facets, calls, faults>>

-----------------------------------------------------------------------------
HandleAddReaction(s, r) == Sent /\ Write(s, "name", Only(r, "on"))
HandleRemoveReaction(s, r) == Sent /\ Write(s, "emit", Only(r, "off"))
HandleEditMessage(s, t) == Sent /\ Write(s, "emit", Only("text", t))
HandleDeleteMessage(s) == Sent /\ Write(s, "emit", Only("gone", "on"))
HandlePinMessage(s, v) == Sent /\ Write(s, "name", Only("pinned", v))

\* handleTypingStart asks for the name of the user first, handleTypingStop
\* does not.
HandleTypingStart(s, u) == Write(s, "name", Only(u, "on"))
HandleTypingStop(s, u) == Write(s, "emit", Only(u, "off"))

\* handleDisconnect tells nobody that the user has stopped.
HandleDisconnect(u) == row[u] = "on" /\ WriteSilently(Only(u, "off"))

\* The same over HTTP.
SendMessage == ~Sent /\ WriteSilently(New)
AddReaction(r) == Sent /\ WriteSilently(Only(r, "on"))
RemoveReaction(r) == Sent /\ WriteSilently(Only(r, "off"))
EditMessage(t) == Sent /\ WriteSilently(Only("text", t))
DeleteMessage == Sent /\ WriteSilently(Only("gone", "on"))
PinMessage(v) == Sent /\ WriteSilently(Only("pinned", v))

-----------------------------------------------------------------------------
GetUserDisplayName(s) ==
    /\ At(s, "name")
    /\ call' = [call EXCEPT ![s].pc = "emit"]
    /\ UNCHANGED <<facets, calls, faults>>

\* broadcastToChannel, once it has the list of the members.
Broadcast(s) ==
    /\ At(s, "emit")
    /\ told' = Updated(call[s].tell, told)
    /\ doubtful' = doubtful \ (DOMAIN call[s].tell \ call[s].crossed)
    /\ Done(s)
    /\ UNCHANGED <<row, calls, faults>>

\* The first of two broadcasts; its failure is caught.
BroadcastFirst(s) ==
    /\ At(s, "twice")
    /\ told' = Updated(call[s].tell, told)
    /\ doubtful' = doubtful \ (DOMAIN call[s].tell \ call[s].crossed)
    /\ call' = [call EXCEPT ![s].pc = "emit"]
    /\ UNCHANGED <<row, calls, faults>>
BroadcastFirstFails(s) ==
    /\ At(s, "twice")
    /\ faults < MaxFaults /\ faults' = faults + 1
    /\ call' = [call EXCEPT ![s].pc = "emit"]
    /\ UNCHANGED <<facets, calls>>

\* A query on the way to the event fails: the client hears that the operation
\* did, although it is in the tables.
HandlerFails(s) ==
    /\ call[s] # Idle /\ ~At(s, "twice")
    /\ faults < MaxFaults /\ faults' = faults + 1
    /\ doubtful' = doubtful \cup DOMAIN call[s].tell
    /\ Done(s)
    /\ UNCHANGED <<row, told, calls>>

Handle(s) ==
    \/ HandleSendMessage(s) \/ HandleThreadReply(s)
    \/ HandleSendFileMessage(s) \/ SendFilesAsMessage(s)
    \/ \E r \in Reactions : HandleAddReaction(s, r) \/ HandleRemoveReaction(s, r)
    \/ \E t \in {"second", "third"} : HandleEditMessage(s, t)
    \/ HandleDeleteMessage(s)
    \/ \E v \in {"off", "on"} : HandlePinMessage(s, v)
    \/ \E u \in Typists : HandleTypingStart(s, u) \/ HandleTypingStop(s, u)

Post ==
    \/ SendMessage \/ DeleteMessage
    \/ \E r \in Reactions : AddReaction(r) \/ RemoveReaction(r)
    \/ \E t \in {"second", "third"} : EditMessage(t)
    \/ \E v \in {"off", "on"} : PinMessage(v)

Next ==
    \/ Post
    \/ \E u \in Typists : HandleDisconnect(u)
    \/ \E s \in Slots :
           \/ Handle(s) \/ GetMessage(s) \/ GetMessageGone(s) \/ Enrich(s)
           \/ GetUserDisplayName(s) \/ HandlerFails(s)
           \/ Broadcast(s) \/ BroadcastFirst(s) \/ BroadcastFirstFails(s)

Spec == Init /\ [][Next]_vars

-----------------------------------------------------------------------------
\* Who follows the events knows the tables: once no event about it is on its
\* way, the last one tells what is so, unless events about it crossed, one was
\* lost or the change came over HTTP; and a later event, by itself, mends that.
EventsAgree ==
    \A f \in Facets \ (doubtful \cup Pending(Facets)) : told[f] = row[f]

=============================================================================
