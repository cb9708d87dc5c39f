------------------------------ MODULE Messages ------------------------------
(***************************************************************************)
(* The messages of one channel as ChatService sends, edits, deletes,       *)
(* forwards and lists them: the attachments, which are rows of their own   *)
(* that a message is linked to after it was inserted, unless its sender    *)
(* names them himself: then nobody checks or links them; and the newest    *)
(* page, which Redis keeps for 30 seconds (invalidateCaches passes a glob  *)
(* to DEL, which deletes nothing).  Who may post is decided in                *)
(* SendPermission, the receipts are those of ReadReceipts, and the         *)
(* notifications those of Notifications.                                   *)
(***************************************************************************)
EXTENDS Naturals, FiniteSets

CONSTANTS
    Users,      \* the participants of the channel
    Senders,    \* those who post
    Admins,     \* those whose role lets them delete any message
    Ids,        \* message ids the channel may come to use
    Files,      \* files that are uploaded
    Slots,      \* requests in flight at once
    None,
    MaxCalls,   \* bound: requests that are made
    MaxFaults   \* bound: statements that fail, restarts

VARIABLES
    message,    \* message[m]: the messages row
    file,       \* file[f]: where the file is
    dropped,    \* files whose message_attachments row has is_deleted = 1
    page,       \* the key msgs:{channel}:{limit}:latest
    fills,      \* pages whose setImmediate has not run
    contested,  \* history: files sent by two requests, or sent and deleted, at once
    unchecked,  \* history: messages whose files the sender has named
    broke,      \* history: messages at which something failed
    call, calls, faults

tables == <<message, file, dropped>>
caches == <<page, fills>>
history == <<contested, unchecked, broke>>
vars == <<tables, caches, history, call, calls, faults>>

-----------------------------------------------------------------------------
Texts == {"first", "edited"}
Page == SUBSET (Ids \X Texts)
NoPage == {}   \* an empty page is never stored
Message == [by : Users, text : Texts, deleted : BOOLEAN, files : SUBSET Files]
NoMessage == [by |-> None]

Idle == [pc |-> "idle"]
Forward == [pc : {"forward.send"}, by : Users, text : Texts, left : Nat]
Write == [pc : {"edit.write", "delete.write"}, msg : Ids]
Drop == [pc : {"drop.write"}, what : Files]
Inserting == {"file.insert", "files.insert", "attachment.insert"}
Linking == {"file.row", "files.link", "attachment.link"}
Attach == [pc : {"files.row"} \cup Inserting \cup Linking, by : Users, todo : SUBSET Files,
           files : SUBSET Files, msg : Ids \cup {None}]

TypeOK ==
    /\ message \in [Ids -> Message \cup {NoMessage}]
    /\ file \in [Files -> {"none", "stored", "orphan"} \cup Ids]
    /\ page \in Page /\ fills \subseteq Page
    /\ dropped \subseteq Files /\ contested \subseteq Files
    /\ unchecked \subseteq Ids /\ broke \subseteq Ids
    /\ call \in [Slots -> Forward \cup Write \cup Drop \cup Attach \cup {Idle}]
    /\ calls \in 0..MaxCalls /\ faults \in 0..MaxFaults

Init ==
    /\ message = [m \in Ids |-> NoMessage]
    /\ file = [f \in Files |-> "none"]
    /\ dropped = {}
    /\ page = NoPage /\ fills = {}
    /\ contested = {} /\ unchecked = {} /\ broke = {}
    /\ call = [s \in Slots |-> Idle]
    /\ calls = 0 /\ faults = 0

At(s, pc) == call[s].pc = pc
Goto(s, pc) == call' = [call EXCEPT ![s].pc = pc]
Done(s) == call' = [call EXCEPT ![s] = Idle]
Counters == <<calls, faults>>
There(m) == message[m] # NoMessage

Begin(s, c) ==
    /\ call[s] = Idle
    /\ calls < MaxCalls
    /\ call' = [call EXCEPT ![s] = c]
    /\ calls' = calls + 1
    /\ UNCHANGED faults

Failing ==
    /\ faults < MaxFaults
    /\ faults' = faults + 1

\* sp_SendMessage_Fast: the row, under a new id.
Insert(m, u, text, files) ==
    /\ ~There(m)
    /\ message' = [message EXCEPT ![m] =
                       [by |-> u, text |-> text, deleted |-> FALSE, files |-> files]]

-----------------------------------------------------------------------------
\* sendMessage, with the attachments whose ids the request names: whatever files
\* they are, whoever's, used, deleted or not there, nobody looks; and none of
\* their rows is written.
SendMessage(s, u, m, named) ==
    /\ Insert(m, u, "first", named)
    /\ unchecked' = IF named = {} THEN unchecked ELSE unchecked \cup {m}
    /\ Begin(s, Idle)
    /\ UNCHANGED <<file, dropped, caches, contested, broke>>

\* replyInThread, to a message that may be deleted: the reply is sent to the
\* channel of its parent, which is this one.
ReplyInThread(s, u, parent, m) ==
    /\ There(parent)
    /\ SendMessage(s, u, m, {})

\* forwardMessage reads the original, deleted or not, once, ...
ForwardStart(s, u, m, copies) ==
    /\ There(m)
    /\ Begin(s, [pc |-> "forward.send", by |-> u, text |-> message[m].text, left |-> copies])
    /\ UNCHANGED <<tables, caches, history>>

\* ... and sends it to one channel after the other; here to this one, as often
\* as the list names it.
ForwardSend(s, m) ==
    LET c == call[s]
    IN  /\ At(s, "forward.send")
        /\ Insert(m, c.by, c.text, {})
        /\ call' = [call EXCEPT ![s] = IF c.left = 1 THEN Idle ELSE [c EXCEPT !.left = @ - 1]]
        /\ UNCHANGED <<file, dropped, caches, history, Counters>>

\* editMessage: 'Can only edit your own messages', and deleted ones too, ...
EditStart(s, u, m) ==
    /\ There(m) /\ message[m].by = u
    /\ Begin(s, [pc |-> "edit.write", msg |-> m])
    /\ UNCHANGED <<tables, caches, history>>

\* ... sp_EditMessage_Fast, external.
EditWrite(s) ==
    /\ At(s, "edit.write")
    /\ message' = [message EXCEPT ![call[s].msg].text = "edited"]
    /\ Done(s)
    /\ UNCHANGED <<file, dropped, caches, history, Counters>>

\* deleteMessage: 'Cannot delete this message', ...
DeleteStart(s, u, m) ==
    /\ There(m) /\ (message[m].by = u \/ u \in Admins)
    /\ Begin(s, [pc |-> "delete.write", msg |-> m])
    /\ UNCHANGED <<tables, caches, history>>

\* ... UPDATE messages SET is_deleted = 1.
DeleteWrite(s) ==
    /\ At(s, "delete.write")
    /\ message' = [message EXCEPT ![call[s].msg].deleted = TRUE]
    /\ Done(s)
    /\ UNCHANGED <<file, dropped, caches, history, Counters>>

-----------------------------------------------------------------------------
Sending(s, f) == call[s].pc \in {"files.row"} \cup Inserting \cup Linking /\ f \in call[s].files

SendFiles(s, u, fs, pc, at) ==
    /\ fs # {} /\ \A f \in fs : file[f] = "none"
    /\ file' = [f \in Files |-> IF f \in fs THEN at ELSE file[f]]
    /\ Begin(s, [pc |-> pc, by |-> u, todo |-> fs, files |-> fs, msg |-> None])
    /\ UNCHANGED <<message, dropped, caches, history>>

\* uploadMessageFile without sendAsMessage: the row of the file names the
\* message the request does, if any, and nothing is written to the message.
UploadMessageFile(s, f, m) ==
    /\ file[f] = "none"
    /\ m # None => There(m)
    /\ file' = [file EXCEPT ![f] = IF m = None THEN "orphan" ELSE m]
    /\ Begin(s, Idle)
    /\ UNCHANGED <<message, dropped, caches, history>>

\* deleteAttachment: 'You do not have permission to delete this attachment', ...
DeleteAttachment(s, u, f) ==
    /\ file[f] \notin {"none", "stored"} /\ f \notin dropped
    /\ file[f] \in Ids => message[file[f]].by = u \/ u \in Admins
    /\ Begin(s, [pc |-> "drop.write", what |-> f])
    /\ UNCHANGED <<tables, caches, history>>

\* ... UPDATE message_attachments SET is_deleted = 1.
DeleteAttachmentWrite(s) ==
    LET f == call[s].what
    IN  /\ At(s, "drop.write")
        /\ dropped' = dropped \cup {f}
        /\ contested' = contested \cup {g \in {f} : \E t \in Slots : Sending(t, g)}
        /\ Done(s)
        /\ UNCHANGED <<message, file, caches, unchecked, broke, Counters>>

\* sp_SendMessage_Fast with has_attachments = 1.
InsertWithFiles(s, m, next) ==
    /\ Insert(m, call[s].by, "first", call[s].files)
    /\ call' = [call EXCEPT ![s].pc = next, ![s].msg = m]
    /\ UNCHANGED <<file, dropped, caches, history, Counters>>

\* The rows get the message's id, wherever they belong by then.  Nobody is
\* notified of a file.
Link(s) ==
    LET c == call[s]
    IN  /\ file' = [f \in Files |-> IF f \in c.files THEN c.msg ELSE file[f]]
        /\ Done(s)
        /\ UNCHANGED <<message, dropped, caches, history, Counters>>

\* sendFileMessage stores the file; sendMultipleFileMessages does so with one
\* file after the other.
SendFileMessage(s, u, f) == SendFiles(s, u, {f}, "file.insert", "stored")

\* It inserts the message, ...
FileInsert(s, m) == At(s, "file.insert") /\ InsertWithFiles(s, m, "file.row")

\* ... and then the row of the file, which names the message.
FileRow(s) == At(s, "file.row") /\ Link(s)

\* sendMultipleFilesAsOneMessage stores the files, ...
SendMultipleFiles(s, u, fs) == SendFiles(s, u, fs, "files.row", "stored")

\* ... inserts the rows without a message, one after the other, ...
FilesRow(s) ==
    LET c == call[s]
    IN  /\ At(s, "files.row")
        /\ \E f \in c.todo :
               /\ file' = [file EXCEPT ![f] = "orphan"]
               /\ call' = [call EXCEPT ![s].todo = @ \ {f},
                                       ![s].pc = IF c.todo = {f} THEN "files.insert" ELSE @]
        /\ UNCHANGED <<message, dropped, caches, history, Counters>>

\* ... then the message with the ids of the rows, ...
FilesInsert(s, m) == At(s, "files.insert") /\ InsertWithFiles(s, m, "files.link")

\* ... and links them by one UPDATE.
FilesLink(s) == At(s, "files.link") /\ Link(s)

\* Mutant: an attachment that is in use is sent again.
SendAnyAttachment(s, u, f) ==
    /\ file[f] \notin {"none", "stored"}
    /\ Begin(s, [pc |-> "attachment.insert", by |-> u, todo |-> {}, files |-> {f}, msg |-> None])
    /\ contested' = contested \cup {g \in {f} : \E t \in Slots : Sending(t, g)}
    /\ UNCHANGED <<tables, caches, unchecked, broke>>

\* sendMessageWithExistingAttachment: 'Attachment not found, already used, or
\* access denied', ...
SendExistingAttachment(s, u, f) ==
    /\ file[f] = "orphan" /\ f \notin dropped
    /\ Begin(s, [pc |-> "attachment.insert", by |-> u, todo |-> {}, files |-> {f}, msg |-> None])
    /\ contested' = contested \cup {g \in {f} : \E t \in Slots : Sending(t, g)}
    /\ UNCHANGED <<tables, caches, unchecked, broke>>

\* ... the message, and the link.
AttachmentInsert(s, m) == At(s, "attachment.insert") /\ InsertWithFiles(s, m, "attachment.link")
AttachmentLink(s) == At(s, "attachment.link") /\ Link(s)

-----------------------------------------------------------------------------
\* getMessages of the newest page, not in Redis or not within 10 ms; the page is
\* stored by a callback, and an empty one is not.
Shown == {<<m, message[m].text>> : m \in {n \in Ids : There(n) /\ ~message[n].deleted}}

PageMiss(s) ==
    /\ Begin(s, Idle)
    /\ fills' = IF Shown = {} THEN fills ELSE fills \cup {Shown}
    /\ UNCHANGED <<tables, page, history>>

Fill(p) ==
    /\ p \in fills
    /\ page' = p /\ fills' = fills \ {p}
    /\ UNCHANGED <<tables, history, call, Counters>>

\* After 30 seconds.
PageExpires ==
    /\ page # NoPage
    /\ page' = NoPage
    /\ UNCHANGED <<tables, fills, history, call, Counters>>

-----------------------------------------------------------------------------
Involved(c) == IF c.pc \in Linking THEN {c.msg} ELSE {}

\* A statement of a request fails: the caller gets an error, and what was
\* written before stays.
RequestFails(s) ==
    /\ call[s] # Idle
    /\ Failing
    /\ broke' = broke \cup Involved(call[s])
    /\ Done(s)
    /\ UNCHANGED <<tables, caches, contested, unchecked, calls>>

\* The process restarts.
Crash ==
    /\ Failing
    /\ broke' = broke \cup UNION {Involved(call[s]) : s \in Slots}
    /\ call' = [s \in Slots |-> Idle]
    /\ fills' = {}
    /\ UNCHANGED <<tables, page, contested, unchecked, calls>>

MessageRequests(s) ==
    \/ \E u \in Senders, m \in Ids, fs \in SUBSET Files : SendMessage(s, u, m, fs)
    \/ \E u \in Senders, m \in Ids, p \in Ids : ReplyInThread(s, u, p, m)
    \/ \E u \in Senders, m \in Ids, copies \in 1..2 : ForwardStart(s, u, m, copies)
    \/ \E u \in Users, m \in Ids : EditStart(s, u, m) \/ DeleteStart(s, u, m)
    \/ PageMiss(s)
FileRequests(s) ==
    \/ \E f \in Files, m \in Ids \cup {None} : UploadMessageFile(s, f, m)
    \/ \E u \in Senders, f \in Files : SendFileMessage(s, u, f) \/ SendExistingAttachment(s, u, f)
    \/ \E u \in Senders, fs \in SUBSET Files : SendMultipleFiles(s, u, fs)
    \/ \E u \in Users, f \in Files : DeleteAttachment(s, u, f)

Steps(s) ==
    \/ EditWrite(s) \/ DeleteWrite(s) \/ DeleteAttachmentWrite(s)
    \/ FileRow(s) \/ FilesRow(s) \/ FilesLink(s) \/ AttachmentLink(s)
    \/ \E m \in Ids : ForwardSend(s, m) \/ FileInsert(s, m) \/ FilesInsert(s, m) \/ AttachmentInsert(s, m)

Next ==
    \/ \E s \in Slots : MessageRequests(s) \/ FileRequests(s) \/ Steps(s) \/ RequestFails(s)
    \/ \E p \in Page : Fill(p)
    \/ PageExpires \/ Crash

\* Requests that were begun and callbacks go on, and keys expire.
Fairness ==
    /\ \A s \in Slots : WF_vars(Steps(s))
    /\ WF_vars(\E p \in Page : Fill(p)) /\ WF_vars(PageExpires)

Spec == Init /\ [][Next]_vars /\ Fairness

-----------------------------------------------------------------------------
\* The files of a message are linked to it, once the request that links them is
\* over, unless it failed, the file was sent by two requests at once, or the
\* sender has named the files: sendMessage links none.
FilesStay ==
    \A m \in Ids : There(m) /\ m \notin broke \cup unchecked =>
        \A f \in message[m].files :
            \/ file[f] = m \/ f \in contested
            \/ \E s \in Slots : call[s].pc \in Linking /\ call[s].msg = m

\* No message is sent with an attachment that is deleted already, unless it was
\* deleted while the message was being sent, or the sender has named it.
SentFilesExist ==
    [][\A m \in Ids : ~There(m) /\ There(m)' /\ m \notin unchecked' =>
           message'[m].files \cap dropped \subseteq contested]_vars

\* A deleted message, and the text an edit replaced, leave the newest page for
\* good, although nothing deletes the page and an old one may be stored late.
Gone(m, t) == There(m) /\ (message[m].deleted \/ message[m].text # t)
PagesCatchUp ==
    \A m \in Ids, t \in Texts :
        Gone(m, t) ~> [](<<m, t>> \notin page)

=============================================================================
