------------------------------ MODULE FileStore ------------------------------
(***************************************************************************)
(* The object store (R2) and the message_attachments rows that point into  *)
(* it: uploads, alone and in numbers, deletion of files and of a folder,   *)
(* copies and moves.  A move is a copy and a deletion; an upload for a     *)
(* message is an object and then a row.  The two stores share no           *)
(* transaction.                                                            *)
(***************************************************************************)
EXTENDS Naturals, FiniteSets

CONSTANTS
    Keys,       \* keys of one folder
    Files,      \* contents, each of which is uploaded once
    Slots,      \* requests in flight at once
    NoFile,     \* what a key holds that has no object
    MaxList,    \* keys that one listing returns (1000)
    MaxCalls,   \* bound: requests that are made
    MaxFaults   \* bound: calls of the store or the database that fail, restarts

VARIABLES
    store,      \* store[k]: the object of key k
    rows,       \* keys that message_attachments has a row of
    uploaded,   \* history: files the store has taken
    toRow,      \* history: keys that were uploaded for a message
    orphans,    \* history: of these, the ones whose row was never written
    removed,    \* history: files of which an object was deleted or overwritten
    claimed,    \* history: keys a deletion was answered for, and not written since
    slipped,    \* history: keys it left, a listing or a deletion having failed or been cut short
    disturbed,  \* history: moves whose keys another request wrote in between
    call, calls, faults

storage == <<store, rows>>
records == <<uploaded, toRow, orphans, removed, claimed, slipped, disturbed>>
vars == <<storage, records, call, calls, faults>>

-----------------------------------------------------------------------------
Idle == [pc |-> "idle"]
Request ==
    [pc : {"file.upload"}, kind : {"plain", "message", "chat"}, left : SUBSET Files,
     keys : SUBSET Keys]
    \cup [pc : {"folder.delete"}, found : SUBSET Keys, listed : SUBSET Keys]
    \cup [pc : {"move.delete"}, from : Keys, to : Keys]

TypeOK ==
    /\ store \in [Keys -> Files \cup {NoFile}] /\ rows \subseteq Keys
    /\ uploaded \subseteq Files /\ removed \subseteq Files
    /\ toRow \subseteq Keys /\ orphans \subseteq Keys
    /\ claimed \subseteq Keys /\ slipped \subseteq Keys
    /\ disturbed \subseteq Slots
    /\ call \in [Slots -> Request \cup {Idle}]
    /\ calls \in 0..MaxCalls /\ faults \in 0..MaxFaults

Init ==
    /\ store = [k \in Keys |-> NoFile] /\ rows = {}
    /\ uploaded = {} /\ toRow = {} /\ orphans = {} /\ removed = {}
    /\ claimed = {} /\ slipped = {} /\ disturbed = {}
    /\ call = [s \in Slots |-> Idle]
    /\ calls = 0 /\ faults = 0

At(s, pc) == call[s].pc = pc
Done(s) == call' = [call EXCEPT ![s] = Idle]
Counters == <<calls, faults>>
Fault == faults < MaxFaults /\ faults' = faults + 1 /\ UNCHANGED calls

Begin(s, c) ==
    /\ call[s] = Idle
    /\ calls < MaxCalls
    /\ call' = [call EXCEPT ![s] = c]
    /\ calls' = calls + 1
    /\ UNCHANGED faults

Present == {k \in Keys : store[k] # NoFile}
FilesAt(keys) == {store[k] : k \in keys \cap Present}

\* A write of these keys: the moves of other requests that it crosses.
Writes(s, keys) ==
    disturbed' = (disturbed \ {s}) \cup
        {t \in Slots \ {s} : At(t, "move.delete") /\ {call[t].from, call[t].to} \cap keys # {}}

\* These keys are deleted, or overwritten: what they held goes.
Removes(s, keys) ==
    /\ store' = [k \in Keys |-> IF k \in keys THEN NoFile ELSE store[k]]
    /\ removed' = removed \cup FilesAt(keys)
    /\ Writes(s, keys)

-----------------------------------------------------------------------------
\* The rest of an upload: nothing is left of it when every file has been tried
\* and every row.
Uploading(kind, left, keys) ==
    IF left = {} /\ keys = {} THEN Idle
    ELSE [pc |-> "file.upload", kind |-> kind, left |-> left, keys |-> keys]

\* upload and upload-multiple, for a message or not, and the chat's upload.
UploadFiles(s, kind, files) ==
    /\ files # {} /\ files \cap uploaded = {}
    /\ \A t \in Slots : At(t, "file.upload") => call[t].left \cap files = {}
    /\ Begin(s, Uploading(kind, files, {}))
    /\ UNCHANGED <<storage, records>>

\* The chat writes the row of a file before it uploads the next.
MayPut(s) == At(s, "file.upload") /\ (call[s].kind = "chat" => call[s].keys = {})

\* uploadFile: the key has the time and eight random bytes in it.
PutObject(s, f, k) ==
    LET c == call[s]
    IN  /\ MayPut(s) /\ f \in c.left
        /\ store[k] = NoFile /\ k \notin toRow
        /\ store' = [store EXCEPT ![k] = f]
        /\ uploaded' = uploaded \cup {f}
        /\ toRow' = IF c.kind = "plain" THEN toRow ELSE toRow \cup {k}
        /\ claimed' = claimed \ {k}
        /\ Writes(s, {k})
        /\ call' = [call EXCEPT ![s] =
                        Uploading(c.kind, c.left \ {f}, IF c.kind = "plain" THEN {} ELSE c.keys \cup {k})]
        /\ UNCHANGED <<rows, orphans, removed, slipped, Counters>>

\* A file that fails is left out, and the others are uploaded.
PutFails(s, f) ==
    LET c == call[s]
    IN  /\ MayPut(s) /\ f \in c.left
        /\ call' = [call EXCEPT ![s] = Uploading(c.kind, c.left \ {f}, c.keys)]
        /\ Fault
        /\ UNCHANGED <<storage, records>>

\* saveFileRecord, by sp_UploadAttachment_Fast: for a message when all files
\* have been uploaded, all rows at once, in whatever order they come in.
SaveFileRecord(s, k) ==
    LET c == call[s]
    IN  /\ At(s, "file.upload") /\ k \in c.keys /\ (c.kind = "message" => c.left = {})
        /\ rows' = rows \cup {k}
        /\ call' = [call EXCEPT ![s] = Uploading(c.kind, c.left, c.keys \ {k})]
        /\ UNCHANGED <<store, records, Counters>>

SaveFails(s, k) ==
    LET c == call[s]
    IN  /\ At(s, "file.upload") /\ k \in c.keys /\ (c.kind = "message" => c.left = {})
        /\ orphans' = orphans \cup {k}
        /\ call' = [call EXCEPT ![s] = Uploading(c.kind, c.left, c.keys \ {k})]
        /\ Fault
        /\ UNCHANGED <<storage, uploaded, toRow, removed, claimed, slipped, disturbed>>

-----------------------------------------------------------------------------
\* deleteFile and deleteMultipleFiles, which answers success though the store
\* says of some keys that it could not.
DeleteFiles(s, keys, done) ==
    /\ keys # {} /\ done \subseteq keys
    /\ call[s] = Idle /\ calls < MaxCalls /\ calls' = calls + 1
    /\ Removes(s, done)
    /\ claimed' = claimed \cup keys /\ slipped' = (slipped \ done) \cup (keys \ done)
    /\ IF done = keys THEN UNCHANGED faults ELSE faults < MaxFaults /\ faults' = faults + 1
    /\ UNCHANGED <<rows, uploaded, toRow, orphans, call>>

\* deleteFolder deletes what one listing returns, which is nothing if the
\* listing fails.
DeleteFolder(s, listed) ==
    /\ Present # {} /\ listed \subseteq Present
    /\ Cardinality(listed) = (IF Cardinality(Present) > MaxList THEN MaxList ELSE Cardinality(Present))
    /\ Begin(s, [pc |-> "folder.delete", found |-> Present, listed |-> listed])
    /\ UNCHANGED <<storage, records>>

ListFails(s) ==
    /\ call[s] = Idle /\ calls < MaxCalls /\ calls' = calls + 1
    /\ faults < MaxFaults /\ faults' = faults + 1
    /\ claimed' = claimed \cup Present /\ slipped' = slipped \cup Present
    /\ UNCHANGED <<storage, uploaded, toRow, orphans, removed, disturbed, call>>

DeleteListed(s) ==
    LET c == call[s]
    IN  /\ At(s, "folder.delete")
        /\ Removes(s, c.listed)
        /\ claimed' = claimed \cup c.found
        /\ slipped' = (slipped \ c.listed) \cup (c.found \ c.listed)
        /\ Done(s)
        /\ UNCHANGED <<rows, uploaded, toRow, orphans, Counters>>

-----------------------------------------------------------------------------
Copies(s, k, x) ==
    /\ store[k] # NoFile /\ k # x
    /\ store' = [store EXCEPT ![x] = store[k]]
    /\ removed' = removed \cup FilesAt({x})
    /\ claimed' = claimed \ {x} /\ slipped' = slipped \ {x}
    /\ Writes(s, {x})

\* copyFile overwrites what the destination held.
CopyFile(s, k, x) ==
    /\ Copies(s, k, x)
    /\ Begin(s, Idle)
    /\ UNCHANGED <<rows, uploaded, toRow, orphans>>

\* Mutant: a copy that fails does not stop the move.
MoveWhateverCopied(s, k, x) ==
    /\ store[k] # NoFile /\ k # x
    /\ Begin(s, [pc |-> "move.delete", from |-> k, to |-> x])
    /\ UNCHANGED <<storage, records>>

\* moveFile: a copy, and ...
MoveFile(s, k, x) ==
    /\ Copies(s, k, x)
    /\ Begin(s, [pc |-> "move.delete", from |-> k, to |-> x])
    /\ UNCHANGED <<rows, uploaded, toRow, orphans>>

\* ... the deletion of whatever the source holds by now.
DeleteSource(s) ==
    LET k == call[s].from
    IN  /\ At(s, "move.delete")
        /\ store' = [store EXCEPT ![k] = NoFile]
        /\ removed' = IF s \in disturbed THEN removed \cup FilesAt({k}) ELSE removed
        /\ Writes(s, {k})
        /\ Done(s)
        /\ UNCHANGED <<rows, uploaded, toRow, orphans, claimed, slipped, Counters>>

\* The rows that an interrupted upload does not write.
Unwritten(slots) ==
    UNION {call[s].keys : s \in {t \in slots : At(t, "file.upload")}}

\* The store refuses a deletion, which is answered as such.
DeletionFails(s) ==
    /\ call[s].pc \in {"folder.delete", "move.delete"}
    /\ Fault
    /\ disturbed' = disturbed \ {s}
    /\ Done(s)
    /\ UNCHANGED <<storage, uploaded, toRow, orphans, removed, claimed, slipped>>

Crash ==
    /\ Fault
    /\ orphans' = orphans \cup Unwritten(Slots)
    /\ disturbed' = {}
    /\ call' = [s \in Slots |-> Idle]
    /\ UNCHANGED <<storage, uploaded, toRow, removed, claimed, slipped>>

Next ==
    \/ \E s \in Slots :
           \/ \E files \in SUBSET Files :
                  \/ \E f \in files : files = {f} /\ UploadFiles(s, "plain", files)
                  \/ \E kind \in {"message", "chat"} : UploadFiles(s, kind, files)
           \/ \E f \in Files : PutFails(s, f) \/ \E k \in Keys : PutObject(s, f, k)
           \/ \E k \in Keys : SaveFileRecord(s, k) \/ SaveFails(s, k)
           \/ \E keys, done \in SUBSET Keys : DeleteFiles(s, keys, done)
           \/ \E listed \in SUBSET Keys : DeleteFolder(s, listed)
           \/ ListFails(s) \/ DeleteListed(s) \/ DeleteSource(s) \/ DeletionFails(s)
           \/ \E k, x \in Keys : CopyFile(s, k, x) \/ MoveFile(s, k, x)
    \/ Crash

Spec == Init /\ [][Next]_vars

-----------------------------------------------------------------------------
\* A file the store has taken is there under some key, unless an object of it
\* was deleted, overwritten, or moved while another request wrote to the source
\* or the destination: a move by itself loses nothing.
MovesLoseNothing == \A f \in uploaded : f \in FilesAt(Keys) \/ f \in removed

\* What was uploaded for a message has its row, or is about to have it, or
\* writing the row failed.
FilesRecorded == \A k \in toRow : k \in rows \cup orphans \cup Unwritten(Slots)

\* A key that a deletion was answered for holds nothing until it is written
\* again, unless a listing failed or was cut short or the store kept the key.
DeletedIsGone == \A k \in claimed \ slipped : store[k] = NoFile

=============================================================================
