------------------------------- MODULE Files --------------------------------
(***************************************************************************)
(* Uploads: HandleUpload, FileService.Save over the disk and the files     *)
(* table, and the downloads of what was announced.                         *)
(*                                                                         *)
(* A blob and its row are written one after the other, each may fail, so   *)
(* may the removal that rolls a blob back, and the process can die between *)
(* any two steps.  Disk and table survive it; requests and seats do not.   *)
(***************************************************************************)
EXTENDS Integers

CONSTANTS
    Upload,       \* upload requests; each makes a file ID of its own
    User,
    Uploader,     \* Upload -> the user whose session token it carries
    MaxCrashes    \* bound: process deaths

ASSUME FilesAssumption ==
    /\ Uploader \in [Upload -> User]
    /\ MaxCrashes \in Nat

VARIABLES
    phase,      \* where an upload's handler is; at its end: done, died with
                \* the process, or stuck with a blob it could not remove
    blob,       \* the file on disk: absent, being written, cut short, whole
    rows,       \* the files table
    member,     \* users connected and seated in the room
    audience,   \* members the file_message was sent to
    opened,     \* per upload: how far a download of it has come: its row, then
                \* what is on disk; missing, or unread after a read that failed
    crashes

vars == <<phase, blob, rows, member, audience, opened, crashes>>

TypeOK ==
    /\ phase \in [Upload -> {"start", "parsing", "writing", "cut", "stored",
                             "rollback", "recorded", "done", "died", "stuck"}]
    /\ blob \in [Upload -> {"none", "open", "cut", "whole"}]
    /\ rows \subseteq Upload
    /\ member \subseteq User
    /\ audience \in [Upload -> SUBSET User]
    /\ opened \in [Upload -> {"nothing", "row", "whole", "partial", "missing",
                              "unread"}]
    /\ crashes \in 0..MaxCrashes
    \* A handler that streams holds the file open, and has not recorded it.
    /\ \A u \in Upload : phase[u] = "writing" => blob[u] = "open"
    /\ \A u \in Upload : phase[u] = "recorded" => u \in rows

Init ==
    /\ phase = [u \in Upload |-> "start"]
    /\ blob = [u \in Upload |-> "none"]
    /\ rows = {}
    /\ member = {}
    /\ audience = [u \in Upload |-> {}]
    /\ opened = [u \in Upload |-> "nothing"]
    /\ crashes = 0

-----------------------------------------------------------------------------
Goto(u, p) == phase' = [phase EXCEPT ![u] = p]

\* Client and room.clients, asked once, before the body is read.
Allowed(u) == Uploader[u] \in member

\* What FileService.Save does first, and with what it goes on.
MutAfterWrite == "recorded"
AfterWrite == "stored"

\* What follows a copy that failed or a file that failed to close.
MutAfterCut == "stored"
AfterCut == "cut"

\* What follows an insert that failed.
MutAfterInsertFails == "done"
AfterInsertFails == "rollback"

\* Seats come and go meanwhile (module Presence).
Presence(v) ==
    /\ member' = IF v \in member THEN member \ {v} ELSE member \cup {v}
    /\ UNCHANGED <<phase, blob, rows, audience, opened, crashes>>

Check(u) ==
    /\ phase[u] = "start"
    /\ Goto(u, IF Allowed(u) THEN "parsing" ELSE "done")
    /\ UNCHANGED <<blob, rows, member, audience, opened, crashes>>

\* Too large, malformed, no file in it, or os.Create fails.
Rejected(u) ==
    /\ phase[u] = "parsing"
    /\ Goto(u, "done")
    /\ UNCHANGED <<blob, rows, member, audience, opened, crashes>>

CreateBlob(u) ==
    /\ phase[u] = "parsing"
    /\ blob' = [blob EXCEPT ![u] = "open"]
    /\ Goto(u, "writing")
    /\ UNCHANGED <<rows, member, audience, opened, crashes>>

WriteBlob(u) ==
    /\ phase[u] = "writing"
    /\ blob' = [blob EXCEPT ![u] = "whole"]
    /\ Goto(u, AfterWrite)
    /\ UNCHANGED <<rows, member, audience, opened, crashes>>

\* io.Copy or Close fails: diskstore removes what there is.
WriteFails(u) ==
    /\ phase[u] = "writing"
    /\ blob' = [blob EXCEPT ![u] = "cut"]
    /\ Goto(u, AfterCut)
    /\ UNCHANGED <<rows, member, audience, opened, crashes>>

InsertRow(u) ==
    /\ phase[u] = "stored"
    /\ rows' = rows \cup {u}
    /\ Goto(u, "recorded")
    /\ UNCHANGED <<blob, member, audience, opened, crashes>>

InsertFails(u) ==
    /\ phase[u] = "stored"
    /\ Goto(u, AfterInsertFails)
    /\ UNCHANGED <<blob, rows, member, audience, opened, crashes>>

\* os.Remove, whose error is ignored.
Remove(u) ==
    /\ phase[u] \in {"cut", "rollback"}
    /\ \/ blob' = [blob EXCEPT ![u] = "none"] /\ Goto(u, "done")
       \/ UNCHANGED blob /\ Goto(u, "stuck")
    /\ UNCHANGED <<rows, member, audience, opened, crashes>>

\* file_message, to whoever is in the room now.
Announce(u) ==
    /\ phase[u] = "recorded"
    /\ audience' = [audience EXCEPT ![u] = member]
    /\ Goto(u, "done")
    /\ UNCHANGED <<blob, rows, member, opened, crashes>>

\* HandleFileDownload of an ID that file_message or the history has shown.  A read
\* that fails is answered like an ID that is not there; one may click again.
GetRow(u) ==
    /\ opened[u] \in {"nothing", "unread"}
    /\ audience[u] # {} \/ u \in rows
    /\ opened' = [opened EXCEPT ![u] = IF u \in rows THEN "row" ELSE "missing"]
    /\ UNCHANGED <<phase, blob, rows, member, audience, crashes>>

GetRowFails(u) ==
    /\ opened[u] \in {"nothing", "unread"}
    /\ audience[u] # {} \/ u \in rows
    /\ opened' = [opened EXCEPT ![u] = "unread"]
    /\ UNCHANGED <<phase, blob, rows, member, audience, crashes>>

\* os.Open asks for nothing but a file of that name.
OpenBlob(u) ==
    /\ opened[u] = "row"
    /\ opened' = [opened EXCEPT ![u] = IF blob[u] = "none" THEN "missing"
                                      ELSE IF blob[u] = "whole" THEN "whole"
                                      ELSE "partial"]
    /\ UNCHANGED <<phase, blob, rows, member, audience, crashes>>

OpenFails(u) ==
    /\ opened[u] = "row"
    /\ opened' = [opened EXCEPT ![u] = "unread"]
    /\ UNCHANGED <<phase, blob, rows, member, audience, crashes>>

\* The process dies and starts again; disk and table are as they were.
Crash ==
    /\ crashes < MaxCrashes
    /\ crashes' = crashes + 1
    /\ phase' = [u \in Upload |-> IF phase[u] \in {"start", "done", "stuck"}
                                   THEN phase[u] ELSE "died"]
    /\ blob' = [u \in Upload |-> IF blob[u] = "open" THEN "cut" ELSE blob[u]]
    /\ member' = {}
    /\ opened' = [u \in Upload |-> IF opened[u] = "row" THEN "nothing" ELSE opened[u]]
    /\ UNCHANGED <<rows, audience>>

Next ==
    \/ \E u \in Upload :
          \/ Check(u) \/ Rejected(u)
          \/ CreateBlob(u) \/ WriteBlob(u) \/ WriteFails(u)
          \/ InsertRow(u) \/ InsertFails(u) \/ Remove(u)
          \/ Announce(u)
          \/ GetRow(u) \/ GetRowFails(u) \/ OpenBlob(u) \/ OpenFails(u)
    \/ \E v \in User : Presence(v)
    \/ Crash

Spec == Init /\ [][Next]_vars

-----------------------------------------------------------------------------
(* Properties *)

\* The half of file.go:28-29 that holds, whatever fails and whenever the process
\* dies: a row never stands for a file that is not whole on disk.
RowsHaveBlobs == \A u \in rows : blob[u] = "whole"

\* What a room was told of, or shows in its history, can be downloaded, at once
\* and after any restart: nothing but a read that fails refuses it, and never for
\* good; and what is served is the whole file.
ShownFilesOpen == \A u \in Upload : opened[u] \notin {"missing", "partial"}

\* The other half of file.go:28-29, "the blob is rolled back so storage and
\* metadata never diverge": an upload that failed at any point leaves nothing
\* behind.  It holds as long as the process lives and the removal, whose error is
\* ignored, works; a handler that died or got stuck may leave a blob for ever.
NoOrphans ==
    \A u \in Upload : phase[u] = "done" => (u \in rows <=> blob[u] # "none")

=============================================================================
