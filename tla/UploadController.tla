-------------------------- MODULE UploadController --------------------------
(***************************************************************************)
(* The page's side of uploads, static/js/upload-controller.js, over the    *)
(* server's (module Files): choosing and dropping files, the preview and   *)
(* the progress bar, and the request that ends whenever the server answers *)
(* or the connection is lost, in whatever room the page is by then.        *)
(*                                                                         *)
(* A preview's object URL is named by its upload.                          *)
(***************************************************************************)
EXTENDS Files, FiniteSets

CONSTANTS
    NoUrl,      \* no object URL
    MaxDepth    \* bound: nested elements a drag has entered

ASSUME UploadAssumption ==
    /\ IsFiniteSet(Upload)
    /\ NoUrl \notin Upload
    /\ MaxDepth \in Nat

VARIABLES
    inRoom,     \* getUploadTarget finds a room and a token
    xhr,        \* the request: not made, under way, or how it ended
    answer,     \* what the handler answered
    previewUrl, \* _previewUrl
    urls,       \* object URLs that were created and not revoked
    shown,      \* the URL in the preview's element
    panel,      \* the preview panel is visible, if the room view is
    progress,   \* and the progress bar in it
    dragDepth, overlay,
    overlapped  \* history: two uploads were under way at once

server == <<phase, blob, rows, member, audience, opened, crashes>>
preview == <<previewUrl, urls, shown, panel, progress>>
drag == <<dragDepth, overlay>>
uploadVars == <<server, inRoom, xhr, answer, preview, drag, overlapped>>

UploadTypeOK ==
    /\ TypeOK
    /\ xhr \in [Upload -> {"none", "sent", "ok", "refused", "lost"}]
    /\ answer \in [Upload -> {"none", "ok", "error"}]
    /\ previewUrl \in Upload \cup {NoUrl}
    /\ shown \in Upload \cup {NoUrl}
    /\ urls \subseteq Upload
    /\ inRoom \in BOOLEAN /\ panel \in BOOLEAN /\ progress \in BOOLEAN
    /\ overlapped \in BOOLEAN
    /\ dragDepth \in 0..MaxDepth
    /\ overlay \in BOOLEAN /\ (overlay <=> dragDepth > 0)

UploadInit ==
    /\ Init
    /\ inRoom = FALSE
    /\ xhr = [u \in Upload |-> "none"]
    /\ answer = [u \in Upload |-> "none"]
    /\ previewUrl = NoUrl /\ urls = {} /\ shown = NoUrl
    /\ panel = FALSE /\ progress = FALSE
    /\ dragDepth = 0 /\ overlay = FALSE
    /\ overlapped = FALSE

-----------------------------------------------------------------------------
UnderWay == {u \in Upload : xhr[u] = "sent"}

\* _clearPreview: what it leaves.
MutUrlsAfterClear == urls
UrlsAfterClear == urls \ {previewUrl}

ClearPreview ==
    /\ panel' = FALSE
    /\ shown' = NoUrl
    /\ urls' = UrlsAfterClear
    /\ previewUrl' = NoUrl

\* _upload, up to its await, for files that were chosen or dropped together; of
\* those that are media the last one stays in the preview.
Start(files, media) ==
    /\ \A u \in files : xhr[u] = "none"
    /\ xhr' = [u \in Upload |-> IF u \in files THEN "sent" ELSE xhr[u]]
    /\ urls' = urls \cup media
    /\ \/ media = {} /\ UNCHANGED <<previewUrl, shown>>
       \/ \E u \in media : previewUrl' = u /\ shown' = u
    /\ panel' = TRUE /\ progress' = TRUE
    /\ overlapped' = (overlapped \/ Cardinality(UnderWay \cup files) > 1)

Choose(u) ==
    /\ inRoom
    /\ \E media \in SUBSET {u} : Start({u}, media)
    /\ UNCHANGED <<server, inRoom, answer, drag>>

\* What is dropped need not have files in it.
Drop(files) ==
    /\ inRoom
    /\ \/ files = {} /\ UNCHANGED <<xhr, preview, overlapped>>
       \/ files # {} /\ \E media \in SUBSET files : Start(files, media)
    /\ dragDepth' = 0 /\ overlay' = FALSE
    /\ UNCHANGED <<server, inRoom, answer>>

DragEnter ==
    /\ inRoom
    /\ dragDepth < MaxDepth
    /\ dragDepth' = dragDepth + 1
    /\ overlay' = (overlay \/ dragDepth' = 1)
    /\ UNCHANGED <<server, inRoom, xhr, answer, preview, overlapped>>

DragLeave ==
    /\ inRoom
    /\ dragDepth' = IF dragDepth > 0 THEN dragDepth - 1 ELSE 0
    /\ overlay' = (overlay /\ dragDepth' # 0)
    /\ UNCHANGED <<server, inRoom, xhr, answer, preview, overlapped>>

\* room_joined, and every way out of a room: uploads.reset.  Requests go on, and
\* the progress bar stays in the hidden panel.
Reset(nowInRoom) ==
    /\ inRoom \/ nowInRoom
    /\ inRoom' = nowInRoom
    /\ ClearPreview
    /\ dragDepth' = 0 /\ overlay' = FALSE
    /\ UNCHANGED <<server, xhr, answer, progress, overlapped>>

\* Which ends of a request clear up: all, it is a finally.
MutClearsUp(how) == how = "ok"
ClearsUp(how) == TRUE

End(u, how) ==
    /\ xhr[u] = "sent"
    /\ xhr' = [xhr EXCEPT ![u] = how]
    /\ IF ClearsUp(how) THEN ClearPreview /\ progress' = FALSE
       ELSE UNCHANGED preview
    /\ UNCHANGED <<server, inRoom, answer, drag, overlapped>>

\* load: a status from 200 to 299, or another one.
Answered(u) ==
    \/ answer[u] = "ok" /\ End(u, "ok")
    \/ answer[u] = "error" /\ End(u, "refused")

\* error: the connection is lost, with the process or without it.
Lost(u) == End(u, "lost")

\* The handler of a request, and what it answers at its end.
Refusing(u) ==
    /\ \/ Check(u) \/ Rejected(u) \/ CreateBlob(u) \/ WriteBlob(u)
       \/ WriteFails(u) \/ InsertRow(u) \/ InsertFails(u) \/ Remove(u)
    /\ answer' = IF phase'[u] \in {"done", "stuck"}
                 THEN [answer EXCEPT ![u] = "error"] ELSE answer

Accepting(u) ==
    /\ Announce(u)
    /\ answer' = [answer EXCEPT ![u] = "ok"]

HandleUpload(u) ==
    /\ xhr[u] # "none"
    /\ Refusing(u) \/ Accepting(u)
    /\ UNCHANGED <<inRoom, xhr, preview, drag, overlapped>>

Elsewhere ==
    /\ \/ \E u \in Upload : GetRow(u) \/ GetRowFails(u) \/ OpenBlob(u) \/ OpenFails(u)
       \/ \E v \in User : Presence(v)
       \/ Crash
    /\ UNCHANGED <<inRoom, xhr, answer, preview, drag, overlapped>>

UploadNext ==
    \/ \E u \in Upload : Choose(u) \/ Answered(u) \/ Lost(u) \/ HandleUpload(u)
    \/ \E files \in SUBSET Upload : Drop(files)
    \/ DragEnter \/ DragLeave
    \/ Reset(TRUE) \/ Reset(FALSE)
    \/ Elsewhere

UploadSpec == UploadInit /\ [][UploadNext]_uploadVars

-----------------------------------------------------------------------------
(* Properties *)

\* When no request is under way nothing of the last one is left on the page,
\* whatever rooms it was in meanwhile and in whatever order requests ended.
NothingIsLeftShown ==
    UnderWay = {} => ~panel /\ ~progress /\ shown = NoUrl /\ previewUrl = NoUrl

\* The preview never shows a URL that was revoked, and no URL outlives its
\* upload (upload-controller.js:2 "preview lifecycle"), if uploads do not overlap:
\* the URL of a preview that another one replaced is kept for ever.
PreviewUrlsAreRevoked ==
    /\ shown # NoUrl => shown \in urls
    /\ ~overlapped => urls \subseteq {previewUrl}

\* What the page is told of an upload is so, on disk and in the table, also when
\* the process has died since: no error means that the file is there, and an
\* error that the server sent means that it never will be.  Only after a lost
\* connection does the page say "Upload error" of a file that may appear.
AnswersAreTrue ==
    \A u \in Upload :
        /\ xhr[u] = "ok" => u \in rows /\ blob[u] = "whole"
        /\ xhr[u] = "refused" => u \notin rows /\ phase[u] \notin {"stored", "recorded"}

=============================================================================
