---------------------------- MODULE FilesProofs -----------------------------
(***************************************************************************)
(* For every number of uploads, users and crashes: a row of the files      *)
(* table stands for a whole file, what was shown can be downloaded, and    *)
(* the page that uploads tells the truth and clears up after itself.       *)
(***************************************************************************)
EXTENDS UploadController, FiniteSetTheorems, TLAPS

(***************************************************************************)
(* Why a row implies its blob: the row comes after the blob is whole, and  *)
(* an upload that still may cut or remove its blob has no row yet.         *)
(***************************************************************************)
RowInv ==
    /\ \A u \in Upload : phase[u] = "stored" => blob[u] = "whole"
    /\ \A u \in rows : phase[u] \in {"recorded", "done", "died"}
    /\ RowsHaveBlobs

\* Only uploads with a row are ever announced or opened.
ShownInv ==
    /\ \A u \in Upload : audience[u] # {} => u \in rows
    /\ \A u \in Upload : opened[u] = "row" => u \in rows
    /\ ShownFilesOpen

(***************************************************************************)
(* Types.                                                                  *)
(***************************************************************************)
LEMMA InitTypes == Init => TypeOK
BY FilesAssumption DEF Init, TypeOK

\* The steps of one upload's handler keep the types, and the two conjuncts that
\* tie the place of the handler to the disk and to the table.
LEMMA HandlerTypes ==
    ASSUME TypeOK, NEW u \in Upload,
           \/ Check(u) \/ Rejected(u) \/ CreateBlob(u) \/ WriteBlob(u)
           \/ WriteFails(u) \/ InsertRow(u) \/ InsertFails(u) \/ Remove(u)
           \/ Announce(u)
    PROVE  TypeOK'
<1>1. CASE Check(u)       BY <1>1 DEF TypeOK, Check, Goto
<1>2. CASE Rejected(u)    BY <1>2 DEF TypeOK, Rejected, Goto
<1>3. CASE CreateBlob(u)  BY <1>3 DEF TypeOK, CreateBlob, Goto
<1>4. CASE WriteBlob(u)   BY <1>4 DEF TypeOK, WriteBlob, Goto, AfterWrite
<1>5. CASE WriteFails(u)  BY <1>5 DEF TypeOK, WriteFails, Goto, AfterCut
<1>6. CASE InsertRow(u)   BY <1>6 DEF TypeOK, InsertRow, Goto
<1>7. CASE InsertFails(u) BY <1>7 DEF TypeOK, InsertFails, Goto, AfterInsertFails
<1>8. CASE Remove(u)      BY <1>8 DEF TypeOK, Remove, Goto
<1>9. CASE Announce(u)    BY <1>9 DEF TypeOK, Announce, Goto
<1> QED BY <1>1, <1>2, <1>3, <1>4, <1>5, <1>6, <1>7, <1>8, <1>9

LEMMA StepTypes == TypeOK /\ [Next]_vars => TypeOK'
<1> SUFFICES ASSUME TypeOK, [Next]_vars PROVE TypeOK'
    OBVIOUS
<1>1. ASSUME NEW u \in Upload,
             \/ Check(u) \/ Rejected(u) \/ CreateBlob(u) \/ WriteBlob(u)
             \/ WriteFails(u) \/ InsertRow(u) \/ InsertFails(u) \/ Remove(u)
             \/ Announce(u)
      PROVE  TypeOK'
    BY <1>1, HandlerTypes
<1>2. ASSUME NEW u \in Upload,
             GetRow(u) \/ GetRowFails(u) \/ OpenBlob(u) \/ OpenFails(u)
      PROVE  TypeOK'
    BY <1>2 DEF TypeOK, GetRow, GetRowFails, OpenBlob, OpenFails
<1>3. ASSUME NEW v \in User, Presence(v) PROVE TypeOK'
    BY <1>3 DEF TypeOK, Presence
<1>4. CASE Crash
    BY <1>4, FilesAssumption DEF TypeOK, Crash
<1>5. CASE UNCHANGED vars
    BY <1>5 DEF TypeOK, vars
<1> QED BY <1>1, <1>2, <1>3, <1>4, <1>5 DEF Next

\* Type correctness of the upload handlers, the disk and the files table.
THEOREM TypeCorrect == Spec => []TypeOK
<1>1. Init => TypeOK
    BY InitTypes
<1>2. TypeOK /\ [Next]_vars => TypeOK'
    BY StepTypes
<1> QED BY <1>1, <1>2, PTL DEF Spec

(***************************************************************************)
(* Rows and blobs.                                                         *)
(***************************************************************************)
LEMMA StepRows == TypeOK /\ RowInv /\ [Next]_vars => RowInv'
<1> SUFFICES ASSUME TypeOK, RowInv, [Next]_vars PROVE RowInv'
    OBVIOUS
<1> USE DEF TypeOK, RowInv, RowsHaveBlobs
<1>1. ASSUME NEW u \in Upload,
             \/ Check(u) \/ Rejected(u) \/ CreateBlob(u) \/ Announce(u)
      PROVE  RowInv'
    BY <1>1 DEF Check, Rejected, CreateBlob, Announce, Goto
<1>2. ASSUME NEW u \in Upload, WriteBlob(u) \/ WriteFails(u) PROVE RowInv'
    BY <1>2 DEF WriteBlob, WriteFails, Goto, AfterWrite, AfterCut
<1>3. ASSUME NEW u \in Upload, InsertRow(u) \/ InsertFails(u) PROVE RowInv'
    BY <1>3 DEF InsertRow, InsertFails, Goto, AfterInsertFails
<1>4. ASSUME NEW u \in Upload, Remove(u) PROVE RowInv'
    BY <1>4 DEF Remove, Goto
<1>5. ASSUME NEW u \in Upload,
             GetRow(u) \/ GetRowFails(u) \/ OpenBlob(u) \/ OpenFails(u)
      PROVE  RowInv'
    BY <1>5 DEF GetRow, GetRowFails, OpenBlob, OpenFails
<1>6. ASSUME NEW v \in User, Presence(v) PROVE RowInv'
    BY <1>6 DEF Presence
<1>7. CASE Crash
    BY <1>7 DEF Crash
<1>8. CASE UNCHANGED vars
    BY <1>8 DEF vars
<1> QED BY <1>1, <1>2, <1>3, <1>4, <1>5, <1>6, <1>7, <1>8 DEF Next

LEMMA RowsInvariant == Spec => []RowInv
<1>1. Init => RowInv
    BY DEF Init, RowInv, RowsHaveBlobs
<1>2. TypeOK /\ RowInv /\ [Next]_vars => RowInv'
    BY StepRows
<1> QED BY <1>1, <1>2, TypeCorrect, PTL DEF Spec

\* Whatever fails, and whenever the process dies, a row of the files table never
\* stands for a file that is not whole on disk.
THEOREM RowsAreWhole == Spec => []RowsHaveBlobs
<1>1. RowInv => RowsHaveBlobs
    BY DEF RowInv
<1> QED BY <1>1, RowsInvariant, PTL

(***************************************************************************)
(* Downloads.                                                              *)
(***************************************************************************)
LEMMA StepShown == TypeOK /\ RowInv /\ ShownInv /\ [Next]_vars => ShownInv'
<1> SUFFICES ASSUME TypeOK, RowInv, ShownInv, [Next]_vars PROVE ShownInv'
    OBVIOUS
<1> USE DEF TypeOK, ShownInv, ShownFilesOpen
<1>1. ASSUME NEW u \in Upload,
             \/ Check(u) \/ Rejected(u) \/ CreateBlob(u) \/ WriteBlob(u)
             \/ WriteFails(u) \/ InsertFails(u) \/ Remove(u)
      PROVE  ShownInv'
    BY <1>1 DEF Check, Rejected, CreateBlob, WriteBlob, WriteFails, InsertFails, Remove
<1>2. ASSUME NEW u \in Upload, InsertRow(u) PROVE ShownInv'
    BY <1>2 DEF InsertRow
<1>3. ASSUME NEW u \in Upload, Announce(u) PROVE ShownInv'
    BY <1>3 DEF Announce
<1>4. ASSUME NEW u \in Upload, GetRow(u) \/ GetRowFails(u) \/ OpenFails(u)
      PROVE  ShownInv'
    BY <1>4 DEF GetRow, GetRowFails, OpenFails
<1>5. ASSUME NEW u \in Upload, OpenBlob(u) PROVE ShownInv'
    BY <1>5 DEF OpenBlob, RowInv, RowsHaveBlobs
<1>6. ASSUME NEW v \in User, Presence(v) PROVE ShownInv'
    BY <1>6 DEF Presence
<1>7. CASE Crash
    BY <1>7 DEF Crash
<1>8. CASE UNCHANGED vars
    BY <1>8 DEF vars
<1> QED BY <1>1, <1>2, <1>3, <1>4, <1>5, <1>6, <1>7, <1>8 DEF Next

\* A file that a room was told of, or that its history lists, is never found
\* missing, nor cut short: only a read that fails refuses its download.
THEOREM ShownFilesCanBeOpened == Spec => []ShownFilesOpen
<1>1. Init => ShownInv
    BY DEF Init, ShownInv, ShownFilesOpen
<1>2. TypeOK /\ RowInv /\ ShownInv /\ [Next]_vars => ShownInv'
    BY StepShown
<1>3. ShownInv => ShownFilesOpen
    BY DEF ShownInv
<1> QED BY <1>1, <1>2, <1>3, TypeCorrect, RowsInvariant, PTL DEF Spec

(***************************************************************************)
(* Orphans: a handler that has not come to its blob yet has none, and      *)
(* every way to "done" removes the blob or has recorded it.                *)
(***************************************************************************)
OrphanInv ==
    /\ \A u \in Upload : phase[u] \in {"start", "parsing"} => blob[u] = "none"
    /\ NoOrphans

LEMMA StepOrphans == TypeOK /\ RowInv /\ OrphanInv /\ [Next]_vars => OrphanInv'
<1> SUFFICES ASSUME TypeOK, RowInv, OrphanInv, [Next]_vars PROVE OrphanInv'
    OBVIOUS
<1> USE DEF TypeOK, OrphanInv, NoOrphans, RowInv, RowsHaveBlobs
<1>1. ASSUME NEW u \in Upload, Check(u) \/ Rejected(u) \/ Announce(u)
      PROVE  OrphanInv'
    BY <1>1 DEF Check, Rejected, Announce, Goto
<1>2. ASSUME NEW u \in Upload, CreateBlob(u) \/ WriteBlob(u) \/ WriteFails(u)
      PROVE  OrphanInv'
    BY <1>2 DEF CreateBlob, WriteBlob, WriteFails, Goto, AfterWrite, AfterCut
<1>3. ASSUME NEW u \in Upload, InsertRow(u) \/ InsertFails(u) PROVE OrphanInv'
    BY <1>3 DEF InsertRow, InsertFails, Goto, AfterInsertFails
<1>4. ASSUME NEW u \in Upload, Remove(u) PROVE OrphanInv'
    BY <1>4 DEF Remove, Goto
<1>5. ASSUME NEW u \in Upload,
             GetRow(u) \/ GetRowFails(u) \/ OpenBlob(u) \/ OpenFails(u)
      PROVE  OrphanInv'
    BY <1>5 DEF GetRow, GetRowFails, OpenBlob, OpenFails
<1>6. ASSUME NEW v \in User, Presence(v) PROVE OrphanInv'
    BY <1>6 DEF Presence
<1>7. CASE Crash
    BY <1>7 DEF Crash
<1>8. CASE UNCHANGED vars
    BY <1>8 DEF vars
<1> QED BY <1>1, <1>2, <1>3, <1>4, <1>5, <1>6, <1>7, <1>8 DEF Next

\* An upload whose handler came to its end without a failed removal has left
\* both a row and a blob, or neither.
THEOREM NothingIsOrphaned == Spec => []NoOrphans
<1>1. Init => OrphanInv
    BY DEF Init, OrphanInv, NoOrphans
<1>2. TypeOK /\ RowInv /\ OrphanInv /\ [Next]_vars => OrphanInv'
    BY StepOrphans
<1>3. OrphanInv => NoOrphans
    BY DEF OrphanInv
<1> QED BY <1>1, <1>2, <1>3, TypeCorrect, RowsInvariant, PTL DEF Spec

(***************************************************************************)
(* The page above the server.  A step of UploadController is a step of     *)
(* Files or none of the server's, so what was proved of Files holds of it. *)
(***************************************************************************)
HandlerStep(u) ==
    \/ Check(u) \/ Rejected(u) \/ CreateBlob(u) \/ WriteBlob(u)
    \/ WriteFails(u) \/ InsertRow(u) \/ InsertFails(u) \/ Remove(u)
    \/ Announce(u)

LEMMA PageLeavesServer ==
    ASSUME \/ \E u \in Upload : Choose(u) \/ Answered(u) \/ Lost(u)
           \/ \E files \in SUBSET Upload : Drop(files)
           \/ DragEnter \/ DragLeave \/ Reset(TRUE) \/ Reset(FALSE)
    PROVE  UNCHANGED vars
BY DEF Choose, Answered, Lost, End, Drop, DragEnter, DragLeave, Reset, server,
       vars

LEMMA UploadStepIsFilesStep == [UploadNext]_uploadVars => [Next]_vars
<1> SUFFICES ASSUME [UploadNext]_uploadVars PROVE [Next]_vars
    OBVIOUS
<1>1. ASSUME NEW u \in Upload, HandleUpload(u) PROVE Next
    BY <1>1 DEF HandleUpload, Refusing, Accepting, Next
<1>2. CASE Elsewhere
    BY <1>2 DEF Elsewhere, Next
<1>3. CASE UNCHANGED uploadVars
    BY <1>3 DEF uploadVars, server, vars
<1> QED
    BY <1>1, <1>2, <1>3, PageLeavesServer DEF UploadNext

LEMMA UploadIsFiles == UploadSpec => Spec
<1>1. UploadInit => Init
    BY DEF UploadInit
<1> QED
    BY <1>1, UploadStepIsFilesStep, PTL DEF UploadSpec, Spec

\* The same three, of the server as the page of upload-controller.js drives it:
\* requests that start from a room, and run on when the page has left it.
THEOREM UploadsKeepFiles ==
    UploadSpec => [](RowsHaveBlobs /\ ShownFilesOpen /\ NoOrphans)
BY UploadIsFiles, RowsAreWhole, ShownFilesCanBeOpened, NothingIsOrphaned, PTL

\* The overlay's equivalence, which mixes a Boolean with arithmetic.
Overlay == overlay \in BOOLEAN /\ (overlay <=> dragDepth > 0)

LEMMA OverlayStep ==
    ASSUME UploadTypeOK, [UploadNext]_uploadVars
    PROVE  dragDepth' \in 0..MaxDepth /\ Overlay'
<1>0. dragDepth \in 0..MaxDepth /\ Overlay
    BY DEF UploadTypeOK, Overlay
<1>1. CASE UNCHANGED drag
    BY <1>0, <1>1 DEF Overlay, drag
<1>2. CASE dragDepth' = 0 /\ overlay' = FALSE
  <2>1. ~(0 > 0) /\ 0 \in 0..MaxDepth
      BY UploadAssumption
  <2> QED
      BY <1>2, <2>1, Zenon DEF Overlay
<1>3. CASE DragEnter
  <2>1. /\ dragDepth' \in 0..MaxDepth /\ dragDepth' > 0
        /\ dragDepth > 0 \/ dragDepth' = 1
      BY <1>0, <1>3, UploadAssumption DEF DragEnter
  <2>2. overlay' = TRUE
      BY <1>0, <1>3, <2>1, Zenon DEF DragEnter, Overlay
  <2> QED
      BY <2>1, <2>2, Zenon DEF Overlay
<1>4. CASE DragLeave
  <2>1. /\ dragDepth' \in 0..MaxDepth
        /\ dragDepth' > 0 <=> (dragDepth > 0 /\ dragDepth' # 0)
      BY <1>0, <1>4, UploadAssumption DEF DragLeave
  <2>2. overlay' \in BOOLEAN /\ (overlay' <=> (dragDepth > 0 /\ dragDepth' # 0))
      BY <1>0, <1>4, Zenon DEF DragLeave, Overlay
  <2> QED
      BY <2>1, <2>2, Zenon DEF Overlay
<1> QED
    BY <1>1, <1>2, <1>3, <1>4
    DEF UploadNext, Choose, Answered, Lost, End, HandleUpload, Drop, Reset,
        Elsewhere, uploadVars

\* Every variable of the page keeps its type; the drop overlay is there exactly
\* while a drag is inside.
THEOREM UploadTypeCorrect == UploadSpec => []UploadTypeOK
<1>1. UploadInit => UploadTypeOK
  <2>1. ~(0 > 0) /\ 0 \in 0..MaxDepth
      BY UploadAssumption
  <2>2. UploadInit => dragDepth \in 0..MaxDepth /\ Overlay
      BY <2>1, Zenon DEF UploadInit, Overlay
  <2> QED
      BY <2>2, InitTypes DEF UploadInit, UploadTypeOK, Overlay
<1>2. UploadTypeOK /\ [UploadNext]_uploadVars => UploadTypeOK'
  <2> SUFFICES ASSUME UploadTypeOK, [UploadNext]_uploadVars PROVE UploadTypeOK'
      OBVIOUS
  <2> DEFINE Request ==
                 /\ xhr \in [Upload -> {"none", "sent", "ok", "refused", "lost"}]
                 /\ answer \in [Upload -> {"none", "ok", "error"}]
                 /\ inRoom \in BOOLEAN
             Panel ==
                 /\ previewUrl \in Upload \cup {NoUrl}
                 /\ shown \in Upload \cup {NoUrl}
                 /\ urls \subseteq Upload
                 /\ panel \in BOOLEAN /\ progress \in BOOLEAN
                 /\ overlapped \in BOOLEAN
  <2>0. Request /\ Panel
      BY DEF UploadTypeOK
  <2>12. UNCHANGED <<inRoom, xhr, answer>> => Request'
      BY <2>0, Zenon
  <2>13. UNCHANGED <<preview, overlapped>> => Panel'
      BY <2>0, Zenon DEF preview
  <2> HIDE DEF Request, Panel
  <2>1. ASSUME NEW files \in SUBSET Upload, NEW media \in SUBSET files,
               Start(files, media), UNCHANGED <<inRoom, answer>>
        PROVE  Request' /\ Panel'
      BY <2>0, <2>1 DEF Start, Request, Panel
  <2>2. ASSUME NEW u \in Upload, Choose(u) PROVE Request' /\ Panel'
      BY <2>1, <2>2 DEF Choose
  <2>3. ASSUME NEW files \in SUBSET Upload, Drop(files) PROVE Request' /\ Panel'
      BY <2>12, <2>13, <2>1, <2>3 DEF Drop
  <2>4. DragEnter \/ DragLeave => Request' /\ Panel'
      BY <2>12, <2>13 DEF DragEnter, DragLeave
  <2>5. Reset(TRUE) \/ Reset(FALSE) => Request' /\ Panel'
      BY <2>0 DEF Reset, ClearPreview, UrlsAfterClear, Request, Panel
  <2>6. ASSUME NEW u \in Upload, Answered(u) \/ Lost(u)
        PROVE  Request' /\ Panel'
      BY <2>0, <2>6 DEF Answered, Lost, End, ClearsUp, ClearPreview,
         UrlsAfterClear, Request, Panel
  <2>7. ASSUME NEW u \in Upload, HandleUpload(u) PROVE Request' /\ Panel'
    <3>1. UNCHANGED <<inRoom, xhr, preview, overlapped>>
        BY <2>7 DEF HandleUpload
    <3>2. answer' \in [Upload -> {"none", "ok", "error"}]
        BY <2>0, <2>7 DEF HandleUpload, Refusing, Accepting, Request
    <3>3. Request'
        BY <2>0, <3>1, <3>2, Zenon DEF Request
    <3> QED
        BY <2>13, <3>1, <3>3
  <2>8. Elsewhere => Request' /\ Panel'
      BY <2>12, <2>13 DEF Elsewhere
  <2>9. UNCHANGED uploadVars => Request' /\ Panel'
      BY <2>12, <2>13 DEF uploadVars
  <2>10. Request' /\ Panel'
      BY <2>2, <2>3, <2>4, <2>5, <2>6, <2>7, <2>8, <2>9 DEF UploadNext
  <2>11. TypeOK'
      BY StepTypes, UploadStepIsFilesStep DEF UploadTypeOK
  <2> QED
      BY <2>10, <2>11, OverlayStep DEF UploadTypeOK, Overlay, Request, Panel
<1> QED
    BY <1>1, <1>2, PTL DEF UploadSpec

(***************************************************************************)
(* What is left on the page.                                               *)
(***************************************************************************)
\* What _upload shows when no request was under way is all there is to revoke.
PreviewInv ==
    /\ NothingIsLeftShown
    /\ PreviewUrlsAreRevoked
    /\ shown = previewUrl

LEMMA AtMostOne ==
    ASSUME NEW S, IsFiniteSet(S), ~(Cardinality(S) > 1),
           NEW x \in S, NEW y \in S
    PROVE  x = y
<1>1. Cardinality(S) \in Nat
    BY FS_CardinalityType
<1>2. Cardinality(S) = 0 \/ Cardinality(S) = 1
    BY <1>1
<1>3. CASE Cardinality(S) = 0
    BY <1>3, FS_EmptySet
<1>4. CASE Cardinality(S) = 1
  <2>1. \E z : S = {z}
      BY <1>4, FS_Singleton
  <2> QED
      BY <2>1
<1> QED
    BY <1>2, <1>3, <1>4

\* _upload, for files that were chosen or dropped together.
LEMMA StartPreview ==
    ASSUME UploadTypeOK, PreviewInv,
           NEW files \in SUBSET Upload, files # {},
           NEW media \in SUBSET files, Start(files, media)
    PROVE  PreviewInv'
<1>1. xhr' = [u \in Upload |-> IF u \in files THEN "sent" ELSE xhr[u]]
    BY DEF Start
<1>2. NothingIsLeftShown'
    BY <1>1 DEF NothingIsLeftShown, UnderWay
<1>3. (shown = previewUrl)' /\ (shown # NoUrl => shown \in urls)'
    BY DEF Start, PreviewInv, PreviewUrlsAreRevoked
<1>4. ASSUME ~overlapped' PROVE urls' \subseteq {previewUrl'}
  <2>1. ~overlapped /\ ~(Cardinality(UnderWay \cup files) > 1)
      BY <1>4 DEF Start
  <2>2. IsFiniteSet(UnderWay \cup files)
      BY UploadAssumption, FS_Subset DEF UnderWay
  <2>3. \A x, y \in UnderWay \cup files : x = y
      BY <2>1, <2>2, AtMostOne
  <2>4. UnderWay \cap files = {}
      BY DEF Start, UnderWay
  <2>5. UnderWay = {}
      BY <2>3, <2>4
  <2>6. previewUrl = NoUrl /\ urls = {}
      BY <2>1, <2>5, UploadAssumption
      DEF PreviewInv, NothingIsLeftShown, PreviewUrlsAreRevoked, UploadTypeOK
  <2> QED
      BY <2>3, <2>6 DEF Start
<1> QED
    BY <1>2, <1>3, <1>4 DEF PreviewInv, PreviewUrlsAreRevoked

LEMMA PreviewInvariance == UploadSpec => []PreviewInv
<1>1. UploadInit => PreviewInv
    BY DEF UploadInit, PreviewInv, NothingIsLeftShown, PreviewUrlsAreRevoked
<1>2. UploadTypeOK /\ PreviewInv /\ [UploadNext]_uploadVars => PreviewInv'
  <2> SUFFICES ASSUME UploadTypeOK, PreviewInv, [UploadNext]_uploadVars
               PROVE  PreviewInv'
      OBVIOUS
  <2>1. CASE UNCHANGED <<xhr, preview, overlapped>>
      BY <2>1 DEF PreviewInv, NothingIsLeftShown, PreviewUrlsAreRevoked,
         UnderWay, preview
  <2>2. ASSUME NEW u \in Upload, Choose(u) PROVE PreviewInv'
      BY <2>2, StartPreview DEF Choose
  <2>3. ASSUME NEW files \in SUBSET Upload, Drop(files) PROVE PreviewInv'
      BY <2>1, <2>3, StartPreview DEF Drop
  <2>4. CASE Reset(TRUE) \/ Reset(FALSE)
      BY <2>4 DEF Reset, ClearPreview, UrlsAfterClear, PreviewInv,
         NothingIsLeftShown, PreviewUrlsAreRevoked, UnderWay
  <2>5. ASSUME NEW u \in Upload, Answered(u) \/ Lost(u) PROVE PreviewInv'
      BY <2>5 DEF Answered, Lost, End, ClearsUp, ClearPreview, UrlsAfterClear,
         PreviewInv, NothingIsLeftShown, PreviewUrlsAreRevoked
  <2>6. CASE DragEnter \/ DragLeave
      BY <2>1, <2>6 DEF DragEnter, DragLeave
  <2>7. CASE Elsewhere \/ \E u \in Upload : HandleUpload(u)
      BY <2>1, <2>7 DEF Elsewhere, HandleUpload
  <2>8. CASE UNCHANGED uploadVars
      BY <2>1, <2>8 DEF uploadVars
  <2> QED
      BY <2>2, <2>3, <2>4, <2>5, <2>6, <2>7, <2>8 DEF UploadNext
<1> QED
    BY <1>1, <1>2, UploadTypeCorrect, PTL DEF UploadSpec

\* The finally of _upload leaves nothing of an upload on the page, in whatever
\* room the page is when the last request ends.
THEOREM NothingLeftShown == UploadSpec => []NothingIsLeftShown
BY PreviewInvariance, PTL DEF PreviewInv

\* The preview's element never has a URL that was revoked, and uploads that do
\* not overlap leave no URL behind (_clearPreview, upload-controller.js).
THEOREM UrlsAreRevoked == UploadSpec => []PreviewUrlsAreRevoked
BY PreviewInvariance, PTL DEF PreviewInv

(***************************************************************************)
(* What the page is told.  A handler that has answered is at its end and   *)
(* never moves again, so its answer stays true.                            *)
(***************************************************************************)
AnswerInv ==
    \A u \in Upload :
        /\ answer[u] = "ok" => phase[u] = "done" /\ u \in rows
        /\ answer[u] = "error" => phase[u] \in {"done", "stuck"} /\ u \notin rows
        /\ xhr[u] = "ok" => answer[u] = "ok"
        /\ xhr[u] = "refused" => answer[u] = "error"

\* A handler answers once, at its end.
LEMMA HandlerAnswers ==
    ASSUME UploadTypeOK, RowInv, AnswerInv, NEW u \in Upload, HandleUpload(u)
    PROVE  AnswerInv'
<1> USE DEF UploadTypeOK, TypeOK
<1>1. \A v \in Upload \ {u} :
          /\ phase'[v] = phase[v] /\ answer'[v] = answer[v]
          /\ v \in rows' <=> v \in rows
  <2>1. \A v \in Upload \ {u} : answer'[v] = answer[v]
      BY DEF HandleUpload, Refusing, Accepting
  <2>2. HandlerStep(u)
      BY DEF HandleUpload, Refusing, Accepting, HandlerStep
  <2>3. CASE Check(u) \/ Rejected(u) \/ CreateBlob(u) \/ WriteBlob(u)
      BY <2>1, <2>3 DEF Check, Rejected, CreateBlob, WriteBlob, Goto
  <2>4. CASE WriteFails(u) \/ InsertRow(u) \/ InsertFails(u)
      BY <2>1, <2>4 DEF WriteFails, InsertRow, InsertFails, Goto
  <2>5. CASE Remove(u) \/ Announce(u)
      BY <2>1, <2>5 DEF Remove, Announce, Goto
  <2> QED
      BY <2>2, <2>3, <2>4, <2>5 DEF HandlerStep
<1>2. phase[u] \notin {"done", "stuck"}
    BY DEF HandleUpload, Refusing, Accepting, Check, Rejected, CreateBlob,
       WriteBlob, WriteFails, InsertRow, InsertFails, Remove, Announce
<1>3. answer[u] = "none" /\ xhr[u] \notin {"ok", "refused"}
    BY <1>2 DEF AnswerInv
<1>4. CASE Accepting(u)
  <2>1. /\ answer' = [answer EXCEPT ![u] = "ok"]
        /\ phase' = [phase EXCEPT ![u] = "done"]
        /\ u \in rows /\ UNCHANGED <<rows, xhr>>
      BY <1>4 DEF Accepting, Announce, Goto, HandleUpload
  <2> QED
      BY <1>1, <1>3, <2>1 DEF AnswerInv
<1>5. CASE Refusing(u)
  <2>1. phase'[u] \in {"done", "stuck"} => u \notin rows'
    <3>1. CASE Check(u) \/ Rejected(u) \/ Remove(u)
        BY <3>1 DEF Check, Rejected, Remove, Goto, RowInv
    <3>2. CASE CreateBlob(u) \/ WriteBlob(u) \/ WriteFails(u)
        BY <3>2 DEF CreateBlob, WriteBlob, WriteFails, Goto, AfterWrite, AfterCut
    <3>3. CASE InsertRow(u) \/ InsertFails(u)
        BY <3>3 DEF InsertRow, InsertFails, Goto, AfterInsertFails
    <3> QED
        BY <1>5, <3>1, <3>2, <3>3 DEF Refusing
  <2>2. /\ answer'[u] = IF phase'[u] \in {"done", "stuck"} THEN "error" ELSE "none"
        /\ UNCHANGED xhr
      BY <1>3, <1>5 DEF Refusing, HandleUpload
  <2> QED
      BY <1>1, <1>3, <2>1, <2>2 DEF AnswerInv
<1> QED
    BY <1>4, <1>5 DEF HandleUpload

LEMMA AnswerInvariance == UploadSpec => []AnswerInv
<1>1. UploadInit => AnswerInv
    BY DEF UploadInit, AnswerInv
<1>2. UploadTypeOK /\ RowInv /\ AnswerInv /\ [UploadNext]_uploadVars => AnswerInv'
  <2> SUFFICES ASSUME UploadTypeOK, RowInv, AnswerInv, [UploadNext]_uploadVars
               PROVE  AnswerInv'
      OBVIOUS
  <2> USE DEF UploadTypeOK
  <2>1. ASSUME NEW files \in SUBSET Upload, NEW media, Start(files, media),
               UNCHANGED <<phase, rows, answer>>
        PROVE  AnswerInv'
      BY <2>1 DEF Start, AnswerInv
  <2>2. ASSUME NEW u \in Upload, Choose(u) PROVE AnswerInv'
      BY <2>1, <2>2 DEF Choose, server
  <2>3. CASE UNCHANGED <<phase, rows, answer, xhr>>
      BY <2>3 DEF AnswerInv
  <2>4. ASSUME NEW files \in SUBSET Upload, Drop(files) PROVE AnswerInv'
      BY <2>1, <2>3, <2>4 DEF Drop, server
  <2>5. CASE DragEnter \/ DragLeave \/ Reset(TRUE) \/ Reset(FALSE)
      BY <2>3, <2>5 DEF DragEnter, DragLeave, Reset, server
  <2>6. ASSUME NEW u \in Upload, Answered(u) \/ Lost(u) PROVE AnswerInv'
      BY <2>6 DEF Answered, Lost, End, server, AnswerInv
  <2>7. ASSUME NEW u \in Upload, HandleUpload(u) PROVE AnswerInv'
      BY <2>7, HandlerAnswers
  <2>8. CASE Elsewhere
    <3>1. CASE Crash
        BY <2>8, <3>1 DEF Elsewhere, Crash, AnswerInv
    <3>2. CASE \/ \E u \in Upload : \/ GetRow(u) \/ GetRowFails(u)
                                    \/ OpenBlob(u) \/ OpenFails(u)
               \/ \E v \in User : Presence(v)
        BY <2>3, <2>8, <3>2 DEF Elsewhere, GetRow, GetRowFails, OpenBlob, OpenFails,
                                    Presence
    <3> QED
        BY <2>8, <3>1, <3>2 DEF Elsewhere
  <2>9. CASE UNCHANGED uploadVars
      BY <2>3, <2>9 DEF uploadVars, server
  <2> QED
      BY <2>2, <2>4, <2>5, <2>6, <2>7, <2>8, <2>9 DEF UploadNext
<1> QED
    BY <1>1, <1>2, UploadTypeCorrect, UploadIsFiles, RowsInvariant, PTL
    DEF UploadSpec

\* What the page is told of an upload is so, and stays so when the process dies:
\* no error means a row and a whole blob, an error from the server means that
\* the file is not there and never will be (HandleUpload's answers).
THEOREM AnswersHold == UploadSpec => []AnswersAreTrue
<1>1. RowInv /\ AnswerInv => AnswersAreTrue
    BY DEF RowInv, RowsHaveBlobs, AnswerInv, AnswersAreTrue
<1> QED
    BY <1>1, AnswerInvariance, UploadIsFiles, RowsInvariant, PTL

=============================================================================
