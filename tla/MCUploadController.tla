------------------------- MODULE MCUploadController -------------------------
(***************************************************************************)
(* Instances of UploadController, and of Files below it, for TLC.          *)
(***************************************************************************)
EXTENDS UploadController, TLC

CONSTANTS ann, ben, up1, up2

\* One user uploads two files; another is in and out of the room.
MCUploader == up1 :> ann @@ up2 :> ann

=============================================================================
