--------------------------- MODULE MCFileTransfer ---------------------------
(***************************************************************************)
(* Instances of FileTransfer for TLC.                                      *)
(***************************************************************************)
EXTENDS FileTransfer, TLC

CONSTANTS small, large

\* One file fits into the buffer, the other makes its sender pause twice.
MCSize == small :> 1 @@ large :> 6

=============================================================================
