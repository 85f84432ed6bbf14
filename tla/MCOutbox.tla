------------------------------ MODULE MCOutbox ------------------------------
(***************************************************************************)
(* An instance of Outbox for TLC.  Two connections are enough for two      *)
(* clean-ups that send to each other and wait for each other.              *)
(***************************************************************************)
EXTENDS Outbox

CONSTANTS c1, c2

=============================================================================
