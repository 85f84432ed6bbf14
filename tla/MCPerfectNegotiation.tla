------------------------ MODULE MCPerfectNegotiation ------------------------
(***************************************************************************)
(* Instances of PerfectNegotiation for TLC.                                *)
(***************************************************************************)
EXTENDS PerfectNegotiation

CONSTANTS ann, ben

=============================================================================
