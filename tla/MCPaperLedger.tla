---------------------------- MODULE MCPaperLedger ----------------------------
(***************************************************************************)
(* Instances of PaperLedger for TLC.                                       *)
(***************************************************************************)
EXTENDS PaperLedger, TLC

CONSTANTS m1, w1, w2

=============================================================================
