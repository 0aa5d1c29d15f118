------------------------------- MODULE MCPages -------------------------------
(***************************************************************************)
(* Small instances of Pages for TLC.                                       *)
(***************************************************************************)
EXTENDS MCTracking, PageGuarantees, MCNearest

Clicks == {"start", "cancel", "reject"}
=============================================================================
