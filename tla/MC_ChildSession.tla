--------------------------- MODULE MC_ChildSession ---------------------------
(***************************************************************************)
(* Instances of ChildSession for TLC.                                      *)
(***************************************************************************)
EXTENDS ChildSession
=============================================================================
