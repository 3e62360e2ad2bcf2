---------------------------- MODULE MCAdminQuery ----------------------------
(***************************************************************************)
(* Instance of AdminQuery for TLC.                                         *)
(***************************************************************************)
EXTENDS AdminQuery, MCProxy
=============================================================================
