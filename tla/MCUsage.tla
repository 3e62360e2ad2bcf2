------------------------------ MODULE MCUsage ------------------------------
(***************************************************************************)
(* Instance of Usage for TLC: every vendor.                                *)
(***************************************************************************)
EXTENDS Usage

AllDialects == Vendors
=============================================================================
