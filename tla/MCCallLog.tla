----------------------------- MODULE MCCallLog -----------------------------
(***************************************************************************)
(* Instances of CallLog and its readers for TLC.  Calls and files are      *)
(* interchangeable.                                                        *)
(***************************************************************************)
EXTENDS CallPages, TLC

Symmetry == Permutations(Calls) \cup Permutations(Shas)
=============================================================================
