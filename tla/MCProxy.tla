------------------------------ MODULE MCProxy ------------------------------
(***************************************************************************)
(* Instances of Proxy for TLC: one status of each kind that forward and    *)
(* the call log tell apart.                                                *)
(***************************************************************************)
EXTENDS Proxy

SomeStatuses == {200, 404, 500, 502, 504}
=============================================================================
