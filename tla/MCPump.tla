------------------------------- MODULE MCPump -------------------------------
(***************************************************************************)
(* Instances of Pump for TLC: every body up to a length.                   *)
(***************************************************************************)
EXTENDS Pump

CONSTANT MaxBody  \* bound: the length of a body

AllBodies == BoundedSeq(Bytes, MaxBody)
=============================================================================
