------------------------------ MODULE MCSSELog ------------------------------
(***************************************************************************)
(* Instance of SSELog for TLC: a content delta, one that carries the       *)
(* finish_reason too, and one with content and reasoning.                  *)
(***************************************************************************)
EXTENDS SSELog

DeltaFields == [a |-> {"content"}, f |-> {"content", "finish"},
                b |-> {"content", "reasoning"}]
=============================================================================
