------------------------------- MODULE SeqRun -------------------------------
(***************************************************************************)
(* What a loop over a sequence leaves: the filters, splits and sums of the *)
(* models, as the value of a step function taken from one element to the   *)
(* next.                                                                   *)
(***************************************************************************)
EXTENDS Integers, Sequences

\* Every value of the loop, from the first one (at 0) to the last.
Trace(step, first, s) ==
  LET value[n \in 0 .. Len(s)] ==
        IF n = 0 THEN first ELSE step[<<value[n - 1], s[n]>>]
  IN value

\* for x in s: value = step[value, x]
Run(step, first, s) == Trace(step, first, s)[Len(s)]
=============================================================================
