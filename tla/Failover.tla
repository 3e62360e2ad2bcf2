------------------------------ MODULE Failover ------------------------------
(***************************************************************************)
(* What the proxy promises the client of one request: the providers are    *)
(* tried in order, one after the other, the next one only when the current *)
(* one is out of service, and one of them answers, or the proxy does, or   *)
(* nobody because the client left.  The answer is final.                   *)
(***************************************************************************)
EXTENDS Naturals

CONSTANT N  \* the providers that serve the model and protocol, in order

VARIABLES
  tried,    \* the providers tried so far: 1 .. tried
  verdict,  \* on the provider tried last: "pending" or "outage"
  answer    \* "none" yet, "refused", "current" (the provider tried last, or
            \* the proxy about it), "unavailable", or "dropped" for nobody

fvars == <<tried, verdict, answer>>

FInit == tried = 0 /\ verdict = "outage" /\ answer = "none"

\* The request is invalid or nobody serves it: answered without an attempt.
Refuse == /\ tried = 0 /\ answer = "none"
          /\ answer' = "refused"
          /\ UNCHANGED <<tried, verdict>>

Try == /\ answer = "none" /\ verdict = "outage" /\ tried < N
       /\ tried' = tried + 1
       /\ verdict' = "pending"
       /\ UNCHANGED answer

Outage == /\ answer = "none" /\ verdict = "pending"
          /\ verdict' = "outage"
          /\ UNCHANGED <<tried, answer>>

\* The provider's own response, or the proxy's error about this attempt.
Answer == /\ answer = "none" /\ verdict = "pending"
          /\ answer' = "current"
          /\ UNCHANGED <<tried, verdict>>

Unavailable == /\ answer = "none" /\ verdict = "outage" /\ tried = N
               /\ answer' = "unavailable"
               /\ UNCHANGED <<tried, verdict>>

\* The client hung up before there was anything to send it.
Drop == /\ answer = "none" /\ verdict = "pending"
        /\ answer' = "dropped"
        /\ UNCHANGED <<tried, verdict>>

FNext == Refuse \/ Try \/ Outage \/ Answer \/ Unavailable \/ Drop

FSpec == FInit /\ [][FNext]_fvars
=============================================================================
