----------------------------- MODULE AdminQuery -----------------------------
(***************************************************************************)
(* The outcome filter of the usage and calls pages (admin_query.go) over   *)
(* the rows one request through the proxy has recorded.                    *)
(***************************************************************************)
EXTENDS Proxy

\* outcomeSQL: the WHERE clause of each outcome.
Selects(outcome, r) ==
  CASE outcome = "ok" -> r.status \in 200 .. 299 /\ r.error = NoError
    [] outcome = "canceled" -> r.error = Canceled
    [] outcome = "no_response" -> r.status = 0 /\ r.error # Canceled
    [] outcome = "error" ->
         /\ r.status # 0
         /\ r.status \notin 200 .. 299 \/ r.error \notin {NoError, Canceled}

Outcomes == {"ok", "canceled", "no_response", "error"}

\* "The four outcomes partition llm_calls" (admin_query.go:40-41),
\* "partitioning every recorded call" (README.md:243): every recorded row has
\* exactly one outcome, so that the four counts of a page add up.
OutcomesPartition ==
  \A k \in 1 .. Len(rows) :
    \E o \in Outcomes : \A p \in Outcomes : Selects(p, rows[k]) <=> p = o
=============================================================================
