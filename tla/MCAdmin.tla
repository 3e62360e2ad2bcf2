------------------------------ MODULE MCAdmin ------------------------------
(***************************************************************************)
(* Instance of Admin for TLC: calls up to a Thursday, 10:25, of the 61st   *)
(* week, read then, half a second later, and as the cookie expires.        *)
(***************************************************************************)
EXTENDS Admin

Now == 60 * Week + 3 * Day + 10 * Hour + 25 * Minute
TwoCreds == {[user |-> "root", pass |-> p] : p \in {"old", "new"}}
SomeInstants == {Now + d : d \in {1, TTL}}

\* Calls weeks, days, hours and one tick ago, the week of the new year among
\* them, and one that was inserted after two that took their time later.
Row(t, m) == [at |-> t, model |-> m]
SomeHistories ==
  {<<Row(Now - 7 * Hour, "b"), Row(Now - Hour - Minute, "a")>>,
   <<Row(Now - 80 * Day, "a"), Row(Now - 59 * Day, "b"), Row(Now - Day, "a")>>,
   <<Row(Now - 9 * Hour, "a"), Row(Now - Hour - 1, "a"), Row(Now - 1, "a")>>,
   <<Row(Now - Day + 3, "a"), Row(Now - Day + 3, "a"), Row(Now - Day, "a")>>}

Custom(from, to) == [num |-> 1, range |-> "custom", from |-> from, to |-> to, model |-> AnyModel]
Ranged(range, m) == [num |-> 1, range |-> range, from |-> Bad, to |-> Bad, model |-> m]
SomeQueries ==
  {Ranged("", AnyModel), Ranged("24h", "a"), Ranged("90d", AnyModel),
   [Ranged("all", AnyModel) EXCEPT !.num = 2],
   Custom(Now - Hour - Minute, Now + Hour), Custom(Now - 400 * Day, Now),
   Custom(Now, Now - Day), Custom(Now - 30 * Day - Minute, Bad)}
=============================================================================
