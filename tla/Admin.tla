------------------------------- MODULE Admin -------------------------------
(***************************************************************************)
(* The usage and calls pages (admin.go, admin_filter.go, admin_query.go):  *)
(* a filter from the URL, the chart of a window in buckets, and the list   *)
(* of calls read page after page through the links each page carries,      *)
(* while calls are inserted and time goes on.  A call has its created_at   *)
(* before it has its id: the two orders differ when calls are recorded at  *)
(* once.  The filter is kept on its window and its model; provider, key    *)
(* and outcome restrict the rows the same way.  Times are ticks of half a  *)
(* second, tick 0 is a Monday, the 1st of January, and a year has 365 days *)
(* (what leap days and months are is left out).                            *)
(***************************************************************************)
EXTENDS Session, SeqRun, FiniteSets

CONSTANTS
  Reader,     \* the browser that reads the pages
  Writers,    \* handlers that record calls
  Models,     \* models of the calls that are recorded
  Queries,    \* URLs typed, or sent by the filter form
  Histories,  \* the rows there are at the start
  PageSize,   \* adminPageSize
  MaxCalls,   \* bound: rows there may be for another call to be recorded
  AnyModel,   \* no restriction to one model
  Bad         \* a time that is absent or does not parse

Minute == 60 * Second
Hour == 60 * Minute
Day == 24 * Hour
Week == 7 * Day
MaxUsageRange == 366 * Day
MaxPage == 1000000

Time == Int \cup {Bad}
Call == [at : Nat, model : STRING]
URL == [num : Int, range : STRING, from : Time, to : Time,
        model : {AnyModel} \cup STRING]

ASSUME AdminAssumption ==
  /\ Reader \in Browsers /\ PageSize \in Nat \ {0} /\ MaxCalls \in Nat
  /\ Queries \subseteq URL /\ Bad \notin Int /\ Models \subseteq STRING
  /\ Histories \subseteq Seq(Call)
  /\ \A h \in Histories : \A i \in DOMAIN h : h[i].at <= Start

VARIABLES
  calls,  \* llm_calls, by id: created_at and model
  taken,  \* the row of each writer that has its time and is not inserted yet
  page,   \* what the browser shows, or its handler is doing
  walk    \* a reading of the list from its first page on: the calls it had
          \* then, those of them shown since, and where its window began

vars == <<sessionVars, calls, taken, page, walk>>

----------------------------------------------------------------------------
\* parseAdminFilter and the links.
Presets == {"24h", "7d", "30d", "90d"}
Span(range) == CASE range = "24h" -> Day [] range = "7d" -> Week
                 [] range = "30d" -> 30 * Day [] range = "90d" -> 90 * Day

Default(kind) == IF kind = "calls" THEN "all" ELSE "7d"

\* A custom window that cannot be used falls back to the page's default.
CustomFits(q, kind) ==
  /\ q.from # Bad /\ q.to # Bad
  /\ q.from < q.to
  /\ kind = "usage" => q.to - q.from <= MaxUsageRange

RangeOf(q, kind) ==
  IF q.range \in Presets \/ (q.range = "custom" /\ CustomFits(q, kind))
  THEN q.range ELSE Default(kind)

\* A filter on "all" has no window.
Filter(range, from, to, model) ==
  [range |-> range, from |-> from, to |-> to, model |-> model]
Bounded(f) == f.range # "all"

ParseFilter(q, now, kind) ==
  LET range == RangeOf(q, kind)
  IN CASE range = "all" -> Filter(range, 0, 0, q.model)
       [] range = "custom" -> Filter(range, q.from, q.to, q.model)
       [] range \in Presets -> Filter(range, now - Span(range), now, q.model)

\* deriveAdminBucket
Bucket(f) == CASE f.to - f.from <= 48 * Hour -> "hour"
               [] f.to - f.from > 62 * Day -> "week"
               [] OTHER -> "day"

\* adminFilter.values and pagerURL: the default range is left out, RFC3339 has
\* no fraction.
Whole(t) == t - (t % Second)

PageURL(f, num) ==
  [num |-> num,
   range |-> IF f.range = Default("calls") THEN "" ELSE f.range,
   from |-> IF f.range = "custom" THEN Whole(f.from) ELSE Bad,
   to |-> IF f.range = "custom" THEN Whole(f.to) ELSE Bad,
   model |-> f.model]

\* clampAdminPage: what is no number reads as 0.
ClampPage(num) == IF num < 1 THEN 1 ELSE IF num > MaxPage THEN MaxPage ELSE num

----------------------------------------------------------------------------
\* The queries.  adminFilterSQL: the rows a filter selects.
Selected(f) ==
  {i \in DOMAIN calls :
     /\ Bounded(f) => f.from <= calls[i].at /\ calls[i].at < f.to
     /\ f.model \in {AnyModel, calls[i].model}}

\* listCalls: ORDER BY id DESC, OFFSET, LIMIT.
Rank(ids, i) == Cardinality({j \in ids : j > i})

Rows(f, num) ==
  LET ids == Selected(f)
      offset == (num - 1) * PageSize
  IN {i \in ids : offset <= Rank(ids, i) /\ Rank(ids, i) < offset + PageSize}

Size(bucket) == CASE bucket = "hour" -> Hour [] bucket = "day" -> Day
                  [] bucket = "week" -> Week

\* truncateToBucket
Truncate(t, bucket) == t - (t % Size(bucket))

\* Weeks of ISO 8601, for t.ISOWeek and for %x-W%v: the year the Thursday of
\* the week is in, and which Thursday of that year it is.
Year == 365
ISOWeek(day) ==
  LET thursday == day - (day % 7) + 3
  IN <<thursday \div Year, (thursday % Year) \div 7>>

\* Mutant: %Y-W%v, the week with the year of the day itself.
SQLLabelYear(t, bucket) ==
  CASE bucket = "hour" -> <<t \div Hour>> [] bucket = "day" -> <<t \div Day>>
    [] bucket = "week" -> <<(t \div Day) \div Year, ISOWeek(t \div Day)[2]>>

\* bucketSQLFormat: the label DATE_FORMAT gives a row.  (A date, and a date and
\* an hour, are as distinct as the days and the hours they stand for.)
SQLLabel(t, bucket) ==
  CASE bucket = "hour" -> <<t \div Hour>> [] bucket = "day" -> <<t \div Day>>
    [] bucket = "week" -> ISOWeek(t \div Day)

\* bucketLabel: the label the handler gives a bucket.
BucketLabel(t, bucket) ==
  CASE bucket = "hour" -> <<t \div Hour>> [] bucket = "day" -> <<t \div Day>>
    [] bucket = "week" -> ISOWeek(t \div Day)

\* queryUsageSeries: the number of calls per label that has any.
Series(f) ==
  LET Of(i) == SQLLabel(calls[i].at, Bucket(f))
  IN [label \in {Of(i) : i \in Selected(f)} |->
        Cardinality({i \in Selected(f) : Of(i) = label})]

\* Mutant: the buckets are counted from the start of the window.
BucketsUntruncated(f) ==
  LET size == Size(Bucket(f))
  IN [k \in 1 .. (f.to - f.from + size - 1) \div size |->
        Truncate(f.from + (k - 1) * size, Bucket(f))]

\* The loop of fillUsageBuckets: from truncateToBucket, by nextBucket, as long
\* as it is before the end.
Buckets(f) ==
  LET size == Size(Bucket(f))
      first == Truncate(f.from, Bucket(f))
  IN [k \in 1 .. (f.to - first + size - 1) \div size |-> first + (k - 1) * size]

\* fillUsageBuckets: a label without calls is a bar of height 0.
Bars(f) ==
  LET series == Series(f)
      starts == Buckets(f)
      Height(label) == IF label \in DOMAIN series THEN series[label] ELSE 0
  IN [k \in DOMAIN starts |-> Height(BucketLabel(starts[k], Bucket(f)))]

\* totals.Calls += b.Calls
AddUp == [a \in Nat \X Nat |-> a[1] + a[2]]

----------------------------------------------------------------------------
NoLink == [num |-> 0]
\* The browser shows nothing of this, a list or a chart, or listCalls is between
\* its two statements; inserts is what was inserted between them.
NoPage == [at |-> "none"]
Counted(f, num, total, inserts) ==
  [at |-> "counted", filter |-> f, num |-> num, total |-> total, inserts |-> inserts]
List(f, inserts, next) ==
  [at |-> "list", filter |-> f, inserts |-> inserts, next |-> next]
Chart(total, due) == [at |-> "chart", total |-> total, due |-> due]

\* No reading goes on.
NoWalk == [due |-> {}, seen |-> {}, from |-> 0]

AdminInit ==
  /\ SessionInit
  /\ calls \in Histories /\ taken = [w \in Writers |-> {}]
  /\ page = NoPage /\ walk = NoWalk

\* Reading the list starts on its first page, follows Next, and is over when
\* the reader opens anything else.
Walk(f, num, next) ==
  walk' = IF num = 1 THEN [due |-> Selected(f), seen |-> {}, from |-> f.from]
          ELSE IF next THEN walk ELSE NoWalk

\* handleAdminCalls up to the first statement of listCalls, COUNT(*).
CountCalls(url, next) ==
  LET f == ParseFilter(url, clock, "calls")
      num == ClampPage(url.num)
  IN /\ page' = Counted(f, num, Cardinality(Selected(f)), 0)
     /\ Walk(f, num, next)
     /\ UNCHANGED calls

\* A query failed: a page that only says so.
QueryFails == page' = NoPage /\ walk' = NoWalk /\ UNCHANGED calls

\* handleAdminUsage: one query, the buckets filled, and the bars added up.
ShowUsage(url) ==
  LET f == ParseFilter(url, clock, "usage")
  IN /\ page' = Chart(Run(AddUp, 0, Bars(f)), Selected(f))
     /\ walk' = NoWalk
     /\ UNCHANGED calls

\* The reader opens a URL, or the Next of the list it is on.
Open(cookie) ==
  /\ page.at # "counted"
  /\ Admit(Reader, cookie)
  /\ \/ \E url \in Queries : CountCalls(url, FALSE) \/ ShowUsage(url)
     \/ page.at = "list" /\ page.next # NoLink /\ CountCalls(page.next, TRUE)
     \/ QueryFails
  /\ UNCHANGED taken

\* Mutant: the link to the next page only when there is a whole one.
NextLinkWhole(f, num, rows, total) ==
  IF num * PageSize + PageSize <= total THEN PageURL(f, num + 1) ELSE NoLink

\* The link to the next page, from the rows of this one and the earlier total.
NextLink(f, num, rows, total) ==
  IF (num - 1) * PageSize + Cardinality(rows) < total
  THEN PageURL(f, num + 1) ELSE NoLink

\* The second statement of listCalls, and the page is shown.
FindCalls ==
  /\ page.at = "counted"
  /\ LET rows == Rows(page.filter, page.num)
     IN /\ page' = List(page.filter, page.inserts,
                        NextLink(page.filter, page.num, rows, page.total))
        /\ walk' = [walk EXCEPT !.seen = walk.seen \cup (rows \cap walk.due)]
  /\ UNCHANGED <<sessionVars, calls, taken>>

FindFails == page.at = "counted" /\ QueryFails /\ UNCHANGED <<sessionVars, taken>>

\* Record, up to the INSERT: gorm sets created_at from NowFunc, and then waits
\* for one of the connections.
TakeTime(w, m) ==
  /\ taken[w] = {} /\ Len(calls) < MaxCalls
  /\ taken' = [taken EXCEPT ![w] = {[at |-> clock, model |-> m]}]
  /\ UNCHANGED <<sessionVars, calls, page, walk>>

\* The INSERT: the row gets the next id, with the time it had taken.
Insert(w, row) ==
  /\ row \in taken[w]
  /\ taken' = [taken EXCEPT ![w] = {}]
  /\ calls' = Append(calls, row)
  /\ page' = IF page.at = "counted"
             THEN Counted(page.filter, page.num, page.total, page.inserts + 1)
             ELSE page
  /\ UNCHANGED <<sessionVars, walk>>

\* It fails: Record logs that and returns.
InsertFails(w) ==
  /\ taken[w] # {}
  /\ taken' = [taken EXCEPT ![w] = {}]
  /\ UNCHANGED <<sessionVars, calls, page, walk>>

\* The session's own steps; a process that ends takes its handlers along, and
\* a browser sent to /login shows no page.
Others ==
  \/ /\ \/ \E b \in Browsers : \/ \E c \in Creds : Login(b, c)
                               \/ Logout(b)
                               \/ Ask(b)
        \/ \E t \in Instants : Elapse(t)
     /\ UNCHANGED <<calls, taken, page, walk>>
  \/ /\ page.at # "counted"
     /\ \E cookie \in sent[Reader] : Redirect(Reader, cookie)
     /\ QueryFails /\ UNCHANGED taken
  \/ \E b \in Browsers \ {Reader} : \E cookie \in sent[b] :
       (Admit(b, cookie) \/ Redirect(b, cookie)) /\ UNCHANGED <<calls, taken, page, walk>>
  \/ /\ \E c \in Creds : Restart(c)
     /\ taken' = [w \in Writers |-> {}]
     /\ IF page.at = "counted" THEN QueryFails
        ELSE UNCHANGED <<calls, page, walk>>

AdminNext == \/ \E cookie \in sent[Reader] : Open(cookie)
             \/ FindCalls \/ FindFails
             \/ \E w \in Writers : \/ \E m \in Models : TakeTime(w, m)
                                  \/ \E row \in taken[w] : Insert(w, row)
                                  \/ InsertFails(w)
             \/ Others

AdminSpec == AdminInit /\ [][AdminNext]_vars

----------------------------------------------------------------------------
\* The total over a chart, added up bar by bar, is the number of calls of its
\* window: the labels the database groups by and the ones the handler fills
\* the chart with fit together, whatever the window's ends and at a new year.
ChartAddsUp ==
  page.at = "chart" => page.total = Cardinality(page.due)

\* The calls that have left the window since the reading began: a window of
\* the last hours or days moves on from page to page.
Dropped(f) ==
  {j \in DOMAIN calls : /\ walk.from <= calls[j].at /\ calls[j].at < f.from
                        /\ f.model \in {AnyModel, calls[j].model}}

\* Reading the list through its links to the end, from its first page, shows
\* every call it had at the start and that its window still holds, except for
\* as many as were inserted while the last page was between its two queries -
\* and for those that a dropped call was listed above: with the order of the
\* list (by id) not that of the window (by created_at), its going moves them
\* up, and onto a page that was shown before.
ListReadWhole ==
  page.at = "list" /\ page.next = NoLink
    => Cardinality({i \in (walk.due \cap Selected(page.filter)) \ walk.seen :
                      \A j \in Dropped(page.filter) : j < i}) <= page.inserts
=============================================================================
