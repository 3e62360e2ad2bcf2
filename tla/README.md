# nanollm in TLA+

nanollm is a proxy between LLM clients and vendor APIs. A client names a model;
the proxy tries the model's providers in order, streams the first response that
is not an outage back to the client, and records every attempt in MySQL, with
request and response bodies for a retention window. This directory models the
parts of it that are hard to test: what happens between two SQL statements, when
a client hangs up, how a stream is cut into chunks, when a process ends.

Every definition is translated from the Go source; `PROJECT.json` ("map") names
the lines of each one. Comments in the modules that begin with "Mutant:" mark a
plausible bug in the definition that follows; `PROJECT.json` ("mutants") pairs
each with the property that finds it.

## 1. Inventory

Who calls whom:

    main --> Server --> requireAPIKey --> Proxy.ServeHTTP --> forward (per provider)
                                             |                  |--> pumpStream --> client
                                   Config.providersFor          |       '--> sseLogWriter --> capBuffer
                                                                '--> Record --> MySQL
                                                                        '--> go pruneAsync --> MySQL
    Server --> requireAdmin --> usage, calls and detail pages --> MySQL

| Component | State it keeps | Operations | What is hard | What makes it correct |
|---|---|---|---|---|
| call log, `db.go` | tables `llm_calls`, `llm_files`, `llm_call_files`; in memory `sincePrune` and the mutex `pruning` | `Record`, `storeFiles`, `pruneAsync`, `prune`, `pruneFiles` | no transactions: Records and prunes of many goroutines interleave between statements; the clock moves; statements fail; the process ends | a call inside the retention window keeps blobs, joins and files; expired ones go; one prune at a time, not too early; the mutex comes back |
| proxy, `proxy.go` | per request: provider index, status line sent or not, record of the attempt | `ServeHTTP`, `forward`, `logCall` | ways an attempt can fail, in combination with a client that leaves | answer, order of attempts and log rows fit together; nothing is retried once the client has a status line |
| failover policy, `failover.go` | none | `isCatastrophic` | errors that are several things at once | an outage moves on, a timeout after the dial does not |
| stream pump, `usage.go` | shared read buffer, channel, ticker, incomplete line | `pumpStream`, `copySSE`, `copyNDJSON` | reader goroutine against handler against ticker against client | the client and the log get the raw bytes; each line is scanned once; no goroutine is left; no silence |
| usage parsing, `usage.go` | usage of a stream so far | `mergeUsage` and the parsers | ten vendors' fields, partial and repeated reports, streams cut anywhere | the row has what was billed, and its totals fit together |
| SSE log, `sse_log.go` | incomplete line and event, pending merged event | `Write`, `Flush`, `handleEvent`, merges per dialect | chunk boundaries, events longer than the cap, ends in the middle | no text lost or reordered, the same log for every chunking |
| configuration, `config.go` | the configuration, read-only after `loadConfig` | `validate`, `providersFor`, `bind`, `resolve` | shared by all requests, with precedence of models | a request gets the attempts the file asks for |
| request rewriting, `rewrite.go` | none | `parseRequest`, `rewriteRequest` | - | - |
| file extraction, `files.go` | none | `extractFiles`, `mergeExtracted` | recursion, map order, the same bytes in several encodings and places | all files and only files are replaced; placeholders and files match |
| admin sessions, `admin_auth.go` | a signed cookie at the browser, none at the server | login, logout, `requireAdmin` | expiry, changed passwords, cookies kept through restarts and logouts | only who logged in as the configured user gets in, until expiry |
| admin pages, `admin*.go` | none: a URL carries the filter | usage page, calls page, detail page, file download | several queries per page while the tables change; windows that move between pages | four outcomes partition the calls; bars add up; a list read through its links is whole; a page's links resolve |
| API keys, `auth.go` | none | `requireAPIKey` | - | - |
| process, `main.go`, `server.go` | HTTP server, database handle | start, serve, shut down | requests and prunes in progress at shutdown, a failing listener | requests are finished and recorded before the database is closed |
| frontend, `web/`, `web_static.go` | none | static | - | - |

`PROJECT.json` lists the components with what is and is not modelled, and the
hazards, each at its line with the properties that would catch it.

## 2. Modules

| Module | Models | Used by |
|---|---|---|
| `CallLog` | `db.go`: Records, their prune goroutines, clock, restarts | `CallPages`, `Lifecycle`, `CallLogProofs` |
| `CallPages` | the detail page and its file links over the tables of `CallLog` | `MCCallLog`, `CallLogProofs` |
| `Lifecycle` | `main.go`: start, signal, drain, exit around `CallLog` | `MCLifecycle`, `CallLogProofs` |
| `Failover` | what a request promises: the abstract specification | `Proxy` |
| `Proxy` | one request through `ServeHTTP` and `forward` | `MCProxy`, `ProxyProofs`, `AdminQuery` |
| `Pump` | `pumpStream`: the copy of a stream, in detail | `MCPump`, `PumpProofs` |
| `Usage` | the parsers and `mergeUsage` over the lines `Pump` scans | `MCUsage`, `RecordProofs` |
| `SSELog` | `sseLogWriter`: coalescing the logged stream | `MCSSELog`, `SSELogProofs` |
| `Files` | `extractFiles`: what `Record` stores of the two bodies | `MCFiles`, `RecordProofs` |
| `Routing` | `validate`, `providersFor`, `resolve` | `MCRouting`, `RoutingProofs` |
| `Session` | admin login, cookie, logout, restart | `Admin` |
| `SeqRun` | no part of the program: what a loop over a sequence leaves (`Run`) | `Pump`, `SSELog`, `Files`, `Routing`, `Admin` |
| `Admin` | usage and calls pages of a reader with a session | `MCAdmin`, `AdminProofs` |
| `AdminQuery` | `outcomeSQL` over the rows `Proxy` records | `MCAdminQuery` |
| `CallLogProofs`, `ProxyProofs`, `PumpProofs`, `RecordProofs`, `SSELogProofs`, `RoutingProofs`, `AdminProofs` | theorems | - |
| `SeqRunProofs` | lemmas about `Run`, and induction | `PumpProofs`, `SSELogProofs`, `RecordProofs`, `RoutingProofs`, `AdminProofs` |

### CallLog
Each call of `Record` is one element of `Calls`; `pc[c]` follows first `Record`
and then the goroutine it starts. One action is one SQL statement or one piece
of code between statements: `InsertCall`, `StampFiles` (`now := time.Now()` in
`storeFiles`), `UpsertFiles`, `InsertJoins`; `TryLock`/`LockBusy`,
`CountOnly`/`StartPrune`, `PruneBlobs`, `PruneJoins`, `PruneFiles`. Every
statement may fail (`InsertFails`, `StoreFails`, `PruneFails`). `created_at` is
read before the INSERT and the stamp after it, so both may be old when they
reach the table. `Restart` ends the process anywhere; `Init` has any leftovers
of an earlier process. A file is its SHA-256; bodies, sizes and MIME types are
left out. The extracted files of a call are any set (none with retention
disabled, as in the code), and a row may have its blobs or not, whatever was
extracted: `clipBlob` may drop a body whose files are stored (`Files`).
Accordingly `DetailComplete` speaks of joins and files, and `DetailKept`, a
property of steps, of the blobs that a row did get.

`StoreBound` is the one assumption about timing: the longest time between a
row's `created_at` and its join rows. The code has no such bound; the properties
that need one say so (section 5).

### CallPages and Lifecycle
Both extend `CallLog` by variables of their own and leave its actions as they
are, so that what is proved of `CallLog` holds of them.

`CallPages` adds one page: `ReadCall` is the SELECT of the call, `ListFiles` the
one of its files (which may fail; the page is then shown without), and `page`
holds what the browser has until it asks for another one.

`Lifecycle` puts each `Record` into the handler of a connection, and the process
into a `phase`: serving, draining (`Shutdown` runs), closed (`closeDB` ran), down.
In the phase closed a statement can only fail; `refused` is the history of
Records that met this. Prune goroutines run on until the process ends; nobody
waits for them. `Exit` is the end of `main`, `Killed` the second signal or any
other sudden end: both are `Restart` of `CallLog` plus the end of every
connection.

### Proxy and Failover
An error is the set of facts the code asks about: dial, dns, timeout, reset,
canceled. `pc` follows the handler: `serve` (read and check the request),
`loop`, `forward`, `sent` (in `client.Do`), `drain` (an outage body),
`copy`, `record` (`logCall`), `decide` (back in `ServeHTTP`), `done`.
`head` is the status line sent to the client (`tw.wrote`), `rows` what was
logged, and `end` how net/http ends the response when the handler returns:
clean, or cut when fewer bytes than a forwarded `Content-Length` were written.
A hang-up cancels the request's context and thereby whatever the handler waits
for, and every later attempt before it is sent. Data is counted in bytes and
copied in chunks of any size; the copy of a stream in detail is `Pump`'s
subject, its log is `SSELog`'s. The error text of a row is as distinct as what
is known of the error, except that `copyErrText` makes one text of everything
it takes for a departed client.

`Failover` says the same in six actions: try the next provider only after an
outage, then one final answer. `Proxy` implements it under the mapping `Promise`
(property `KeepsPromise`).

### Pump
The body is a sequence of line bytes and newlines, read in pieces of any size
up to the buffer. With keepalive, the goroutine (`reader`) fills the shared
`buf`, and puts a `readOp` into the channel of size one; the handler selects
between it and the ticker. `tick` is the one tick a ticker's channel holds.
Client writes fail once the client is gone, and partly; a canceled or closed
body makes a read fail. `lines` is the history of calls of `scan`.

### SSELog
A stream is a sequence of tokens: a newline, or the rest of a line (a delta
with its fields, other data, a comment). Bytes are followed by their positions,
so that lost, doubled or reordered text shows. `Merge` is `mergeSSE` whatever
the dialect: text fields are appended, `finish_reason`, usage and the like are
replaced. A field is there or not: a `finish_reason` of null counts as absent,
since `mergeOpenAIChoice` skips it, while `usage` or `sequence_number` count as
there whatever their value, since `copyLastField` asks for the key alone; a
`usage` of null can thus take the place of an earlier one in the log. A token is
never cut, so `Spill` writes out at token boundaries; the JSON layouts (choices,
tool calls, their indexes), and merges that fail half-way on malformed ones, are
left out.

### Routing
`file` is what the YAML says, `providers` and `models` what the process holds
after `Load`. `Request` runs `providersFor` and, in turn, `resolve`, and
records the attempts. The reference `Configured` reads the table of the
project's README over the file alone. Endpoint URLs are taken to be valid.

### Usage
A line has at most one usage object, at a place of its JSON and with the fields
of one of ten vendors' dialects; `ParseUsage` finds it where the code looks,
`AsTokenUsage` reads its fields and `MergeUsage` merges it into the row's. A
vendor is modelled by what it does: it reports running totals, any number of
times and between other lines, and its last report has everything (external, as
the parsers and their tests use it). `billed` is what it means by its numbers.
A stream that mixes conventions, with an explicit count of uncached tokens and
later an input that does not fit it, say, is none of them: what the merge makes
of it is not shown.

### Files
A body is the list of its JSON values in the order in which they begin; a value
is an object, an array, a string or something else, and knows by key or index
which later values are in it. A string is a sequence of the parts that matter
(text, data URL, `b64_json` field, mark). A digest stands for the bytes, so that
one file in two encodings has one. The recursion of `rewriteJSON` is a walk: one
action per kind of value takes the first value of `todo`, changes its strings,
and puts the values in it before the rest, as the calls nest. Go ranges over maps
in any order, so `VisitObject` puts the members it goes into in any order. `at`
is the body that is walked; `Begin` starts with the request and then with the
response. `Store` is `Record` up to its INSERT: the files of both are merged, and
`clipBlob` drops a body that its placeholders made too long, after `Begin` had
asked `retainableBlob` about it as it was sent. Only payloads and placeholders
count for a length; what else re-encoding changes is taken to be as long.

### Session and Admin
`Session` keeps cookies in `jar` and requests that are under way in `sent`, with
the cookie they carry. A cookie is its expiry, user and key; the key is what it
is derived from, so a MAC is right exactly when key and content are.
`Unix` drops fractions, hence ticks of half a second. `logins` is a history, and
`answered` is what the latest request of each browser was answered with.

`Admin` adds the table and one reader. A page of the list takes two statements,
`CountCalls` and `FindCalls`, with inserts between them; links carry the filter
as `values` writes it, without the fraction of a second, and presets are
evaluated anew at every page. A handler that records a call has its `created_at`
(`TakeTime`) before its row has an id (`Insert`), so that with several of them the
list, which is sorted by id, and its window, which selects by `created_at`, see
the rows in different orders. `walk` is the history of a reading of the list: the
calls its filter selected when it began, those of them shown since, and where its
window began. `SQLLabel` is what `DATE_FORMAT` makes of a row's time, `BucketLabel`
what `bucketLabel` makes of a bar's start; for a week both are a year and a number,
`ISOWeek`. The loops of the usage page are `Run` over the bars. Tick 0 is a Monday
and the 1st of January; a year has 365 days, so that a week at the turn of the year
is in both, and leap days are left out, as are time zones other than UTC, and
filters by provider, key and outcome, which select like the one by model.

### AdminQuery
`Selects` is the WHERE clause of each outcome, evaluated on the rows of every
reachable state of `Proxy`.

## 3. Runs

| Run | Bounds | Shows |
|---|---|---|
| `CallPages` | 2 calls, 2 files, retention 2, a prune per insert, `StoreBound` 1, clock up to 4, 1 restart, one reader | `JoinsHaveFiles`, `DetailComplete`, `DetailKept`, `SweptBeforeFiles`, `LinksResolve`, `PageComplete` |
| `Lifecycle` | 3 calls without files, retention disabled, a prune per 2 inserts, clock up to 1, 1 restart, fairness | `PruneExclusive`, `PruneNotEarly`, `RecordsSurviveShutdown`, `OnlyPrunesAreCut`, `RecordEnds`, `MutexReleased`, `DrainsUnlessStreaming` |
| `Proxy` | 3 providers, 5 statuses, bodies of 3 bytes, caps 2 and 1, fairness | `RowPerAttempt`, `AnswerFitsLog`, `BlobIsCopy`, `NothingAfterHead`, `KeepsPromise`, `HangUpEnds` |
| `Pump` | every body of up to 4 bytes, buffer 2, line limit 1, 2 comments, fairness | `RawStream`, `LinesOnce`, `ReaderExits`, `HangUpEnds`, `NeverSilent` |
| `Usage` | 10 vendors, bills of up to 2 tokens of each kind, streams of up to 4 lines | `RecordedAsBilled`, `AddsUp`, `NothingForgotten` |
| `SSELog` | every stream of up to 9 tokens over 3 deltas, chunks of up to 3, hold limit 4 | `TextPreserved`, `LatestPreserved`, `ChunksDoNotMatter` |
| `Files` | pairs of objects of every protocol's shape, right and slightly wrong; every map order; 2 files, one of them in 2 encodings and shorter than a placeholder | `OnlyFilesReplaced`, `PlaceholdersAreFiles`, `NoPayloadLeft` |
| `Routing` | every file of up to 2 of 6 providers and 2 models with up to 2 of 8 associations; 3 client models | `RoutedAsConfigured`, `NoProviderTwice`, `NothingUnreachable` |
| `Admin` | pages of 2, up to 4 calls before another is recorded, 2 writers, 8 URLs, 3 instants, 4 histories, 1 restart, one browser and 2 passwords | `ChartAddsUp`, `ListReadWhole`, `ServedToLoggedIn` |
| `ProxyCanceled`, `PumpComments`, `AdminOutcome` | small instances of the same modules | each violates one property: section 4 |

`CallPages` checks the type invariant of its module as well; that of `Proxy` is
proved only.

Why the bounds are enough:

- `CallPages`: every hazard is between two Records, or a Record and the prune
  of another, or a page and a prune; two calls have all of them, and sharing of
  one file while another is not shared. A clock of twice the retention lets a
  call expire during the prune of the other and a file outlive its first call.
  Calls and files are interchangeable, hence the symmetry; the only temporal
  property is one about single steps.
- `Lifecycle`: three goroutines are the fewest where one holds the mutex, one
  gives up and one comes later; two inserts a prune is the smallest threshold
  at which counting differs from pruning. Times and files play no part in these
  properties; with retention disabled the prunes run all the same. That no
  statement of a Record with files is refused either is proved.
- `Proxy`: three providers have a first, a middle and a last; bodies exceed both
  caps, and a chunk may end before, at and behind either.
- `Pump`: four bytes have every placing of newlines across two reads of two
  bytes, lines longer than the limit, empty lines, missing last newlines.
- `Usage`: two tokens tell all of a kind from some of it; four lines are a first
  report, one on the way, another line and the last report.
- `SSELog`: nine tokens are three one-line events; the hold limit is reached by
  events of three lines.
- `Files`: a pair of objects in the request and one in the response have the
  same file twice in a body and in both. The limit of a body is just above what
  the largest of them has as it is sent, so that some outgrow it and most do not.
- `Routing`: two providers and models are what precedence, sharing and
  duplicates need.
- `Admin`: four rows are two pages, and a page more after an insert; two writers
  are what two orders need, and one history has them at its start. The URLs have
  windows of hours, days and weeks, the default by its name and by a custom window
  that is refused; they start and end inside buckets and reach over a new year. The
  instants, a half second later and the lifetime of a cookie later, make a sliding
  window drop a call and a cookie expire; a restart changes the password or not.
  The browsers of a server share no state but its credentials.

Deadlock is not checked: finished requests and finished instances stop, and
bounded counters end. What must not stop is stated as a liveness property.

**Fairness.** `Lifecycle`: the Go scheduler runs goroutines, so a Record that
began, its handler and its prune continue (statements may fail, but return);
`Shutdown` polls until it finds no connection, and `main` returns after it.
Nobody has to connect, send a request, signal or start the process again, and a
handler that has not come to `Record` may stream for ever. `Proxy`: the handler
runs, and a canceled context ends a wait; an upstream owes nothing at all (the
HTTP client has no overall timeout), and a client may stay for ever. `Pump`:
both goroutines run, canceling or closing a body ends its read, the ticker
ticks; upstream and client owe nothing. `NeverSilent` is stated up to the bound
on comments: at the bound the model's ticker stops, not the program's. The
other modules have safety properties only.

## 4. What the code does otherwise than its documents say

1. `ProxyCanceled`: "`canceled` when the client hung up" (`README.md:233`). A
   reset by the upstream is recorded as canceled too (`proxy.go:543`).
2. `PumpComments`: "the client still receives the raw stream" (`README.md:220`).
   A comment brings its own blank line: written within a line or an event it
   changes the events a client parses.
3. `AdminOutcome`: "The four outcomes partition llm_calls" (`admin_query.go:40`).
   A 4xx or 5xx whose copy was canceled is counted as canceled and as error.

Less than a finding, but worth knowing; the models have all of it:

- A Record that is slow between reading the clock and its upsert sets
  `visited_at` back behind a later Record's. If a store may take longer than
  half the retention window, a file can be collected just before its join row is
  written; with a bound of half the window it cannot: that is proved (`Timely`).
- An insert whose goroutine finds the mutex taken is not counted
  (`db.go:223`), so prunes may come later than every 50 inserts, never earlier.
- A broken body without `Content-Length` ends, for the client, like a complete one.
- Links drop the fraction of a second of a custom window. The calls form sends
  none; for a URL typed with one the next page has another window, and
  `ListReadWhole` is therefore stated for windows of whole seconds.
- A body that passes `retainableBlob` need not survive `clipBlob`, as the comment
  at `db.go:290` has it. A placeholder of 71 characters may replace 44 of base64: a
  body just below 16 MiB outgrows the limit as its files are taken out, and is
  stored as NULL with its files and joins in the database. The run `Files` has
  such bodies, and `PlaceholdersAreFiles` says what holds of them.
- A cookie that was sent before a logout, or copied, stays good until it expires.
- The list is sorted by id and windowed by `created_at`. When two calls are
  recorded at once, the later id may have the earlier time; in a window of the
  last hours it drops out first, the calls below it move up by one, and `Next`
  leads past one of them. `ListReadWhole` excepts exactly the calls listed below
  one that the window dropped.

## 5. Proofs

`tlapm M.tla` checks each of the eight modules; the assumptions are the ASSUMEs on
the constants in the modules, and what a theorem states as its own.

**CallLogProofs**, for any set of calls and files, retention and threshold:

- `TypeCorrect`, from `Typed`: a row exists for what joins and details speak of,
  and with retention disabled no Record holds files.
- `MutualExclusion`: `LockInv`, the mutex is the set of goroutines between
  TryLock and Unlock, and that has at most one element.
- `NoDanglingJoin`, assuming `Timely` (retention disabled, or
  `2 * StoreBound <= Retain`). `JoinsHaveFiles` is not inductive: a prune only
  looks at joins, and a Record between upsert and join has none. `TimeInv`
  bounds `stamp`, `created` and `cutoff` by the clock, `HeldInv` says that a file
  held by such a Record was visited at most `StoreBound` before its stamp,
  whichever other Record moved the time back, and `HeldNotCollectable` derives
  that no cutoff has reached it.
- `ExpiredIsSwept` and `FreshDetailComplete`, under the same assumption: what a
  running prune expires cannot come back (`SweptInv`), and what is fresh is
  expired for no running prune (`KeptInv`). `FreshDetailKept` needs no assumption:
  a cutoff is never ahead of the clock less the retention.
- `PruneIsPaidFor`: the counter plus the inserts not yet counted never exceed
  the inserts of this process (`PaidInv`, a counting argument on `Uncounted`).

For `CallPages`: a reader changes nothing (`PagesOnlyRead`: `PageSpec`
implements `Spec` of `CallLog`, so that all of the above holds with readers),
and under `Timely` `LinksStayGood` and `PagesAreComplete`. Their invariant ties
the page to the tables: while the call of a page is fresh, what the page shows
and links are files and joins of a call that `FreshDetailComplete` speaks of.

For `Lifecycle`: `ProcessKeepsTheLog`, that the process with its phases
implements `CallLog` as well (a statement on a closed database is one that
fails); and from the invariant that a Record runs only in a connection that is
still active, and that behind `Drained` there is none, `ShutdownRefusesNothing`
and `ExitCutsOnlyPrunes`.

**ProxyProofs**, for any number of providers and statuses, bodies, chunks and caps: the
inductive invariant `IInv` ties the handler's place to what it holds
(`StageInv`), what its errors can be (`ErrorInv`), and what the rows before the
current one are (`RowsInv`). From it follow `OneRowPerAttempt`,
`AnswerAndLogAgree`, `StoredIsCopied`, `FirstHeadIsFinal`, and
`ImplementsFailover`, the refinement: the initial state maps to `FInit` and each
action to one of `Failover` or a stutter.

**SeqRunProofs**: most of what the other theorems say is about loops over data
of any length. `Run` is what such a loop leaves; the library's induction theorems
take an operator as a parameter, which the provers cannot instantiate, so
`NatsAreReached` and `SeqsAreReached` state induction over the *set* of numbers, or
of sequences, for which a fact holds, from the library's well-founded induction.
`RunAppend` says what one more element does to a loop.

**PumpProofs**, for any body, buffer, chunking, line limit and bound on comments.
`PumpInv`: `OwnerInv` says who works with the one buffer (the goroutine, the
channel or the handler, never two of them while the handler runs), and
`BufferInv` where the bytes are that were read and are not logged; together with
the log they are always the front of the body (`LogIsRaw`, the log's half of
`RawStream`). `StreamInv` adds the other two sinks: what the client has without
its comments is the front of the body, no shorter than the log (`ClientInv`),
and the scanned lines, followed by the incomplete one and by the chunk not
scanned yet, are the log (`LinesInv`). `StreamIsRaw` and `LinesAreScannedOnce`
follow. The lemmas behind them say what splitting a chunk into lines does,
whatever was carried over from the chunk before.

**RecordProofs** has what is written about a call: its tokens (`Usage`) and its
files (`Files`).

- For any bill, vendor and length of the response: `RowIsBilled`, `RowAddsUp`,
  `NothingIsForgotten`. `UsageInv` says that after every line the row's totals
  are those of the call with the output told so far. `VendorIsRead` is the lemma
  that what the parsers read from a vendor's report is what the vendor meant,
  dialect by dialect, and `MergeOfReport` that merging a later report over an
  earlier one leaves the later one.
- For any bodies, nesting and map orders: `OnlyFilesReplacedHolds`,
  `PlaceholdersAreFilesHolds`, `NoPayloadLeftHolds`. `FilesInv` has three parts.
  `BodyInv`: the strings follow those that were sent, and the files found are the
  digests put in so far (`Extracted`, with `Follows` and `Marked`; `Clipped` once
  `clipBlob` had its say). `WalkInv`: there
  is a set of values that have nothing left, and what is in one of them is in the
  set or still in `todo` (`Walked`). `FinishedInv`: after a walk that set is all of
  the body, because every value but the first is in an earlier one (`WalkEnds`).
  `FollowsOn` and `NothingLeftStays` say that a later visit undoes nothing: a
  placeholder is never taken for a file, and a `type` or `format` is never
  replaced, so an object still has the members that may be files when the walk
  comes to it (`PayloadKeysStay`). `TextVisited` and `MembersVisited` are the two
  visits that take files out. What is assumed of the code's environment is in
  `FilesAssumption`: a body is well nested, and the words of the protocols
  ("base64", "png", ...) are too short to decode to a file of 32 bytes.

**SSELogProofs**, for any stream of whole tokens, deltas, chunking and cap on
what is held (`LinesOK` and `MaxLen`, which keep the runs small, are not used):
`TextIsPreserved` and `LatestIsPreserved`. The invariant `IInv` cuts the stream
in two: in front, `x`, what `handleEvent` was given or was written out early;
behind it the lines that are not an event yet (`WriterInv`). `LogInv` says that
the blob and the pending event have, together, every text of `x` in order, and
the last of every other field somewhere. It is strengthened by what `mergeSSE`
relies on: the object of a pending event nothing was merged into has the fields
of its bytes. `MergeKeeps`, `EventKeeps`, `FlushedKeeps` and `WriteOutKeeps` are
the four things done to whole events, `ByteKeeps` and `ConsumeKeeps` the loop
over a chunk, and `WriterGrows` says that more of the stream changes nothing in
what is held of it.

`ChunksDoNotMatterHolds`, in the same module: wherever the stream was cut, and as
long as no event was too long to be held, the flushed log has one event for each
run of deltas that belong together, and the others as they came. The invariant
`GInv` speaks of the first `m` positions of the stream, those that
`handleEvent` was given. `EventsOK`: each event of the log, the pending one
included, is the first of a group of events of the reference, and it is merged
exactly if its group goes on within the `m` positions. `PendingOK`: the pending
event has the key of the last event of the stream. `TailOf`: the lines that are
held are the positions behind `m`. `EventMore` and `EventMerged` are the two things
an event does to the groups (begin one, continue the last), `ByteGroups` is one
byte of a chunk, `EventsStay`, `KeyGrows` and `GroupsStay` say that what is written
later changes no group up to `m`, and `FirstValues` counts: the i-th event of the
log is the i-th group of the stream.

**RoutingProofs**, for files of any number of providers, models and
associations: `RoutesAreTheFiles`, `AttemptsAreFailovers`, `AllIsReachable`.
`RoutingInv` ties a serving process to the file it was started with and the
last attempts to the last request. The rest is about the loops:
`CollectedAsListed` runs the code's loop and the one over the file side by side;
with what `validate` refuses they come to the same associations.

**AdminProofs**. Of sessions, for any browsers, passwords, lifetimes and
restarts: `PagesNeedALogin`, from `SessionInvariant`: every cookie in a browser
or under way is backed by a login of that browser with the key it was signed
with, and expires no later than that login allows. `PagesKeepTheSession` carries
it over to the server with its pages. Of the pages, for any windows, page sizes
and rows:

- `ChartsAddUp`. `EveryCallHasItsBar`: the label the database groups a call by is
  that of a bar `fillUsageBuckets` makes. It takes `LabelsAgree` (a bucket has one
  label, that of every instant in it) and `CallsAreInBuckets`. `LabelsDiffer` says
  that two buckets have two labels; for weeks that is `OneThursday`, that the year
  and the number of a week's Thursday tell the week. `ChartTotal` concludes that the
  heights of the bars, added up in a loop, are the number of calls.
- `ListIsReadWhole`. `WalkInv` says of every page which ranks of its filter have
  been shown: all below `(num - 1) * PageSize` while it is being read, all below
  `num * PageSize` behind a link to the next one, of the calls (`Turn`) that no
  call the window dropped was listed above. It is kept because inserts come above a
  reading (`InsertedAbove`), because a window that moves on takes no call from
  above those (`MovedIsCovered`), and because a page without a link shows what is
  left of the total (`PageIsCovered`, from `RanksAreCounted`). Nothing is assumed
  about the order of ids and times. Its hypothesis `WholeWindows` is the one place
  where the code needs it: a typed window with fractions of a second loses them in
  the link.

Every invariant and every step property that a run checks is proved, with two
kinds of exceptions, which are only model-checked. Liveness (`RecordEnds`,
`MutexReleased`, `HangUpEnds`, `ReaderExits`, `NeverSilent`,
`DrainsUnlessStreaming`) needs fairness and ENABLED, beyond the prover. And the
three disagreements of section 4 are counterexamples, which TLC finds.

## 6. Not modelled

- The text of JSON, headers, URLs and HTML; compression; MIME types and how a
  file is shown; number formats and lenient number parsing; the DSN and the
  schema migration; the templates and charts of `web/`.
- `requireAPIKey`: a lookup without state before the handler of the proxy.
- Choices of one SSE chunk that repeat an index, and malformed events in
  `sse_log.go`: the dialects are abstracted to the fields that are merged.
- Time zones of the admin pages, the drop-downs' values, sums and averages other
  than the number of calls.
- Durations beyond the range of `time.Duration` in the configuration.
- The database executes one statement at a time and never hangs. `Proxy` follows
  one request, since requests share only the read-only configuration and the
  call log. Of `forward`, the branch for a provider without endpoint is left out
  because `RoutedAsConfigured` shows that it cannot be reached, and the error of
  building a request because start-up checks the URL.
- First-token time and output speed, which are read off a real clock.

## 7. Plan

Done: the call log with its readers and its process, the request with its
abstract promise, the stream pump, usage, the stored stream and files, routing,
sessions and pages. What could follow:

1. choices within a chunk for `SSELog`, one dialect at a time;
2. API keys in `Routing`, with the name that goes into the row;
3. `Proxy` and `Pump` composed: the pump's returns as the ways a copy ends.
