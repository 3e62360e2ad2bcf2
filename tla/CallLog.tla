------------------------------ MODULE CallLog ------------------------------
(***************************************************************************)
(* The call log of nanollm (db.go): gormCallLogger.Record writes one row   *)
(* of llm_calls and the files extracted from its blobs, and every          *)
(* PruneEveryN inserts a background goroutine clears what is older than    *)
(* detail_retain.  Each SQL statement is one atomic step; everything       *)
(* between two statements can be interleaved with the other goroutines,    *)
(* with the clock and with the end of the process.                         *)
(***************************************************************************)
EXTENDS Integers, FiniteSets

CONSTANTS
  Calls,        \* the calls of Record, one llm_calls row each
  Shas,         \* SHA-256 keys of extracted files
  Retain,       \* detail_retain in clock units, 0 keeps no blobs
  PruneEveryN,  \* inserts between two prunes
  StoreBound,   \* longest time from a row's created_at to its join rows
  MaxClock,     \* bound: the clock stops here
  MaxRestarts   \* bound: ends of the process

ASSUME CallLogAssumption ==
  /\ IsFiniteSet(Calls)
  /\ Retain \in Nat
  /\ PruneEveryN \in Nat \ {0}
  /\ StoreBound \in Nat
  /\ MaxClock \in Nat
  /\ MaxRestarts \in Nat

VARIABLES
  clock,        \* time.Now()
  pc,           \* where each Record, and then its pruneAsync goroutine, is
  refs,         \* the files extracted from a call's blobs
  created,      \* llm_calls.created_at, taken before the INSERT
  stamp,        \* storeFiles' now, while it runs
  rows,         \* ids in llm_calls
  detail,       \* ids whose request_json or response_json is not NULL
  visited,      \* llm_files: sha -> visited_at, for the rows that exist
  joins,        \* llm_call_files
  stored,       \* history: calls whose storeFiles returned nil
  mutex,        \* l.pruning: the goroutines that hold it
  sincePrune,   \* l.sincePrune
  cutoff,       \* prune's cutoff, while one runs
  owed,         \* history: inserts of this process, less PruneEveryN a prune
  restarts

tables == <<rows, detail, visited, joins>>
recVars == <<refs, created, stamp, stored>>
pruneVars == <<mutex, sincePrune, cutoff, owed>>
vars == <<clock, pc, recVars, tables, pruneVars, restarts>>

----------------------------------------------------------------------------
\* pruneFileScope: with retention disabled everything goes, otherwise rows
\* older than the cutoff.
PruneAll == Retain = 0
CutoffNow == clock - Retain

Storing(c) == pc[c] \in {"insert", "stamp", "upsert", "join"}
Pruning(c) == pc[c] \in {"count", "blobs", "joins", "files"}
Running(c) == Storing(c) \/ Pruning(c) \/ pc[c] = "async"

Goto(c, l) == pc' = [pc EXCEPT ![c] = l]

\* storeFiles returns, and pruneAsync is next.
StoreEnds(c) == /\ Goto(c, "async")
                /\ stamp' = [stamp EXCEPT ![c] = 0]

\* Returning from pruneAsync releases the mutex.
Release(c) == /\ Goto(c, "done")
              /\ mutex' = mutex \ {c}
              /\ cutoff' = 0

\* What an earlier process of the same database may have left behind: calls
\* recorded at time 0, with their details, joins and files.
Init ==
  \E old \in SUBSET Calls :
    /\ clock = 0
    /\ pc = [c \in Calls |-> IF c \in old THEN "done" ELSE "idle"]
    /\ refs \in [Calls -> SUBSET Shas]
    /\ \A c \in Calls \ old : refs[c] = {}
    /\ created = [c \in Calls |-> 0]
    /\ stamp = [c \in Calls |-> 0]
    /\ rows = old
    /\ detail = old
    /\ joins = {cs \in old \X Shas : cs[2] \in refs[cs[1]]}
    /\ visited = [s \in UNION {refs[c] : c \in old} |-> 0]
    /\ stored = old
    /\ mutex = {}
    /\ sincePrune = 0
    /\ cutoff = 0
    /\ owed = 0
    /\ restarts = 0

----------------------------------------------------------------------------
\* Record, up to the statement: extraction of the files of the retainable
\* blobs (none when retention is disabled), created_at from gorm's NowFunc.
BeginRecord(c) ==
  /\ pc[c] = "idle"
  /\ \E files \in SUBSET Shas :
       /\ PruneAll => files = {}
       /\ refs' = [refs EXCEPT ![c] = files]
  /\ created' = [created EXCEPT ![c] = clock]
  /\ Goto(c, "insert")
  /\ UNCHANGED <<clock, stamp, stored, tables, pruneVars, restarts>>

\* l.db.Create(&call), with the blobs that clipBlob or a disabled retention
\* leaves.  Either has them gone or not, with files or without: a blob that the
\* placeholders made too long is dropped after its files were extracted.
InsertCall(c) ==
  /\ pc[c] = "insert"
  /\ rows' = rows \cup {c}
  /\ detail' \in {detail} \cup IF PruneAll THEN {} ELSE {detail \cup {c}}
  /\ Goto(c, IF refs[c] = {} THEN "async" ELSE "stamp")
  /\ owed' = owed + 1
  /\ UNCHANGED <<clock, recVars, visited, joins, mutex, sincePrune, cutoff,
                 restarts>>

\* The INSERT failed: Record logs and returns; no prune is started.
InsertFails(c) ==
  /\ pc[c] = "insert"
  /\ Goto(c, "done")
  /\ UNCHANGED <<clock, recVars, tables, pruneVars, restarts>>

\* storeFiles: now := time.Now().UTC()
StampFiles(c) ==
  /\ pc[c] = "stamp"
  /\ stamp' = [stamp EXCEPT ![c] = clock]
  /\ Goto(c, "upsert")
  /\ UNCHANGED <<clock, refs, created, stored, tables, pruneVars, restarts>>

\* INSERT INTO llm_files ... ON DUPLICATE KEY UPDATE visited_at = now
UpsertFiles(c) ==
  /\ pc[c] = "upsert"
  /\ visited' = [s \in DOMAIN visited \cup refs[c] |->
                   IF s \in refs[c] THEN stamp[c] ELSE visited[s]]
  /\ Goto(c, "join")
  /\ UNCHANGED <<clock, recVars, rows, detail, joins, pruneVars, restarts>>

\* INSERT INTO llm_call_files, then go l.pruneAsync()
InsertJoins(c) ==
  /\ pc[c] = "join"
  /\ joins' = joins \cup ({c} \X refs[c])
  /\ stored' = stored \cup {c}
  /\ StoreEnds(c)
  /\ UNCHANGED <<clock, refs, created, rows, detail, visited, pruneVars, restarts>>

\* Either statement of storeFiles failed: logged, and the prune is started.
StoreFails(c) ==
  /\ pc[c] \in {"upsert", "join"}
  /\ StoreEnds(c)
  /\ UNCHANGED <<clock, refs, created, stored, tables, pruneVars, restarts>>

----------------------------------------------------------------------------
\* Mutant: the goroutine does not look at the mutex.
TryLockIgnored(c) ==
  /\ pc[c] = "async"
  /\ mutex' = mutex \cup {c}
  /\ Goto(c, "count")
  /\ UNCHANGED <<clock, recVars, tables, sincePrune, cutoff, owed, restarts>>

\* pruneAsync: l.pruning.TryLock() succeeds or gives up at once.
TryLock(c) ==
  /\ pc[c] = "async"
  /\ mutex = {}
  /\ mutex' = {c}
  /\ Goto(c, "count")
  /\ UNCHANGED <<clock, recVars, tables, sincePrune, cutoff, owed, restarts>>

LockBusy(c) ==
  /\ pc[c] = "async"
  /\ mutex # {}
  /\ Goto(c, "done")
  /\ UNCHANGED <<clock, recVars, tables, pruneVars, restarts>>

\* Mutant: the early return forgets Unlock.
CountOnlyKeepsLock(c) ==
  /\ pc[c] = "count"
  /\ sincePrune + 1 < PruneEveryN
  /\ sincePrune' = sincePrune + 1
  /\ Goto(c, "done")
  /\ UNCHANGED <<clock, recVars, tables, mutex, cutoff, owed, restarts>>

\* Fewer than PruneEveryN inserts: count this one and return.
CountOnly(c) ==
  /\ pc[c] = "count"
  /\ sincePrune + 1 < PruneEveryN
  /\ sincePrune' = sincePrune + 1
  /\ Release(c)
  /\ UNCHANGED <<clock, recVars, tables, owed, restarts>>

\* Mutant: the counter is not reset.
StartPruneKeepsCount(c) ==
  /\ pc[c] = "count"
  /\ sincePrune + 1 >= PruneEveryN
  /\ sincePrune' = sincePrune + 1
  /\ cutoff' = CutoffNow
  /\ owed' = owed - PruneEveryN
  /\ Goto(c, "blobs")
  /\ UNCHANGED <<clock, recVars, tables, mutex, restarts>>

\* The PruneEveryN-th insert: the counter restarts and prune reads the clock.
StartPrune(c) ==
  /\ pc[c] = "count"
  /\ sincePrune + 1 >= PruneEveryN
  /\ sincePrune' = 0
  /\ cutoff' = CutoffNow
  /\ owed' = owed - PruneEveryN
  /\ Goto(c, "blobs")
  /\ UNCHANGED <<clock, recVars, tables, mutex, restarts>>

\* Mutant: created_at <= cutoff.
ExpiredInclusive(c) == PruneAll \/ created[c] <= cutoff

Expired(c) == PruneAll \/ created[c] < cutoff

\* Mutant: files are collected before the expired join rows are gone.
PruneBlobsThenFiles(c) ==
  /\ pc[c] = "blobs"
  /\ detail' = {d \in detail : ~Expired(d)}
  /\ Goto(c, "files")
  /\ UNCHANGED <<clock, recVars, rows, visited, joins, pruneVars, restarts>>

\* UPDATE llm_calls SET request_json = NULL, response_json = NULL ...
PruneBlobs(c) ==
  /\ pc[c] = "blobs"
  /\ detail' = {d \in detail : ~Expired(d)}
  /\ Goto(c, "joins")
  /\ UNCHANGED <<clock, recVars, rows, visited, joins, pruneVars, restarts>>

\* DELETE FROM llm_call_files WHERE call_id IN (... created_at < cutoff)
PruneJoins(c) ==
  /\ pc[c] = "joins"
  /\ joins' = {cs \in joins : ~(PruneAll \/ (cs[1] \in rows /\ Expired(cs[1])))}
  /\ Goto(c, "files")
  /\ UNCHANGED <<clock, recVars, rows, detail, visited, pruneVars, restarts>>

\* Mutant: visited_at alone decides.
CollectableReferenced(s) == PruneAll \/ visited[s] < cutoff

\* Mutant: no cutoff on visited_at, any unreferenced file goes.
CollectableAtOnce(s) == \A c \in Calls : <<c, s>> \notin joins

\* DELETE FROM llm_files WHERE sha256 NOT IN (SELECT sha256 FROM
\* llm_call_files) AND visited_at < cutoff
Collectable(s) ==
  /\ \A c \in Calls : <<c, s>> \notin joins
  /\ PruneAll \/ visited[s] < cutoff

PruneFiles(c) ==
  /\ pc[c] = "files"
  /\ visited' = [s \in {t \in DOMAIN visited : ~Collectable(t)} |-> visited[s]]
  /\ Release(c)
  /\ UNCHANGED <<clock, recVars, rows, detail, joins, sincePrune, owed, restarts>>

\* Mutant: a prune that failed starts over.
PruneFailsRetry(c) ==
  /\ pc[c] \in {"blobs", "joins", "files"}
  /\ Goto(c, "blobs")
  /\ UNCHANGED <<clock, recVars, tables, pruneVars, restarts>>

\* A statement of prune failed: the error is logged, the rest is skipped.
PruneFails(c) ==
  /\ pc[c] \in {"blobs", "joins", "files"}
  /\ Release(c)
  /\ UNCHANGED <<clock, recVars, tables, sincePrune, owed, restarts>>

----------------------------------------------------------------------------
\* Time passes, but never so that a Record is between its created_at and its
\* join rows for longer than StoreBound.
Tick ==
  /\ clock < MaxClock
  /\ \A c \in Calls : Storing(c) => clock + 1 <= created[c] + StoreBound
  /\ clock' = clock + 1
  /\ UNCHANGED <<pc, recVars, tables, pruneVars, restarts>>

\* The process ends, by a crash or with goroutines still pruning, and a new
\* one opens the same database: counter and mutex start afresh.
Restart ==
  /\ restarts < MaxRestarts
  /\ restarts' = restarts + 1
  /\ pc' = [c \in Calls |-> IF pc[c] = "idle" THEN "idle" ELSE "done"]
  /\ mutex' = {}
  /\ sincePrune' = 0
  /\ owed' = 0
  /\ stamp' = [c \in Calls |-> 0] /\ cutoff' = 0
  /\ UNCHANGED <<clock, refs, created, stored, tables>>

Record(c) ==
  \/ BeginRecord(c) \/ InsertCall(c) \/ InsertFails(c) \/ StampFiles(c)
  \/ UpsertFiles(c) \/ InsertJoins(c) \/ StoreFails(c)

PruneAsync(c) ==
  \/ TryLock(c) \/ LockBusy(c) \/ CountOnly(c) \/ StartPrune(c)
  \/ PruneBlobs(c) \/ PruneJoins(c) \/ PruneFiles(c) \/ PruneFails(c)

Next ==
  \/ \E c \in Calls : Record(c) \/ PruneAsync(c)
  \/ Tick
  \/ Restart

Spec == Init /\ [][Next]_vars

\* The goroutines are scheduled: once Record has begun, it and the prune it
\* starts run to their end.  Nobody has to call Record, and the clock owes
\* nothing.
Fairness ==
  \A c \in Calls : WF_vars(PruneAsync(c)) /\ WF_vars(pc[c] # "idle" /\ Record(c))

FairSpec == Spec /\ Fairness
----------------------------------------------------------------------------
Labels == {"idle", "insert", "stamp", "upsert", "join",
           "async", "count", "blobs", "joins", "files", "done"}

\* Every variable has its type; visited_at is kept for existing files only.
TypeOK ==
  /\ clock \in Nat
  /\ pc \in [Calls -> Labels]
  /\ refs \in [Calls -> SUBSET Shas]
  /\ created \in [Calls -> Nat]
  /\ stamp \in [Calls -> Nat]
  /\ rows \subseteq Calls
  /\ detail \subseteq rows
  /\ visited \in [DOMAIN visited -> Nat]
  /\ DOMAIN visited \subseteq Shas
  /\ joins \subseteq rows \X Shas
  /\ stored \subseteq rows
  /\ mutex \subseteq Calls
  /\ sincePrune \in 0 .. PruneEveryN - 1
  /\ cutoff \in Int
  /\ owed \in Int
  /\ restarts \in Nat

\* A call inside the retention window: prune must not have touched it.
Fresh(c) == ~PruneAll /\ created[c] + Retain >= clock

\* No join row points at a collected file, although pruneFiles deletes files
\* that have no join row yet while a Record is between its two statements.
JoinsHaveFiles == \A cs \in joins : cs[2] \in DOMAIN visited

\* No file of a call inside the retention window is lost: each that was taken
\* out of its blobs still has its join row and its row, whatever the prunes of
\* other Records did meanwhile.
DetailComplete ==
  \A c \in stored : Fresh(c) =>
    \A s \in refs[c] : <<c, s>> \in joins /\ s \in DOMAIN visited

\* Nor are the blobs it was inserted with cleared, by a prune that took its
\* cutoff when the clock was behind.
DetailKept == [][\A c \in detail : Fresh(c)' => c \in detail']_vars

\* prune deletes the join rows of expired calls before it looks for files
\* without one, and no late Record brings an expired call's details back
\* under it: when files are collected, nothing expired is left.
SweptBeforeFiles ==
  \A p \in Calls : pc[p] = "files" =>
    /\ \A c \in detail : ~Expired(c)
    /\ \A cs \in joins : ~Expired(cs[1])

\* One goroutine at a time holds l.pruning, also while prune runs its
\* statements, and only one that is still running.
PruneExclusive == mutex = {c \in Calls : Pruning(c)} /\ Cardinality(mutex) <= 1

\* A prune is never started before PruneEveryN inserts of this process paid
\* for it: a counter that is incremented twice or not reset would be ahead.
PruneNotEarly == sincePrune <= owed

\* Record returns and its pruneAsync goroutine ends, whatever the lock does
\* and whichever statement fails.
RecordEnds == \A c \in Calls : pc[c] = "insert" ~> pc[c] = "done"

\* l.pruning is always released again: after a plain count, after a prune,
\* after a prune that failed, and by the end of the process.
MutexReleased == mutex # {} ~> mutex = {}
=============================================================================
