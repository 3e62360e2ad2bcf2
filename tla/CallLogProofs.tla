--------------------------- MODULE CallLogProofs ---------------------------
(***************************************************************************)
(* Theorems about the call log.  CallLog: type correctness, the mutex, and,*)
(* when a store takes at most half the retention window, that a prune      *)
(* never collects a file a join row needs.  CallPages: reading changes     *)
(* nothing, and what a page shows of a call inside the retention window is *)
(* complete and stays so.  Lifecycle: the process only adds to the call    *)
(* log, and a graceful shutdown loses no row.                              *)
(***************************************************************************)
EXTENDS CallPages, Lifecycle, FiniteSetTheorems, TLAPS

\* What the retention window has to leave for a Record between its created_at
\* and its join rows.  The window of a single store is not enough: a slower
\* Record can set visited_at back by that much.
Timely == PruneAll \/ 2 * StoreBound <= Retain

----------------------------------------------------------------------------
\* A Record has its row exactly from the INSERT on, and without retention it
\* has extracted nothing.
RowInv ==
  \A c \in Calls :
    /\ pc[c] \in {"idle", "insert"} => c \notin rows
    /\ pc[c] \in {"stamp", "upsert", "join"} => c \in rows
    /\ PruneAll /\ Storing(c) => refs[c] = {}

Typed == TypeOK /\ RowInv

\* Every step of the call log keeps every variable in its type: in particular
\* joins and details belong to rows, and the counter stays below PruneEveryN.
LEMMA TypeStep == Typed /\ [Next]_vars => Typed'
<1> SUFFICES ASSUME Typed, [Next]_vars PROVE Typed'
  OBVIOUS
<1> USE CallLogAssumption
    DEF Typed, TypeOK, RowInv, Labels, Storing, PruneAll, tables, recVars,
        pruneVars
<1>1. ASSUME NEW c \in Calls, Record(c) PROVE Typed'
  <2>1. CASE BeginRecord(c)
    BY <2>1 DEF BeginRecord, Goto
  <2>2. CASE InsertCall(c)
    BY <2>2 DEF InsertCall, Goto
  <2>3. CASE InsertFails(c)
    BY <2>3 DEF InsertFails, Goto
  <2>4. CASE StampFiles(c)
    BY <2>4 DEF StampFiles, Goto
  <2>5. CASE UpsertFiles(c)
    BY <2>5 DEF UpsertFiles, Goto
  <2>6. CASE InsertJoins(c)
    BY <2>6 DEF InsertJoins, StoreEnds, Goto
  <2>7. CASE StoreFails(c)
    BY <2>7 DEF StoreFails, StoreEnds, Goto
  <2>8. QED
    BY <1>1, <2>1, <2>2, <2>3, <2>4, <2>5, <2>6, <2>7 DEF Record
<1>2. ASSUME NEW c \in Calls, PruneAsync(c) PROVE Typed'
  <2>1. CASE TryLock(c)
    BY <2>1 DEF TryLock, Goto
  <2>2. CASE LockBusy(c)
    BY <2>2 DEF LockBusy, Goto
  <2>3. CASE CountOnly(c)
    BY <2>3 DEF CountOnly, Release, Goto
  <2>4. CASE StartPrune(c)
    BY <2>4 DEF StartPrune, CutoffNow, Goto
  <2>5. CASE PruneBlobs(c)
    BY <2>5 DEF PruneBlobs, Goto
  <2>6. CASE PruneJoins(c)
    BY <2>6 DEF PruneJoins, Goto
  <2>7. CASE PruneFiles(c)
    BY <2>7 DEF PruneFiles, Release, Goto
  <2>8. CASE PruneFails(c)
    BY <2>8 DEF PruneFails, Release, Goto
  <2>9. QED
    BY <1>2, <2>1, <2>2, <2>3, <2>4, <2>5, <2>6, <2>7, <2>8 DEF PruneAsync
<1>3. CASE Tick
  BY <1>3 DEF Tick
<1>4. CASE Restart
  BY <1>4 DEF Restart
<1>5. CASE UNCHANGED vars
  BY <1>5 DEF vars
<1>6. QED
  BY <1>1, <1>2, <1>3, <1>4, <1>5 DEF Next

\* TypeOK holds in every state, for any calls, files, windows and bounds.
THEOREM TypeCorrect == Spec => []TypeOK
<1>1. Init => Typed
  BY CallLogAssumption
  DEF Init, Typed, TypeOK, RowInv, Labels, Storing, PruneAll
<1>2. Typed => TypeOK
  BY DEF Typed
<1>3. QED
  BY <1>1, <1>2, TypeStep, PTL DEF Spec
----------------------------------------------------------------------------
\* l.pruning is held by the goroutines between TryLock and Unlock, by one at a
\* time.
LockInv ==
  /\ mutex = {c \in Calls : Pruning(c)}
  /\ \A c, d \in mutex : c = d

\* TryLock only succeeds on a free mutex, and every way out of pruneAsync
\* releases it.
LEMMA LockStep == Typed /\ LockInv /\ [Next]_vars => LockInv'
<1> SUFFICES ASSUME Typed, LockInv, [Next]_vars PROVE LockInv'
  OBVIOUS
<1> USE DEF Typed, TypeOK, LockInv, Labels, Pruning, Goto, StoreEnds, Release, tables,
            recVars, pruneVars
<1>1. ASSUME NEW c \in Calls, Record(c) PROVE LockInv'
  BY <1>1 DEF Record, BeginRecord, InsertCall, InsertFails, StampFiles,
              UpsertFiles, InsertJoins, StoreFails
<1>2. ASSUME NEW c \in Calls, PruneAsync(c) PROVE LockInv'
  <2>1. CASE TryLock(c)
    BY <2>1 DEF TryLock
  <2>2. CASE LockBusy(c)
    BY <2>2 DEF LockBusy
  <2>3. CASE CountOnly(c)
    BY <2>3 DEF CountOnly
  <2>4. CASE StartPrune(c) \/ PruneBlobs(c) \/ PruneJoins(c)
    BY <2>4 DEF StartPrune, PruneBlobs, PruneJoins
  <2>5. CASE PruneFiles(c) \/ PruneFails(c)
    BY <2>5 DEF PruneFiles, PruneFails
  <2>6. QED
    BY <1>2, <2>1, <2>2, <2>3, <2>4, <2>5 DEF PruneAsync
<1>3. CASE Tick
  BY <1>3 DEF Tick
<1>4. CASE Restart
  BY <1>4 DEF Restart
<1>5. CASE UNCHANGED vars
  BY <1>5 DEF vars
<1>6. QED
  BY <1>1, <1>2, <1>3, <1>4, <1>5 DEF Next

\* The mutex is held by exactly the goroutines that are counting or pruning,
\* and never by two.
THEOREM MutualExclusion == Spec => []PruneExclusive
<1>1. Init => Typed /\ LockInv
  BY CallLogAssumption
  DEF Init, Typed, TypeOK, RowInv, Labels, Storing, PruneAll, LockInv, Pruning
<1>2. Typed /\ LockInv => PruneExclusive
  <2> SUFFICES ASSUME Typed, LockInv PROVE PruneExclusive
    OBVIOUS
  <2>1. CASE mutex = {}
    BY <2>1, FS_EmptySet DEF LockInv, PruneExclusive
  <2>2. ASSUME NEW c \in mutex PROVE PruneExclusive
    <3>1. mutex = {c}
      BY <2>2 DEF LockInv
    <3>2. QED
      BY <3>1, FS_Singleton DEF LockInv, PruneExclusive
  <2>3. QED
    BY <2>1, <2>2
<1>3. QED
  BY <1>1, <1>2, TypeStep, LockStep, PTL DEF Spec

----------------------------------------------------------------------------
\* How far the instants a Record and a prune remember lie behind the clock.
TimeInv ==
  /\ \A c \in Calls :
       /\ created[c] <= clock
       /\ Storing(c) => clock <= created[c] + StoreBound
       /\ pc[c] \in {"upsert", "join"} =>
            created[c] <= stamp[c] /\ stamp[c] <= clock
       /\ pc[c] \in {"blobs", "joins", "files"} => cutoff + Retain <= clock

\* The clock only moves while every Record in progress stays within
\* StoreBound; created_at, now and cutoff are read from it.
LEMMA TimeStep == Typed /\ LockInv /\ TimeInv /\ [Next]_vars => TimeInv'
<1> SUFFICES ASSUME Typed, LockInv, TimeInv, [Next]_vars PROVE TimeInv'
  OBVIOUS
<1> USE CallLogAssumption
    DEF Typed, TypeOK, TimeInv, Labels, Storing, Goto, StoreEnds, Release, tables,
        recVars, pruneVars
<1>1. ASSUME NEW c \in Calls, Record(c) PROVE TimeInv'
  <2>1. CASE BeginRecord(c)
    BY <2>1 DEF BeginRecord
  <2>2. CASE StampFiles(c)
    BY <2>2 DEF StampFiles
  <2>3. CASE InsertCall(c) \/ UpsertFiles(c) \/ InsertJoins(c)
    BY <2>3 DEF InsertCall, UpsertFiles, InsertJoins
  <2>4. CASE InsertFails(c) \/ StoreFails(c)
    BY <2>4 DEF InsertFails, StoreFails
  <2>5. QED
    BY <1>1, <2>1, <2>2, <2>3, <2>4 DEF Record
<1>2. ASSUME NEW c \in Calls, PruneAsync(c) PROVE TimeInv'
  <2>1. CASE StartPrune(c)
    BY <2>1 DEF StartPrune, CutoffNow
  <2>2. CASE TryLock(c) \/ LockBusy(c) \/ PruneBlobs(c) \/ PruneJoins(c)
    BY <2>2 DEF TryLock, LockBusy, PruneBlobs, PruneJoins
  <2>3. CASE CountOnly(c) \/ PruneFiles(c) \/ PruneFails(c)
    \* it was the only one to have a cutoff
    <3>1. c \in mutex /\ \A d \in Calls : pc'[d] \in {"blobs", "joins", "files"} => d \in mutex
      BY <2>3 DEF CountOnly, PruneFiles, PruneFails, LockInv, Pruning
    <3>2. \A d \in Calls : pc'[d] \notin {"blobs", "joins", "files"}
      BY <2>3, <3>1 DEF CountOnly, PruneFiles, PruneFails, LockInv
    <3>3. QED
      BY <2>3, <3>2 DEF CountOnly, PruneFiles, PruneFails
  <2>4. QED
    BY <1>2, <2>1, <2>2, <2>3 DEF PruneAsync
<1>3. CASE Tick
  BY <1>3 DEF Tick
<1>4. CASE Restart
  BY <1>4 DEF Restart
<1>5. CASE UNCHANGED vars
  BY <1>5 DEF vars
<1>6. QED
  BY <1>1, <1>2, <1>3, <1>4, <1>5 DEF Next
----------------------------------------------------------------------------
\* Between the two statements of storeFiles the files of a call exist, and
\* their visited_at is at most StoreBound behind this Record's own now: a
\* slower Record may have moved it backwards, but not further.
HeldInv ==
  \A c \in Calls : pc[c] = "join" =>
    \A s \in refs[c] :
      s \in DOMAIN visited /\ visited[s] + StoreBound >= stamp[c]

FileInv == HeldInv /\ JoinsHaveFiles

\* A prune cannot collect a file that a Record holds between its statements:
\* visited_at >= stamp - D >= clock - 2D >= clock - Retain >= cutoff.
LEMMA HeldNotCollectable ==
  ASSUME Timely, Typed, TimeInv, HeldInv,
         NEW p \in Calls, pc[p] = "files",
         NEW c \in Calls, pc[c] = "join",
         NEW s \in refs[c]
  PROVE  s \in DOMAIN visited /\ ~Collectable(s)
<1>1. ~PruneAll /\ 2 * StoreBound <= Retain
  BY DEF Timely, Typed, RowInv, Storing
<1>2. s \in DOMAIN visited /\ visited[s] + StoreBound >= stamp[c]
  BY DEF HeldInv
<1>3. /\ clock <= created[c] + StoreBound
      /\ created[c] <= stamp[c]
      /\ cutoff + Retain <= clock
  BY DEF TimeInv, Storing
<1>4. /\ visited[s] \in Int /\ stamp[c] \in Int /\ created[c] \in Int
      /\ clock \in Int /\ cutoff \in Int /\ StoreBound \in Int /\ Retain \in Int
  BY <1>2, CallLogAssumption DEF Typed, TypeOK
<1>5. ~(visited[s] < cutoff)
  BY <1>1, <1>2, <1>3, <1>4
<1>6. QED
  BY <1>1, <1>2, <1>5 DEF Collectable

\* Every step keeps what is known of the rows and joins of a file.
LEMMA FileStep ==
  ASSUME Timely
  PROVE  Typed /\ TimeInv /\ FileInv /\ [Next]_vars => FileInv'
<1> SUFFICES ASSUME Typed, TimeInv, FileInv, [Next]_vars PROVE FileInv'
  OBVIOUS
<1> USE CallLogAssumption
    DEF Typed, TypeOK, FileInv, HeldInv, JoinsHaveFiles, Labels, Goto, StoreEnds,
        Release, tables, recVars, pruneVars
<1>1. ASSUME NEW c \in Calls, Record(c) PROVE FileInv'
  <2>1. CASE BeginRecord(c) \/ StampFiles(c)
    BY <2>1 DEF BeginRecord, StampFiles
  <2>2. CASE InsertCall(c) \/ InsertFails(c) \/ StoreFails(c)
    BY <2>2 DEF InsertCall, InsertFails, StoreFails
  <2>3. CASE UpsertFiles(c)
    <3>1. /\ visited' = [s \in DOMAIN visited \cup refs[c] |->
                           IF s \in refs[c] THEN stamp[c] ELSE visited[s]]
          /\ pc' = [pc EXCEPT ![c] = "join"]
          /\ UNCHANGED <<joins, refs, stamp>>
      BY <2>3 DEF UpsertFiles
    <3>2. JoinsHaveFiles'
      BY <3>1
    <3>3. \A d \in Calls : pc[d] = "join" => stamp[c] + StoreBound >= stamp[d]
      \* stamp[d] <= clock <= created[c] + StoreBound <= stamp[c] + StoreBound
      <4>1. pc[c] = "upsert"
        BY <2>3 DEF UpsertFiles
      <4>2. clock <= created[c] + StoreBound /\ created[c] <= stamp[c]
        BY <4>1 DEF TimeInv, Storing
      <4>3. \A d \in Calls : pc[d] = "join" => stamp[d] <= clock
        BY DEF TimeInv
      <4>4. \A d \in Calls : stamp[d] \in Int /\ created[d] \in Int
        OBVIOUS
      <4>5. QED
        BY <4>2, <4>3, <4>4
    <3>4. HeldInv'
      BY <3>1, <3>3
    <3>5. QED
      BY <3>2, <3>4
  <2>4. CASE InsertJoins(c)
    BY <2>4 DEF InsertJoins
  <2>5. QED
    BY <1>1, <2>1, <2>2, <2>3, <2>4 DEF Record
<1>2. ASSUME NEW c \in Calls, PruneAsync(c) PROVE FileInv'
  <2>1. CASE TryLock(c) \/ LockBusy(c) \/ CountOnly(c) \/ StartPrune(c)
    BY <2>1 DEF TryLock, LockBusy, CountOnly, StartPrune
  <2>2. CASE PruneBlobs(c) \/ PruneJoins(c) \/ PruneFails(c)
    BY <2>2 DEF PruneBlobs, PruneJoins, PruneFails
  <2>3. CASE PruneFiles(c)
    <3>1. /\ pc[c] = "files"
          /\ visited' = [s \in {t \in DOMAIN visited : ~Collectable(t)} |->
                           visited[s]]
          /\ pc' = [pc EXCEPT ![c] = "done"]
          /\ UNCHANGED <<joins, refs, stamp>>
      BY <2>3 DEF PruneFiles
    <3>2. HeldInv'
      BY <3>1, HeldNotCollectable
    <3>3. JoinsHaveFiles'
      BY <3>1 DEF Collectable
    <3>4. QED
      BY <3>2, <3>3
  <2>4. QED
    BY <1>2, <2>1, <2>2, <2>3 DEF PruneAsync
<1>3. CASE Tick
  BY <1>3 DEF Tick
<1>4. CASE Restart
  BY <1>4 DEF Restart
<1>5. CASE UNCHANGED vars
  BY <1>5 DEF vars
<1>6. QED
  BY <1>1, <1>2, <1>3, <1>4, <1>5 DEF Next

\* All of the above hold initially.
LEMMA InitInv == Init => Typed /\ LockInv /\ TimeInv /\ FileInv
BY CallLogAssumption
DEF Init, Typed, TypeOK, RowInv, Labels, Storing, PruneAll, LockInv, Pruning,
    TimeInv, FileInv, HeldInv, JoinsHaveFiles

\* If a Record writes its join rows within half the retention window of its
\* created_at, no join row ever points at a collected file.
THEOREM NoDanglingJoin == ASSUME Timely PROVE Spec => []JoinsHaveFiles
<1>1. FileInv => JoinsHaveFiles
  BY DEF FileInv
<1>2. QED
  BY <1>1, InitInv, TypeStep, LockStep, TimeStep, FileStep, PTL DEF Spec
----------------------------------------------------------------------------
\* What a running prune has already swept stays swept: after its UPDATE no
\* expired call has details, after its DELETE none has join rows.
SweptInv ==
  \A p \in Calls :
    /\ pc[p] \in {"joins", "files"} => \A c \in detail : ~Expired(c)
    /\ pc[p] = "files" => \A cs \in joins : ~Expired(cs[1])

\* A Record in progress is too young to have expired for a running prune.
LEMMA RecordNotExpired ==
  ASSUME Timely, Typed, TimeInv, ~PruneAll,
         NEW p \in Calls, pc[p] \in {"joins", "files"},
         NEW c \in Calls, Storing(c)
  PROVE  ~Expired(c)
<1>1. 2 * StoreBound <= Retain
  BY DEF Timely
<1>2. clock <= created[c] + StoreBound /\ cutoff + Retain <= clock
  BY DEF TimeInv
<1>3. /\ created[c] \in Int /\ clock \in Int /\ cutoff \in Int
      /\ StoreBound \in Nat /\ Retain \in Int
  BY CallLogAssumption DEF Typed, TypeOK
<1>4. QED
  BY <1>1, <1>2, <1>3 DEF Expired

\* Every step keeps what a prune has still to sweep.
LEMMA SweptStep ==
  ASSUME Timely
  PROVE  Typed /\ LockInv /\ TimeInv /\ SweptInv /\ [Next]_vars => SweptInv'
<1> SUFFICES ASSUME Typed, LockInv, TimeInv, SweptInv, [Next]_vars
             PROVE  SweptInv'
  OBVIOUS
<1> USE DEF Typed, TypeOK, SweptInv, Labels, Goto, StoreEnds, Release, tables, recVars,
            pruneVars
<1>1. ASSUME NEW c \in Calls, Record(c) PROVE SweptInv'
  <2>1. CASE BeginRecord(c)
    \* c is new: no row, hence no detail and no join of it
    <3>1. c \notin rows
      BY <2>1 DEF BeginRecord, RowInv
    <3>2. \A d \in Calls \ {c} : created'[d] = created[d]
      BY <2>1 DEF BeginRecord
    <3>3. QED
      BY <2>1, <3>1, <3>2 DEF BeginRecord, Expired
  <2>2. CASE InsertCall(c)
    <3>1. pc[c] = "insert"
      BY <2>2 DEF InsertCall
    <3>2. detail' \subseteq detail \cup {c} /\ (PruneAll => detail' = detail)
      BY <2>2 DEF InsertCall
    <3>3. \A p \in Calls : pc'[p] \in {"joins", "files"} => p # c /\ pc'[p] = pc[p]
      BY <2>2 DEF InsertCall
    <3>4. \A d \in Calls : Expired(d)' = Expired(d)
      BY <2>2 DEF InsertCall, Expired
    <3>5. ASSUME NEW p \in Calls, pc'[p] \in {"joins", "files"}, ~PruneAll
          PROVE  ~Expired(c)
      BY <3>1, <3>3, <3>5, RecordNotExpired DEF Storing
    <3>6. joins' = joins
      BY <2>2 DEF InsertCall
    <3>7. QED
      BY <3>2, <3>3, <3>4, <3>5, <3>6
  <2>3. CASE InsertJoins(c)
    <3>1. pc[c] = "join" /\ joins' = joins \cup ({c} \X refs[c]) /\ detail' = detail
      BY <2>3 DEF InsertJoins
    <3>2. PruneAll => joins' = joins
      BY <3>1 DEF RowInv, Storing
    <3>3. \A p \in Calls : pc'[p] \in {"joins", "files"} => p # c /\ pc'[p] = pc[p]
      BY <2>3 DEF InsertJoins
    <3>4. \A d \in Calls : Expired(d)' = Expired(d)
      BY <2>3 DEF InsertJoins, Expired
    <3>5. ASSUME NEW p \in Calls, pc'[p] \in {"joins", "files"}, ~PruneAll
          PROVE  ~Expired(c)
      BY <3>1, <3>3, <3>5, RecordNotExpired DEF Storing
    <3>6. \A cs \in {c} \X refs[c] : cs[1] = c
      OBVIOUS
    <3>7. QED
      BY <3>1, <3>2, <3>3, <3>4, <3>5, <3>6
  <2>4. CASE InsertFails(c) \/ StampFiles(c) \/ UpsertFiles(c) \/ StoreFails(c)
    BY <2>4 DEF InsertFails, StampFiles, UpsertFiles, StoreFails, Expired
  <2>5. QED
    BY <1>1, <2>1, <2>2, <2>3, <2>4 DEF Record
<1>2. ASSUME NEW c \in Calls, PruneAsync(c) PROVE SweptInv'
  <2>1. CASE TryLock(c) \/ LockBusy(c) \/ CountOnly(c)
    BY <2>1 DEF TryLock, LockBusy, CountOnly, Expired
  <2>2. CASE StartPrune(c)
    \* nobody else is past the mutex
    <3>1. \A p \in Calls : pc[p] \notin {"joins", "files"}
      BY <2>2 DEF StartPrune, LockInv, Pruning
    <3>2. QED
      BY <2>2, <3>1 DEF StartPrune
  <2>3. CASE PruneBlobs(c)
    <3>1. \A p \in Calls : pc[p] # "files"
      BY <2>3 DEF PruneBlobs, LockInv, Pruning
    <3>2. QED
      BY <2>3, <3>1 DEF PruneBlobs, Expired
  <2>4. CASE PruneJoins(c)
    BY <2>4 DEF PruneJoins, Expired
  <2>5. CASE PruneFiles(c) \/ PruneFails(c)
    BY <2>5 DEF PruneFiles, PruneFails, Expired
  <2>6. QED
    BY <1>2, <2>1, <2>2, <2>3, <2>4, <2>5 DEF PruneAsync
<1>3. CASE Tick
  BY <1>3 DEF Tick, Expired
<1>4. CASE Restart
  BY <1>4 DEF Restart, Expired
<1>5. CASE UNCHANGED vars
  BY <1>5 DEF vars, Expired
<1>6. QED
  BY <1>1, <1>2, <1>3, <1>4, <1>5 DEF Next

\* When a prune collects files, no details and no join rows of calls it
\* expires are left, whatever Records did since its earlier statements.
THEOREM ExpiredIsSwept == ASSUME Timely PROVE Spec => []SweptBeforeFiles
<1>1. Init => SweptInv
  BY DEF Init, SweptInv
<1>2. SweptInv => SweptBeforeFiles
  BY DEF SweptInv, SweptBeforeFiles
<1>3. QED
  BY <1>1, <1>2, InitInv, TypeStep, LockStep, TimeStep, SweptStep, PTL DEF Spec

----------------------------------------------------------------------------
\* A call that was recorded and is inside the window has kept its join rows.
KeptInv ==
  \A c \in Calls : Fresh(c) /\ c \in stored => \A s \in refs[c] : <<c, s>> \in joins

\* What is fresh is not expired for any running prune.
LEMMA FreshNotExpired ==
  ASSUME Typed, TimeInv,
         NEW p \in Calls, pc[p] \in {"blobs", "joins", "files"},
         NEW c \in Calls, Fresh(c)
  PROVE  ~Expired(c)
<1>1. ~PruneAll /\ created[c] + Retain >= clock /\ cutoff + Retain <= clock
  BY DEF TimeInv, Fresh
<1>2. created[c] \in Int /\ clock \in Int /\ cutoff \in Int /\ Retain \in Int
  BY CallLogAssumption DEF Typed, TypeOK
<1>3. QED
  BY <1>1, <1>2 DEF Expired

\* Every step keeps what may not be collected yet.
LEMMA KeptStep == Typed /\ TimeInv /\ KeptInv /\ [Next]_vars => KeptInv'
<1> SUFFICES ASSUME Typed, TimeInv, KeptInv, [Next]_vars PROVE KeptInv'
  OBVIOUS
<1> USE DEF Typed, TypeOK, KeptInv, Labels, Goto, StoreEnds, Release, tables, recVars,
            pruneVars
<1>1. ASSUME NEW c \in Calls, Record(c) PROVE KeptInv'
  <2>1. CASE BeginRecord(c)
    <3>1. c \notin stored
      BY <2>1 DEF BeginRecord, RowInv
    <3>2. QED
      BY <2>1, <3>1 DEF BeginRecord, Fresh
  <2>2. CASE InsertCall(c)
    <3>1. c \notin stored
      BY <2>2 DEF InsertCall, RowInv
    <3>2. QED
      BY <2>2, <3>1 DEF InsertCall, Fresh
  <2>3. CASE InsertJoins(c)
    BY <2>3 DEF InsertJoins, Fresh
  <2>4. CASE InsertFails(c) \/ StampFiles(c) \/ UpsertFiles(c) \/ StoreFails(c)
    BY <2>4 DEF InsertFails, StampFiles, UpsertFiles, StoreFails, Fresh
  <2>5. QED
    BY <1>1, <2>1, <2>2, <2>3, <2>4 DEF Record
<1>2. ASSUME NEW c \in Calls, PruneAsync(c) PROVE KeptInv'
  <2>1. CASE TryLock(c) \/ LockBusy(c) \/ CountOnly(c) \/ StartPrune(c)
    BY <2>1 DEF TryLock, LockBusy, CountOnly, StartPrune, Fresh
  <2>2. CASE PruneBlobs(c)
    BY <2>2 DEF PruneBlobs, Fresh
  <2>3. CASE PruneJoins(c)
    <3>1. \A d \in Calls : Fresh(d)' = Fresh(d)
      BY <2>3 DEF PruneJoins, Fresh
    <3>2. \A d \in Calls : Fresh(d) => ~PruneAll /\ ~Expired(d)
      BY <2>3, FreshNotExpired DEF PruneJoins, Fresh
    <3>3. \A d \in Calls, s \in Shas :
            Fresh(d) /\ <<d, s>> \in joins => <<d, s>> \in joins'
      BY <2>3, <3>2 DEF PruneJoins
    <3>4. UNCHANGED <<stored, refs>>
      BY <2>3 DEF PruneJoins
    <3>5. QED
      BY <3>1, <3>3, <3>4
  <2>4. CASE PruneFiles(c) \/ PruneFails(c)
    BY <2>4 DEF PruneFiles, PruneFails, Fresh
  <2>5. QED
    BY <1>2, <2>1, <2>2, <2>3, <2>4 DEF PruneAsync
<1>3. CASE Tick
  <2>1. \A c \in Calls : Fresh(c)' => Fresh(c)
    BY <1>3, CallLogAssumption DEF Tick, Fresh
  <2>2. QED
    BY <1>3, <2>1 DEF Tick
<1>4. CASE Restart
  BY <1>4 DEF Restart, Fresh
<1>5. CASE UNCHANGED vars
  BY <1>5 DEF vars, Fresh
<1>6. QED
  BY <1>1, <1>2, <1>3, <1>4, <1>5 DEF Next

\* The files of a recorded call keep their join rows and their rows for the
\* whole retention window.
THEOREM FreshDetailComplete == ASSUME Timely PROVE Spec => []DetailComplete
<1>1. Init => KeptInv
  BY DEF Init, KeptInv
<1>2. Typed /\ KeptInv /\ FileInv => DetailComplete
  BY DEF Typed, TypeOK, KeptInv, FileInv, JoinsHaveFiles, DetailComplete
<1>3. QED
  BY <1>1, <1>2, InitInv, TypeStep, LockStep, TimeStep, FileStep, KeptStep, PTL
  DEF Spec

\* A blob that was inserted is not cleared inside the retention window either:
\* only the UPDATE of a prune clears any, and its cutoff is not ahead of the
\* clock.
THEOREM FreshDetailKept == Spec => DetailKept
<1>1. Typed /\ TimeInv /\ [Next]_vars => [\A c \in detail : Fresh(c)' => c \in detail']_vars
  <2> SUFFICES ASSUME Typed, TimeInv, Next, NEW c \in detail, Fresh(c)'
               PROVE  c \in detail'
    OBVIOUS
  <2> USE DEF tables, recVars, pruneVars
  <2>1. ASSUME NEW p \in Calls, Record(p) PROVE c \in detail'
    BY <2>1 DEF Record, BeginRecord, InsertCall, InsertFails, StampFiles, UpsertFiles,
                InsertJoins, StoreFails
  <2>2. ASSUME NEW p \in Calls, PruneAsync(p) PROVE c \in detail'
    <3>1. CASE PruneBlobs(p)
      <4>1. Fresh(c) /\ pc[p] = "blobs" /\ c \in Calls
        BY <3>1 DEF PruneBlobs, Fresh, Typed, TypeOK
      <4>2. ~Expired(c)
        BY <4>1, FreshNotExpired
      <4> QED BY <3>1, <4>2 DEF PruneBlobs
    <3>2. CASE TryLock(p) \/ LockBusy(p) \/ CountOnly(p) \/ StartPrune(p) \/ PruneJoins(p)
                \/ PruneFiles(p) \/ PruneFails(p)
      BY <3>2 DEF TryLock, LockBusy, CountOnly, StartPrune, PruneJoins, PruneFiles, PruneFails
    <3> QED BY <2>2, <3>1, <3>2 DEF PruneAsync
  <2>3. CASE Tick \/ Restart
    BY <2>3 DEF Tick, Restart
  <2> QED BY <2>1, <2>2, <2>3 DEF Next
<1> QED BY <1>1, InitInv, TypeStep, LockStep, TimeStep, PTL DEF Spec, DetailKept
----------------------------------------------------------------------------
\* The inserts that are still to be counted: from the INSERT to the counter.
Uncounted == {c \in Calls : pc[c] \in {"stamp", "upsert", "join", "async", "count"}}

PaidInv == sincePrune + Cardinality(Uncounted) <= owed

\* Every step moves at most one call into or out of Uncounted; the counter
\* takes one over, LockBusy drops one.
LEMMA PaidStep == Typed /\ PaidInv /\ [Next]_vars => PaidInv'
<1> SUFFICES ASSUME Typed, PaidInv, [Next]_vars PROVE PaidInv'
  OBVIOUS
<1> USE DEF Typed, TypeOK, PaidInv, Labels, Goto, StoreEnds, Release, tables, recVars,
            pruneVars
<1>0. IsFiniteSet(Uncounted) /\ Cardinality(Uncounted) \in Nat
  BY CallLogAssumption, FS_Subset, FS_CardinalityType DEF Uncounted
<1>a. ASSUME Uncounted' = Uncounted, UNCHANGED <<sincePrune, owed>> PROVE PaidInv'
  BY <1>a
<1>b. ASSUME NEW c \in Uncounted, Uncounted' = Uncounted \ {c}
      PROVE  Cardinality(Uncounted)' = Cardinality(Uncounted) - 1
  BY <1>0, <1>b, FS_RemoveElement
<1>c. ASSUME NEW c, c \notin Uncounted, Uncounted' = Uncounted \cup {c}
      PROVE  Cardinality(Uncounted)' = Cardinality(Uncounted) + 1
  BY <1>0, <1>c, FS_AddElement
<1>1. ASSUME NEW c \in Calls, Record(c) PROVE PaidInv'
  <2>1. CASE InsertCall(c)
    <3>1. c \notin Uncounted /\ Uncounted' = Uncounted \cup {c}
      BY <2>1 DEF InsertCall, Uncounted
    <3>2. owed' = owed + 1 /\ sincePrune' = sincePrune
      BY <2>1 DEF InsertCall
    <3>3. QED
      BY <3>1, <3>2, <1>0, <1>c, CallLogAssumption
  <2>2. CASE BeginRecord(c) \/ InsertFails(c) \/ StampFiles(c)
    BY <2>2, <1>a DEF BeginRecord, InsertFails, StampFiles, Uncounted
  <2>3. CASE UpsertFiles(c) \/ InsertJoins(c) \/ StoreFails(c)
    BY <2>3, <1>a DEF UpsertFiles, InsertJoins, StoreFails, Uncounted
  <2>4. QED
    BY <1>1, <2>1, <2>2, <2>3 DEF Record
<1>2. ASSUME NEW c \in Calls, PruneAsync(c) PROVE PaidInv'
  <2>1. CASE TryLock(c)
    BY <2>1, <1>a DEF TryLock, Uncounted
  <2>2. CASE LockBusy(c)
    <3>1. c \in Uncounted /\ Uncounted' = Uncounted \ {c}
      BY <2>2 DEF LockBusy, Uncounted
    <3>2. UNCHANGED <<owed, sincePrune>>
      BY <2>2 DEF LockBusy
    <3>3. Cardinality(Uncounted)' = Cardinality(Uncounted) - 1
      BY <3>1, <1>b
    <3>4. QED
      BY <3>2, <3>3, <1>0, CallLogAssumption
  <2>3. CASE CountOnly(c)
    <3>1. c \in Uncounted /\ Uncounted' = Uncounted \ {c}
      BY <2>3 DEF CountOnly, Uncounted
    <3>2. owed' = owed /\ sincePrune' = sincePrune + 1
      BY <2>3 DEF CountOnly
    <3>3. Cardinality(Uncounted)' = Cardinality(Uncounted) - 1
      BY <3>1, <1>b
    <3>4. QED
      BY <3>2, <3>3, <1>0, CallLogAssumption
  <2>4. CASE StartPrune(c)
    <3>1. c \in Uncounted /\ Uncounted' = Uncounted \ {c}
      BY <2>4 DEF StartPrune, Uncounted
    <3>2. owed' = owed - PruneEveryN /\ sincePrune' = 0
          /\ sincePrune = PruneEveryN - 1
      BY <2>4, CallLogAssumption DEF StartPrune
    <3>3. Cardinality(Uncounted)' = Cardinality(Uncounted) - 1
      BY <3>1, <1>b
    <3>4. QED
      BY <3>2, <3>3, <1>0, CallLogAssumption
  <2>5. CASE PruneBlobs(c) \/ PruneJoins(c) \/ PruneFiles(c) \/ PruneFails(c)
    BY <2>5, <1>a DEF PruneBlobs, PruneJoins, PruneFiles, PruneFails, Uncounted
  <2>6. QED
    BY <1>2, <2>1, <2>2, <2>3, <2>4, <2>5 DEF PruneAsync
<1>3. CASE Tick
  BY <1>3, <1>a DEF Tick, Uncounted
<1>4. CASE Restart
  <2>1. Uncounted' = {}
    BY <1>4 DEF Restart, Uncounted
  <2>2. QED
    BY <1>4, <2>1, FS_EmptySet DEF Restart
<1>5. CASE UNCHANGED vars
  BY <1>5, <1>a DEF vars, Uncounted
<1>6. QED
  BY <1>1, <1>2, <1>3, <1>4, <1>5 DEF Next

\* PruneEveryN inserts stand behind every prune: the counter never runs ahead
\* of the inserts of this process.
THEOREM PruneIsPaidFor == Spec => []PruneNotEarly
<1>1. Init => PaidInv
  <2> SUFFICES ASSUME Init PROVE PaidInv
    OBVIOUS
  <2>1. Uncounted = {}
    BY DEF Init, Uncounted
  <2>2. QED
    BY <2>1, FS_EmptySet DEF Init, PaidInv
<1>2. Typed /\ PaidInv => PruneNotEarly
  <2> SUFFICES ASSUME Typed, PaidInv PROVE PruneNotEarly
    OBVIOUS
  <2>1. Cardinality(Uncounted) \in Nat
    BY CallLogAssumption, FS_Subset, FS_CardinalityType DEF Uncounted
  <2>2. QED
    BY <2>1, CallLogAssumption
    DEF Typed, TypeOK, PaidInv, PruneNotEarly
<1>3. QED
  BY <1>1, <1>2, InitInv, TypeStep, PaidStep, PTL DEF Spec

----------------------------------------------------------------------------
\* CallPages.

\* Every step of the readers leaves the tables alone.
LEMMA PageStepIsLogStep == [PageNext]_pageVars => [Next]_vars
BY DEF PageNext, pageVars, Reader, ReadCall, ListFiles, ListFilesFails

\* Readers do not disturb the call log: every theorem about Spec holds for it.
THEOREM PagesOnlyRead == PageSpec => Spec
BY PageStepIsLogStep, PTL DEF PageSpec, PageInit, Spec

----------------------------------------------------------------------------
\* Join rows, and with them the links of a page, come from a Record that
\* returned, and name files that call extracted.
JoinInv == \A cs \in joins : cs[1] \in stored /\ cs[2] \in refs[cs[1]]

PageInv ==
  /\ page \in [at : {"none", "read", "shown"}, call : Calls \cup {NoCall},
               holders : SUBSET Shas, files : SUBSET Shas, failed : BOOLEAN]
  /\ page.at # "none" => page.call \in rows
  /\ page.at # "none" => page.holders \subseteq refs[page.call]
  /\ page.at = "read" => page.files = {}
  /\ page.at = "shown" /\ page.files # {} =>
       page.call \in stored /\ page.files \subseteq refs[page.call]

\* Every step of the log keeps join rows with the calls they belong to.
LEMMA JoinStep == Typed /\ JoinInv /\ [Next]_vars => JoinInv'
<1> SUFFICES ASSUME Typed, JoinInv, [Next]_vars PROVE JoinInv'
  OBVIOUS
<1> USE DEF Typed, TypeOK, RowInv, JoinInv, tables, recVars, pruneVars
<1>1. ASSUME NEW c \in Calls, Record(c) PROVE JoinInv'
  <2>1. CASE BeginRecord(c)
    BY <2>1 DEF BeginRecord
  <2>2. CASE InsertJoins(c)
    BY <2>2 DEF InsertJoins
  <2>3. CASE InsertCall(c) \/ InsertFails(c) \/ StampFiles(c) \/ UpsertFiles(c)
             \/ StoreFails(c)
    BY <2>3 DEF InsertCall, InsertFails, StampFiles, UpsertFiles, StoreFails
  <2>4. QED
    BY <1>1, <2>1, <2>2, <2>3 DEF Record
<1>2. ASSUME NEW c \in Calls, PruneAsync(c) PROVE JoinInv'
  BY <1>2 DEF PruneAsync, TryLock, LockBusy, CountOnly, StartPrune, PruneBlobs,
              PruneJoins, PruneFiles, PruneFails
<1>3. CASE Tick \/ Restart \/ UNCHANGED vars
  BY <1>3 DEF Tick, Restart, vars
<1>4. QED
  BY <1>1, <1>2, <1>3 DEF Next

\* refs of a call with a row never changes, nor is a row or a stored call lost.
LEMMA RowsStay ==
  ASSUME Typed, [Next]_vars, NEW c \in rows
  PROVE  c \in rows' /\ refs'[c] = refs[c] /\ (c \in stored => c \in stored')
<1> USE DEF Typed, TypeOK, RowInv, tables, recVars, pruneVars
<1>1. ASSUME NEW d \in Calls, Record(d)
      PROVE  c \in rows' /\ refs'[c] = refs[c] /\ (c \in stored => c \in stored')
  BY <1>1 DEF Record, BeginRecord, InsertCall, InsertFails, StampFiles,
              UpsertFiles, InsertJoins, StoreFails
<1>2. ASSUME NEW d \in Calls, PruneAsync(d)
      PROVE  rows' = rows /\ refs' = refs /\ stored' = stored
  BY <1>2 DEF PruneAsync, TryLock, LockBusy, CountOnly, StartPrune, PruneBlobs,
              PruneJoins, PruneFiles, PruneFails
<1>3. CASE Tick \/ Restart \/ UNCHANGED vars
  BY <1>3 DEF Tick, Restart, vars
<1>4. QED
  BY <1>1, <1>2, <1>3 DEF Next

\* Every step of the log or of a reader keeps the invariant of the page.
LEMMA PageStep ==
  Typed /\ JoinInv /\ PageInv /\ [PageNext]_pageVars => PageInv'
<1> SUFFICES ASSUME Typed, JoinInv, PageInv, [PageNext]_pageVars PROVE PageInv'
  OBVIOUS
<1>1. CASE Next /\ UNCHANGED page
  BY <1>1, RowsStay DEF PageInv
<1>2. ASSUME NEW c \in Calls, ReadCall(c) PROVE PageInv'
  BY <1>2 DEF ReadCall, NoPage, PageInv, Typed, TypeOK, vars, tables, recVars
<1>3. CASE ListFiles
  <2>1. Linked(page.call) # {} =>
          page.call \in stored /\ Linked(page.call) \subseteq refs[page.call]
    BY DEF Linked, JoinInv
  <2>2. page'.at = "shown" /\ page'.call = page.call
        /\ page'.holders = page.holders /\ page'.files = Linked(page.call)
    BY <1>3 DEF ListFiles, PageInv
  <2>3. Linked(page.call) \subseteq Shas
    BY DEF Linked, Typed, TypeOK
  <2>4. QED
    BY <1>3, <2>1, <2>2, <2>3 DEF ListFiles, PageInv, vars, tables, recVars
<1>4. CASE ListFilesFails
  BY <1>4 DEF ListFilesFails, PageInv, vars, tables, recVars
<1>5. CASE UNCHANGED pageVars
  BY <1>5 DEF pageVars, PageInv, vars, tables, recVars
<1>6. QED
  BY <1>1, <1>2, <1>3, <1>4, <1>5 DEF PageNext, Reader

\* The log with its readers has the invariants of both.
LEMMA PageInvHolds == PageSpec => [](Typed /\ JoinInv /\ PageInv)
<1>1. PageInit => JoinInv /\ PageInv
  BY DEF PageInit, Init, JoinInv, PageInv, NoPage
<1>2. QED
  BY <1>1, InitInv, TypeStep, JoinStep, PageStep, PageStepIsLogStep, PTL
  DEF PageSpec, PageInit

----------------------------------------------------------------------------
\* A link stays good for the retention window of its call.
THEOREM LinksStayGood == ASSUME Timely PROVE PageSpec => []LinksResolve
<1>1. PageInv /\ DetailComplete => LinksResolve
  BY DEF PageInv, DetailComplete, LinksResolve, Served
<1>2. QED
  BY <1>1, PageInvHolds, PagesOnlyRead, FreshDetailComplete, PTL

\* A page sent within the window shows no placeholder without its file.
THEOREM PagesAreComplete == ASSUME Timely PROVE PageSpec => PageComplete
<1>1. PageInv /\ DetailComplete /\ [PageNext]_pageVars
      => [page.at = "read" /\ page'.at = "shown" /\ ~page'.failed
            => (page.call \in stored /\ Fresh(page.call)
                  => page'.holders \subseteq page'.files)]_pageVars
  <2> SUFFICES ASSUME PageInv, DetailComplete, [PageNext]_pageVars,
                      page.at = "read", page'.at = "shown", ~page'.failed,
                      page.call \in stored, Fresh(page.call)
               PROVE  page'.holders \subseteq page'.files
    OBVIOUS
  <2>1. ListFiles \/ ListFilesFails
    BY DEF PageNext, Reader, ReadCall, NoPage, pageVars
  <2>2. CASE ListFiles
    <3>1. page'.holders = page.holders /\ page'.files = Linked(page.call)
      BY <2>2 DEF ListFiles, PageInv
    <3>2. \A s \in refs[page.call] : s \in Linked(page.call)
      BY DEF DetailComplete, Linked
    <3>3. QED
      BY <3>1, <3>2 DEF PageInv
  <2>3. CASE ListFilesFails
    BY <2>3 DEF ListFilesFails, PageInv
  <2>4. QED
    BY <2>1, <2>2, <2>3
<1>2. QED
  BY <1>1, PageInvHolds, PagesOnlyRead, FreshDetailComplete, PTL
  DEF PageSpec, PageComplete

----------------------------------------------------------------------------
\* Every step of the process is a step of the call log or leaves it alone: the
\* end of the process is Restart, and a closed database only makes statements
\* fail, as they may at any time.
LEMMA LifeStepIsLogStep == [LifeNext]_lifeVars => [Next]_vars
<1> SUFFICES ASSUME [LifeNext]_lifeVars PROVE [Next]_vars
  OBVIOUS
<1>1. ASSUME NEW c \in Calls, HandlerRecords(c) PROVE Next
  BY <1>1 DEF HandlerRecords, Record, Next
<1>2. ASSUME NEW c \in Calls, Prunes(c) PROVE Next
  BY <1>2 DEF Prunes, PruneAsync, Next
<1>3. ASSUME NEW c \in Calls, Accept(c) \/ Handle(c) \/ HandlerReturns(c) \/ DropNew(c)
      PROVE  UNCHANGED vars
  BY <1>3 DEF Accept, Handle, HandlerReturns, DropNew
<1>4. CASE Signal \/ Drained \/ ListenFails \/ Start
  BY <1>4 DEF Signal, Drained, ListenFails, Start
<1>5. CASE Exit \/ Killed
  BY <1>5 DEF Exit, Killed, Ends, Next
<1>6. CASE LifeTick
  BY <1>6 DEF LifeTick, Next
<1>7. CASE UNCHANGED lifeVars
  BY <1>7 DEF lifeVars
<1>8. QED
  BY <1>1, <1>2, <1>3, <1>4, <1>5, <1>6, <1>7 DEF LifeNext

\* The process implements the call log: every theorem about Spec is one about
\* LifeSpec.
THEOREM ProcessKeepsTheLog == LifeSpec => Spec
<1>1. LifeInit => Init
  BY DEF LifeInit
<1>2. QED
  BY <1>1, LifeStepIsLogStep, PTL DEF LifeSpec, Spec

----------------------------------------------------------------------------
(***************************************************************************)
(* Shutdown.  A Record in progress belongs to an active connection, and    *)
(* after a signal none is left when the database is closed.                *)
(***************************************************************************)
LifeInv ==
  /\ conn \in [Calls -> {"none", "new", "active", "closed"}]
  /\ phase \in Phases
  /\ phase = "serving" => why = ""
  /\ phase = "draining" => why = "signal"
  /\ phase = "closed" =>
       \/ why = "error"
       \/ why = "signal" /\ \A c \in Calls : conn[c] \notin {"new", "active"}
  /\ \A c \in Calls : Storing(c) => conn[c] = "active"
  /\ refused # {} => why = "error"

\* A process that has not started has served nothing.
LEMMA LifeInvInit == LifeInit => LifeInv
BY DEF LifeInit, Init, LifeInv, Phases, Storing

\* Every step of the process, or of its log, keeps the invariant of shutdown.
LEMMA LifeInvStep == Typed /\ LifeInv /\ [LifeNext]_lifeVars => LifeInv'
<1> SUFFICES ASSUME Typed, LifeInv, [LifeNext]_lifeVars PROVE LifeInv'
  OBVIOUS
<1> USE DEF LifeInv, Phases, Storing
<1>0. pc \in [Calls -> Labels]
  BY DEF Typed, TypeOK
<1>1. ASSUME NEW c \in Calls, Accept(c) \/ Handle(c) \/ HandlerReturns(c) \/ DropNew(c)
      PROVE  LifeInv'
  <2>1. CASE Accept(c)
    BY <2>1 DEF Accept, vars
  <2>2. CASE Handle(c)
    BY <2>2 DEF Handle, Up, vars
  <2>3. CASE HandlerReturns(c)
    BY <2>3 DEF HandlerReturns, Up, vars
  <2>4. CASE DropNew(c)
    BY <2>4 DEF DropNew, vars
  <2>5. QED
    BY <1>1, <2>1, <2>2, <2>3, <2>4
<1>2. ASSUME NEW c \in Calls, HandlerRecords(c) PROVE LifeInv'
  <2>1. Record(c) /\ conn[c] = "active" /\ UNCHANGED <<phase, why, conn>>
    BY <1>2 DEF HandlerRecords, Record
  <2>2. \A d \in Calls : d # c => pc'[d] = pc[d]
    BY <2>1, <1>0 DEF Record, BeginRecord, InsertCall, InsertFails, StampFiles,
                      UpsertFiles, InsertJoins, StoreFails, StoreEnds, Goto
  <2>3. refused' # {} => why = "error"
    BY <1>2, <2>1 DEF HandlerRecords
  <2>4. QED
    BY <2>1, <2>2, <2>3
<1>3. ASSUME NEW c \in Calls, Prunes(c) PROVE LifeInv'
  <2>1. PruneAsync(c) /\ UNCHANGED <<phase, why, conn, refused>>
    BY <1>3 DEF Prunes, PruneAsync
  <2>2. \A d \in Calls : Storing(d)' => Storing(d)
    BY <2>1, <1>0 DEF PruneAsync, TryLock, LockBusy, CountOnly, StartPrune,
                      PruneBlobs, PruneJoins, PruneFiles, PruneFails, Goto, StoreEnds, Release
  <2>3. QED
    BY <2>1, <2>2
<1>4. CASE Signal \/ Drained \/ ListenFails \/ Start
  BY <1>4 DEF Signal, Drained, ListenFails, Start, vars
<1>5. CASE Exit \/ Killed
  <2>1. Restart /\ phase' = "down" /\ UNCHANGED <<why, refused>>
        /\ conn' = [c \in Calls |-> IF conn[c] = "none" THEN "none" ELSE "closed"]
    BY <1>5 DEF Exit, Killed, Ends
  <2>2. \A c \in Calls : ~Storing(c)'
    BY <2>1 DEF Restart
  <2>3. QED
    BY <2>1, <2>2
<1>6. CASE LifeTick
  BY <1>6 DEF LifeTick, Tick
<1>7. CASE UNCHANGED lifeVars
  BY <1>7 DEF lifeVars, vars
<1>8. QED
  BY <1>1, <1>2, <1>3, <1>4, <1>5, <1>6, <1>7 DEF LifeNext

\* The process with its log has the invariants of both.
LEMMA LifeInvHolds == LifeSpec => [](Typed /\ LifeInv)
BY InitInv, TypeStep, LifeStepIsLogStep, LifeInvInit, LifeInvStep, PTL
DEF LifeSpec, LifeInit

\* A process that was asked to stop refuses no Record of a request it had
\* accepted, whenever the signal comes and whatever the requests are doing.
THEOREM ShutdownRefusesNothing == LifeSpec => []RecordsSurviveShutdown
<1>1. LifeInv => RecordsSurviveShutdown
  BY DEF LifeInv, RecordsSurviveShutdown
<1>2. QED
  BY <1>1, LifeInvHolds, PTL

\* When such a process exits, no handler is running and nothing is stored half.
THEOREM ExitCutsOnlyPrunes == LifeSpec => OnlyPrunesAreCut
<1>1. LifeInv /\ [LifeNext]_lifeVars
      => [Exit /\ why = "signal"
            => \A c \in Calls : conn[c] # "active" /\ ~Storing(c)]_lifeVars
  BY DEF LifeInv, Exit
<1>2. QED
  BY <1>1, LifeInvHolds, PTL DEF LifeSpec, OnlyPrunesAreCut
=============================================================================
