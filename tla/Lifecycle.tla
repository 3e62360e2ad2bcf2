----------------------------- MODULE Lifecycle -----------------------------
(***************************************************************************)
(* The process around the call log (main.go): it serves connections, and a *)
(* signal makes it drain them, close the database and exit; a listener     *)
(* that fails makes it close the database at once.  The handler of each    *)
(* request runs Record of CallLog; the prune goroutine Record starts is    *)
(* waited for by nobody.                                                   *)
(***************************************************************************)
EXTENDS CallLog

VARIABLES
  phase,    \* where main is
  why,      \* why it stopped serving: "signal", "error", or "" while it serves
  conn,     \* the connection of each call's request
  refused   \* history: Records whose statement found the database closed

lifeVars == <<vars, phase, why, conn, refused>>

Phases == {"serving", "draining", "closed", "down"}

LifeInit ==
  /\ Init
  /\ phase = "serving" /\ why = ""
  /\ conn = [c \in Calls |-> IF pc[c] = "idle" THEN "none" ELSE "closed"]
  /\ refused = {}

Up == phase # "down"
Streaming(c) == conn[c] = "active" /\ pc[c] = "idle"

----------------------------------------------------------------------------
\* net/http: a connection is accepted while the listener is open.
Accept(c) ==
  /\ phase = "serving"
  /\ conn[c] = "none"
  /\ conn' = [conn EXCEPT ![c] = "new"]
  /\ UNCHANGED <<vars, phase, why, refused>>

\* A request comes in on it and its handler starts, also when Shutdown has
\* closed the listener in the meantime.
Handle(c) ==
  /\ Up
  /\ conn[c] = "new"
  /\ conn' = [conn EXCEPT ![c] = "active"]
  /\ UNCHANGED <<vars, phase, why, refused>>

\* The handler answers, and at the end of the attempt it calls Record; once
\* the database is closed every statement of it fails.
HandlerRecords(c) ==
  /\ Up
  /\ conn[c] = "active"
  /\ IF phase = "closed"
     THEN BeginRecord(c) \/ InsertFails(c) \/ StampFiles(c) \/ StoreFails(c)
     ELSE Record(c)
  /\ refused' = IF phase = "closed" /\ pc[c] \in {"insert", "upsert", "join"}
                THEN refused \cup {c} ELSE refused
  /\ UNCHANGED <<phase, why, conn>>

\* The handler returns after Record did, or, for a request it refused,
\* without an attempt to record.
HandlerReturns(c) ==
  /\ Up
  /\ conn[c] = "active"
  /\ ~Storing(c)
  /\ conn' = [conn EXCEPT ![c] = "closed"]
  /\ UNCHANGED <<vars, phase, why, refused>>

\* The goroutine that Record started.
Prunes(c) ==
  /\ Up
  /\ IF phase = "closed"
     THEN TryLock(c) \/ LockBusy(c) \/ CountOnly(c) \/ StartPrune(c) \/ PruneFails(c)
     ELSE PruneAsync(c)
  /\ UNCHANGED <<phase, why, conn, refused>>

----------------------------------------------------------------------------
\* SIGINT or SIGTERM: main unregisters them and calls Shutdown, which closes
\* the listener.
Signal ==
  /\ phase = "serving"
  /\ phase' = "draining" /\ why' = "signal"
  /\ UNCHANGED <<vars, conn, refused>>

\* Mutant: connections without a request are left to themselves.
DropNewLate(c) ==
  /\ phase = "closed"
  /\ conn[c] = "new"
  /\ conn' = [conn EXCEPT ![c] = "closed"]
  /\ UNCHANGED <<vars, phase, why, refused>>

\* Shutdown closes connections that sent no request.
DropNew(c) ==
  /\ phase = "draining"
  /\ conn[c] = "new"
  /\ conn' = [conn EXCEPT ![c] = "closed"]
  /\ UNCHANGED <<vars, phase, why, refused>>

\* Mutant: Shutdown with a deadline, which returns with handlers running.
DrainedInTime ==
  /\ phase = "draining"
  /\ phase' = "closed"
  /\ UNCHANGED <<vars, why, conn, refused>>

\* Shutdown returns when no connection is left, however long that takes, and
\* main's deferred closeDB closes the database.
Drained ==
  /\ phase = "draining"
  /\ \A c \in Calls : conn[c] \notin {"new", "active"}
  /\ phase' = "closed"
  /\ UNCHANGED <<vars, why, conn, refused>>

\* ListenAndServe returned an error: main returns, and closeDB runs with
\* handlers still at work.
ListenFails ==
  /\ phase = "serving"
  /\ phase' = "closed" /\ why' = "error"
  /\ UNCHANGED <<vars, conn, refused>>

\* Whatever runs in the process ends with it.
Ends == /\ Restart
        /\ phase' = "down"
        /\ conn' = [c \in Calls |-> IF conn[c] = "none" THEN "none" ELSE "closed"]
        /\ UNCHANGED <<why, refused>>

\* main returns, with an exit status.
Exit == phase = "closed" /\ Ends

\* A second signal, or any other sudden end.
Killed == Up /\ Ends

\* The next process: openDB, then the listener.
Start ==
  /\ phase = "down"
  /\ phase' = "serving" /\ why' = "" /\ refused' = {}
  /\ UNCHANGED <<vars, conn>>

LifeTick == Tick /\ UNCHANGED <<phase, why, conn, refused>>

LifeNext ==
  \/ \E c \in Calls : \/ Accept(c) \/ Handle(c) \/ HandlerReturns(c)
                      \/ HandlerRecords(c) \/ Prunes(c) \/ DropNew(c)
  \/ Signal \/ Drained \/ ListenFails \/ Exit \/ Killed \/ Start \/ LifeTick

LifeSpec == LifeInit /\ [][LifeNext]_lifeVars

\* Goroutines run, Shutdown polls, main returns.  A stream need not end, so a
\* handler that has not come to Record owes nothing; nor do clients, signals
\* and whoever starts the process again.
LifeFairness ==
  /\ \A c \in Calls :
       /\ WF_lifeVars(pc[c] # "idle" /\ HandlerRecords(c))
       /\ WF_lifeVars(pc[c] # "idle" /\ HandlerReturns(c))
       /\ WF_lifeVars(Prunes(c))
       /\ WF_lifeVars(DropNew(c))
  /\ WF_lifeVars(Drained)
  /\ WF_lifeVars(Exit)

LifeFairSpec == LifeSpec /\ LifeFairness
----------------------------------------------------------------------------
\* "In-flight LLM streams must be allowed to finish" (main.go:76-77): a process
\* that was asked to stop refuses no Record of a request it had accepted;
\* only one whose listener failed closes the database under its handlers.
RecordsSurviveShutdown == why # "error" => refused = {}

\* What a graceful exit cuts off is at most prune goroutines: every request
\* has been answered, and its row and files are stored or failed by themselves.
OnlyPrunesAreCut ==
  [][Exit /\ why = "signal"
       => \A c \in Calls : conn[c] # "active" /\ ~Storing(c)]_lifeVars

\* "waits indefinitely for in-flight requests" (README.md:17), and for
\* nothing else: a process that drains for ever has a stream that never ends.
DrainsUnlessStreaming ==
  <>[](phase = "draining") => <>[](\E c \in Calls : Streaming(c))
=============================================================================
