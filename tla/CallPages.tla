----------------------------- MODULE CallPages -----------------------------
(***************************************************************************)
(* The detail page of a call (admin.go) over the tables of CallLog: the    *)
(* handler reads the call in one statement and its files in another, and   *)
(* the browser asks for each file in a request of its own, while Records   *)
(* and prunes go on in between.                                            *)
(***************************************************************************)
EXTENDS CallLog

CONSTANT NoCall  \* no page
ASSUME NoCall \notin Calls

VARIABLE
  page  \* the page: how far it is, its call, the placeholders in the JSON it
        \* shows, the files it links, and whether listing them failed

pageVars == <<vars, page>>

NoPage == [at |-> "none", call |-> NoCall, holders |-> {}, files |-> {},
           failed |-> FALSE]

PageInit == Init /\ page = NoPage

----------------------------------------------------------------------------
\* handleAdminCall: the row of the call, or a 404 that leaves no page.  A
\* blob that was cleared shows as "detail not retained".
ReadCall(c) ==
  /\ page.at # "read"
  /\ page' = IF c \in rows
             THEN [NoPage EXCEPT !.at = "read", !.call = c,
                                 !.holders = IF c \in detail THEN refs[c] ELSE {}]
             ELSE NoPage
  /\ UNCHANGED vars

\* llm_files JOIN llm_call_files of the call.
Linked(c) == {s \in DOMAIN visited : <<c, s>> \in joins}

\* listCallFiles, and the page is sent.
ListFiles ==
  /\ page.at = "read"
  /\ page' = [page EXCEPT !.at = "shown", !.files = Linked(page.call)]
  /\ UNCHANGED vars

\* The query fails: it is logged and the page is sent without files.
ListFilesFails ==
  /\ page.at = "read"
  /\ page' = [page EXCEPT !.at = "shown", !.failed = TRUE]
  /\ UNCHANGED vars

\* handleAdminFile: whether a link of the page still has its file.
Served(s) == s \in DOMAIN visited

Reader == (\E c \in Calls : ReadCall(c)) \/ ListFiles \/ ListFilesFails

PageNext == \/ Next /\ UNCHANGED page
            \/ Reader

PageSpec == PageInit /\ [][PageNext]_pageVars
----------------------------------------------------------------------------
\* A page that is sent while its call is inside the retention window, after
\* Record returned, links a file for every placeholder it shows, although the
\* call was read earlier and prunes ran between the two queries.
PageComplete ==
  [][page.at = "read" /\ page'.at = "shown" /\ ~page'.failed
       => (page.call \in stored /\ Fresh(page.call)
             => page'.holders \subseteq page'.files)]_pageVars

\* A link of a page that is still open resolves for as long as the call is
\* inside the retention window: no prune collects what a page shows.
LinksResolve ==
  page.at = "shown" /\ Fresh(page.call) => \A s \in page.files : Served(s)
=============================================================================
