------------------------------ MODULE Session ------------------------------
(***************************************************************************)
(* Admin sessions (admin_auth.go, server.go): a login with the configured  *)
(* user and password gives the browser a signed cookie that expires; every *)
(* admin page asks for a cookie signed with the key of this process, which *)
(* is derived from the credentials it was started with.  The server keeps  *)
(* no session: logout only clears the browser's cookie, and one that was   *)
(* sent before it still counts.                                            *)
(***************************************************************************)
EXTENDS Integers

CONSTANTS
  Browsers,     \* the clients of the admin pages
  Creds,        \* user and password pairs a configuration may hold
  TTL,          \* adminCookieTTL, in ticks of half a second
  Start,        \* the time of the first start
  Instants,     \* bound: the times that are looked at
  MaxRestarts,  \* bound: restarts
  NoCookie      \* a browser without cookie

Second == 2     \* ticks

ASSUME SessionAssumption ==
  /\ Creds \subseteq [user : STRING, pass : STRING]
  /\ TTL \in Nat /\ Start \in Nat /\ Instants \subseteq Nat
  /\ MaxRestarts \in Nat

VARIABLES
  clock,     \* time.Now
  cred,      \* Config.Admin of the running process
  restarts,  \* restarts so far
  jar,       \* the cookie each browser holds
  sent,      \* the cookie of each browser's request that is not handled yet
  logins,    \* the latest login of each browser as each user: when
  answered   \* what the latest request of each browser was answered with:
             \* "none" while it is under way, "page" or "login"

sessionVars == <<clock, cred, restarts, jar, sent, logins, answered>>

----------------------------------------------------------------------------
\* time.Time.Unix drops the fraction of the second.
Unix(t) == t \div Second

\* Mutant: a key that does not depend on the password.
KeyOfUser(c) == <<c.user, "">>

\* adminCookieKey: a digest, as distinct as what goes in.
Key(c) == <<c.user, c.pass>>

\* signAdminCookie: the expiry, and a MAC of it with the user name.
Sign(c, exp) == [exp |-> Unix(exp), key |-> Key(c), user |-> c.user]

\* verifyAdminCookie
Verify(c, cookie, now) ==
  /\ cookie # NoCookie
  /\ Unix(now) < cookie.exp
  /\ cookie.key = Key(c) /\ cookie.user = c.user

----------------------------------------------------------------------------
SessionInit ==
  /\ clock = Start /\ cred \in Creds /\ restarts = 0
  /\ jar = [b \in Browsers |-> NoCookie]
  /\ sent = [b \in Browsers |-> {}]
  /\ logins = {}
  /\ answered = [b \in Browsers |-> "none"]

\* POST /login: anything but the configured pair is refused.
Login(b, given) ==
  /\ given = cred
  /\ jar' = [jar EXCEPT ![b] = Sign(cred, clock + TTL)]
  /\ logins' = {l \in logins : l.browser # b \/ l.cred # cred}
                 \cup {[browser |-> b, cred |-> cred, at |-> clock]}
  /\ UNCHANGED <<clock, cred, restarts, sent, answered>>

\* POST /logout: clears the cookie of this browser, and nothing else.
Logout(b) ==
  /\ jar' = [jar EXCEPT ![b] = NoCookie]
  /\ UNCHANGED <<clock, cred, restarts, sent, logins, answered>>

\* The browser asks for an admin page with the cookie it holds.  (Bound: one
\* request per browser is under way.)
Ask(b) ==
  /\ sent[b] = {}
  /\ sent' = [sent EXCEPT ![b] = {jar[b]}]
  /\ answered' = [answered EXCEPT ![b] = "none"]
  /\ UNCHANGED <<clock, cred, restarts, jar, logins>>

\* requireAdmin, the cookie is good: the handler of the page runs.
Admit(b, cookie) ==
  /\ cookie \in sent[b]
  /\ Verify(cred, cookie, clock)
  /\ sent' = [sent EXCEPT ![b] = {}]
  /\ answered' = [answered EXCEPT ![b] = "page"]
  /\ UNCHANGED <<clock, cred, restarts, jar, logins>>

\* requireAdmin, it is not: the browser is sent to /login.
Redirect(b, cookie) ==
  /\ cookie \in sent[b]
  /\ ~Verify(cred, cookie, clock)
  /\ sent' = [sent EXCEPT ![b] = {}]
  /\ answered' = [answered EXCEPT ![b] = "login"]
  /\ UNCHANGED <<clock, cred, restarts, jar, logins>>

Elapse(t) ==
  /\ clock < t
  /\ clock' = t
  /\ UNCHANGED <<cred, restarts, jar, sent, logins, answered>>

\* A new process, perhaps with other credentials: the requests are lost.
Restart(c) ==
  /\ restarts < MaxRestarts
  /\ restarts' = restarts + 1
  /\ cred' = c
  /\ sent' = [b \in Browsers |-> {}]
  /\ UNCHANGED <<clock, jar, logins, answered>>

SessionNext ==
  \/ \E b \in Browsers :
       \/ \E c \in Creds : Login(b, c)
       \/ Logout(b)
       \/ Ask(b)
       \/ \E cookie \in sent[b] : Admit(b, cookie) \/ Redirect(b, cookie)
  \/ \E t \in Instants : Elapse(t)
  \/ \E c \in Creds : Restart(c)

SessionSpec == SessionInit /\ [][SessionNext]_sessionVars

----------------------------------------------------------------------------
\* The browser logged in as the configured user, less than TTL ago.
LoggedIn(b) == \E l \in logins : /\ l.browser = b /\ l.cred = cred
                                 /\ l.at <= clock /\ clock < l.at + TTL

\* Every request that is answered with an admin page is one of a browser that
\* logged in less than TTL ago with the very user and password the running
\* process is configured with: what it kept from before a change of either no
\* longer counts, and nothing renews a login.  (A logout is no part of it: a
\* cookie that was sent before it still counts.)
ServedToLoggedIn ==
  [][\A b \in Browsers :
       answered[b] # "page" /\ answered'[b] = "page" => LoggedIn(b)]_sessionVars
=============================================================================
