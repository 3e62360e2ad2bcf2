---------------------------- MODULE AdminProofs ----------------------------
(***************************************************************************)
(* Proofs about Session and Admin: every cookie that can still be sent is  *)
(* backed by a login, for any number of browsers, credentials and          *)
(* restarts, and reading the pages adds nothing to what a session allows;  *)
(* a chart adds up to the calls of its window, and the links of the list   *)
(* lead over every call of a reading.                                      *)
(***************************************************************************)
EXTENDS Admin, SeqRunProofs, FiniteSetTheorems

----------------------------------------------------------------------------
\* A cookie of a browser was signed at a login of that browser, with the key
\* of the user and password it gave, and expires no later than the latest
\* such login allows.
BackedIn(b, cookie, log) ==
  cookie # NoCookie =>
    \E l \in log : /\ l.browser = b
                   /\ cookie.key = Key(l.cred) /\ cookie.user = l.cred.user
                   /\ cookie.exp \in Nat /\ cookie.exp <= Unix(l.at + TTL)

LoginsInPast ==
  /\ clock \in Nat /\ cred \in Creds
  /\ logins \subseteq [browser : Browsers, cred : Creds, at : Nat]
  /\ \A l \in logins : l.at <= clock

CookiesBacked ==
  /\ jar = [b \in Browsers |-> jar[b]] /\ sent = [b \in Browsers |-> sent[b]]
  /\ answered = [b \in Browsers |-> answered[b]]
  /\ \A b \in Browsers :
       BackedIn(b, jar[b], logins) /\ \A k \in sent[b] : BackedIn(b, k, logins)

SessionInv == LoginsInPast /\ CookiesBacked

\* The seconds of a time never run backwards (time.Time.Unix).
LEMMA UnixMonotone ==
  ASSUME NEW s \in Nat, NEW t \in Nat, s <= t
  PROVE  Unix(s) <= Unix(t)
BY DEF Unix, Second

\* A later login as the same user backs at least what the earlier one did.
LEMMA LoginBacks ==
  ASSUME LoginsInPast, NEW b \in Browsers, NEW log,
         log = {l \in logins : l.browser # b \/ l.cred # cred}
                 \cup {[browser |-> b, cred |-> cred, at |-> clock]},
         NEW a \in Browsers, NEW cookie, BackedIn(a, cookie, logins)
  PROVE  BackedIn(a, cookie, log)
<1>1. SUFFICES ASSUME cookie # NoCookie
               PROVE \E l \in log : /\ l.browser = a
                                    /\ cookie.key = Key(l.cred)
                                    /\ cookie.user = l.cred.user
                                    /\ cookie.exp \in Nat
                                    /\ cookie.exp <= Unix(l.at + TTL)
  BY DEF BackedIn
<1>2. PICK l \in logins : /\ l.browser = a
                          /\ cookie.key = Key(l.cred)
                          /\ cookie.user = l.cred.user
                          /\ cookie.exp \in Nat
                          /\ cookie.exp <= Unix(l.at + TTL)
  BY <1>1 DEF BackedIn
<1>3. CASE l.browser # b \/ l.cred # cred
  BY <1>2, <1>3
<1>4. CASE l.browser = b /\ l.cred = cred
  <2> DEFINE new == [browser |-> b, cred |-> cred, at |-> clock]
  <2>1. new \in log /\ new.browser = a /\ new.cred = l.cred /\ new.at = clock
    BY <1>2, <1>4
  <2>2. l.at + TTL \in Nat /\ clock + TTL \in Nat /\ l.at + TTL <= clock + TTL
    BY SessionAssumption DEF LoginsInPast
  <2>3. /\ Unix(l.at + TTL) \in Nat /\ Unix(clock + TTL) \in Nat
        /\ Unix(l.at + TTL) <= Unix(clock + TTL)
    BY <2>2, UnixMonotone DEF Unix, Second
  <2>4. cookie.exp <= Unix(new.at + TTL)
    BY <1>2, <2>1, <2>3
  <2> HIDE DEF new
  <2> QED BY <1>2, <2>1, <2>4
<1> QED BY <1>3, <1>4

\* The invariant of the session holds at every moment of the process.
THEOREM SessionInvariant == SessionSpec => []SessionInv
<1>1. SessionInit => SessionInv
  BY SessionAssumption
  DEF SessionInit, SessionInv, LoginsInPast, CookiesBacked, BackedIn
<1>2. SessionInv /\ [SessionNext]_sessionVars => SessionInv'
  <2> SUFFICES ASSUME SessionInv, [SessionNext]_sessionVars
               PROVE  SessionInv'
    OBVIOUS
  <2> USE DEF SessionInv
  <2>1. CASE UNCHANGED sessionVars
    BY <2>1 DEF sessionVars, LoginsInPast, CookiesBacked, BackedIn
  <2>2. ASSUME NEW b \in Browsers, NEW c \in Creds, Login(b, c)
        PROVE  SessionInv'
    <3>1. LoginsInPast'
      BY <2>2 DEF Login, LoginsInPast
    <3>2. \A a \in Browsers : \A k : BackedIn(a, k, logins) => BackedIn(a, k, logins')
      BY <2>2, LoginBacks DEF Login
    <3>3. BackedIn(b, Sign(cred, clock + TTL), logins')
      <4> DEFINE new == [browser |-> b, cred |-> cred, at |-> clock]
                 made == Sign(cred, clock + TTL)
      <4>1. new \in logins' /\ new.browser = b /\ new.cred = cred /\ new.at = clock
        BY <2>2 DEF Login
      <4>2. made.key = Key(cred) /\ made.user = cred.user
            /\ made.exp = Unix(clock + TTL)
        BY DEF Sign
      <4>3. clock + TTL \in Nat /\ Unix(clock + TTL) \in Nat
        BY SessionAssumption DEF LoginsInPast, Unix, Second
      <4>4. made.exp <= Unix(new.at + TTL)
        BY <4>1, <4>2, <4>3
      <4> HIDE DEF new, made
      <4>5. BackedIn(b, made, logins')
        BY <4>1, <4>2, <4>3, <4>4 DEF BackedIn
      <4> QED BY <4>5 DEF made
    <3>4. CookiesBacked'
      BY <2>2, <3>2, <3>3 DEF Login, CookiesBacked
    <3> QED BY <3>1, <3>4
  <2>3. ASSUME NEW b \in Browsers, Logout(b)
        PROVE  SessionInv'
    BY <2>3 DEF Logout, LoginsInPast, CookiesBacked, BackedIn
  <2>4. ASSUME NEW b \in Browsers, Ask(b)
        PROVE  SessionInv'
    <3>1. LoginsInPast'
      BY <2>4 DEF Ask, LoginsInPast
    <3>2. \A k : \A a \in Browsers : BackedIn(a, k, logins) => BackedIn(a, k, logins)'
      BY <2>4 DEF Ask, BackedIn
    <3>3. \A a \in Browsers : \A k \in sent'[a] : BackedIn(a, k, logins)
      BY <2>4 DEF Ask, CookiesBacked
    <3>4. /\ jar' = jar /\ sent' = [a \in Browsers |-> sent'[a]]
          /\ answered' = [a \in Browsers |-> answered'[a]]
      BY <2>4 DEF Ask, CookiesBacked
    <3>5. CookiesBacked'
      BY <3>2, <3>3, <3>4 DEF CookiesBacked
    <3> QED BY <3>1, <3>5
  <2>5. ASSUME NEW b \in Browsers, NEW k \in sent[b], Admit(b, k) \/ Redirect(b, k)
        PROVE  SessionInv'
    BY <2>5 DEF Admit, Redirect, LoginsInPast, CookiesBacked, BackedIn
  <2>6. ASSUME NEW t \in Instants, Elapse(t)
        PROVE  SessionInv'
    BY <2>6, SessionAssumption DEF Elapse, LoginsInPast, CookiesBacked, BackedIn
  <2>7. ASSUME NEW c \in Creds, Restart(c)
        PROVE  SessionInv'
    BY <2>7 DEF Restart, LoginsInPast, CookiesBacked, BackedIn
  <2> QED BY <2>1, <2>2, <2>3, <2>4, <2>5, <2>6, <2>7 DEF SessionNext
<1> QED BY <1>1, <1>2, PTL DEF SessionSpec

\* A cookie that passes the check of requireAdmin is backed by a login that is
\* less than TTL old, as the very user this process is configured with.
LEMMA AdmittedIsLoggedIn ==
  ASSUME SessionInv, NEW b \in Browsers, NEW k \in sent[b], Verify(cred, k, clock)
  PROVE  LoggedIn(b)
<1>1. PICK l \in logins : /\ l.browser = b
                          /\ k.key = Key(l.cred) /\ k.user = l.cred.user
                          /\ k.exp \in Nat /\ k.exp <= Unix(l.at + TTL)
  BY DEF SessionInv, CookiesBacked, BackedIn, Verify
<1>2. /\ clock \in Nat /\ l.at \in Nat /\ l.at <= clock /\ TTL \in Nat
      /\ l.cred \in Creds /\ cred \in Creds
  BY SessionAssumption DEF SessionInv, LoginsInPast
<1>3. l.cred = cred
  <2>1. Key(l.cred) = Key(cred)
    BY <1>1 DEF Verify
  <2>2. l.cred.user = cred.user /\ l.cred.pass = cred.pass
    BY <2>1 DEF Key
  <2>3. /\ l.cred \in [user : STRING, pass : STRING]
        /\ cred \in [user : STRING, pass : STRING]
    BY <1>2, SessionAssumption
  <2> QED BY <2>2, <2>3
<1>4. Unix(clock) < k.exp
  BY DEF Verify
<1>5. clock < l.at + TTL
  BY <1>1, <1>2, <1>4 DEF Unix, Second
<1> QED BY <1>1, <1>2, <1>3, <1>5 DEF LoggedIn

\* For any browsers, credentials, instants and restarts, a request is only
\* answered with an admin page if its browser logged in less than TTL ago as
\* the user of the running configuration (requireAdmin, verifyAdminCookie,
\* NewServer).
THEOREM PagesNeedALogin == SessionSpec => ServedToLoggedIn
<1>1. SessionInv /\ [SessionNext]_sessionVars =>
        [\A b \in Browsers :
           answered[b] # "page" /\ answered'[b] = "page" => LoggedIn(b)]_sessionVars
  <2> SUFFICES ASSUME SessionInv, SessionNext, NEW b \in Browsers,
                      answered[b] # "page", answered'[b] = "page"
               PROVE  LoggedIn(b)
    BY DEF sessionVars
  <2>1. answered = [c \in Browsers |-> answered[c]]
    BY DEF SessionInv, CookiesBacked
  <2>2. ASSUME NEW a \in Browsers, Ask(a) PROVE FALSE
    BY <2>1, <2>2 DEF Ask
  <2>3. ASSUME NEW a \in Browsers, NEW k \in sent[a], Redirect(a, k) PROVE FALSE
    BY <2>1, <2>3 DEF Redirect
  <2>4. PICK a \in Browsers : \E k \in sent[a] : Admit(a, k)
    BY <2>2, <2>3 DEF SessionNext, Login, Logout, Elapse, Restart
  <2>5. PICK k \in sent[a] : Admit(a, k)
    BY <2>4
  <2>6. Verify(cred, k, clock) /\ a = b
    BY <2>1, <2>5 DEF Admit
  <2> QED BY <2>6, AdmittedIsLoggedIn
<1> QED BY <1>1, SessionInvariant, PTL DEF SessionSpec, ServedToLoggedIn

\* Reading the pages is a session's behaviour: what a session guarantees holds
\* of the server with its pages, its table and its restarts.
THEOREM PagesKeepTheSession == AdminSpec => SessionSpec
<1>1. AdminInit => SessionInit
  BY DEF AdminInit
<1>2. [AdminNext]_vars => [SessionNext]_sessionVars
  <2> SUFFICES ASSUME [AdminNext]_vars PROVE [SessionNext]_sessionVars
    OBVIOUS
  <2>1. CASE UNCHANGED vars
    BY <2>1 DEF vars
  <2>2. ASSUME NEW k \in sent[Reader], Open(k)
        PROVE  SessionNext
    BY <2>2, AdminAssumption DEF Open, SessionNext
  <2>3. CASE FindCalls \/ FindFails
    BY <2>3 DEF FindCalls, FindFails
  <2>4. ASSUME NEW w \in Writers,
               \/ \E m \in Models : TakeTime(w, m)
               \/ \E row \in taken[w] : Insert(w, row)
               \/ InsertFails(w)
        PROVE  UNCHANGED sessionVars
    BY <2>4 DEF TakeTime, Insert, InsertFails
  <2>5. CASE Others
    BY <2>5, AdminAssumption DEF Others, SessionNext
  <2> QED BY <2>1, <2>2, <2>3, <2>4, <2>5 DEF AdminNext
<1> QED BY <1>1, <1>2, PTL DEF AdminSpec, SessionSpec

----------------------------------------------------------------------------
\* The sizes of the buckets.
LEMMA Sizes ==
  ASSUME NEW size \in {Hour, Day, Week}
  PROVE  size = 7200 \/ size = 172800 \/ size = 1209600
BY DEF Week, Day, Hour, Minute, Second

\* Truncating an instant to a grid of any of the three sizes: no later than it.
LEMMA Truncated ==
  ASSUME NEW b, Size(b) \in {Hour, Day, Week}, NEW t, t \in Int
  PROVE  Size(b) \in Nat \ {0} /\ Truncate(t, b) \in Int /\ Truncate(t, b) <= t
<1> DEFINE size == Size(b)
<1>1. Truncate(t, b) = t - (t % size)
  BY DEF Truncate
<1>2. size = 7200 \/ size = 172800 \/ size = 1209600
  BY Sizes
<1> HIDE DEF size
<1>3. size \in Nat \ {0} /\ t - (t % size) \in Int /\ t - (t % size) <= t
  BY <1>2
<1> QED BY <1>1, <1>3 DEF size

\* A number of steps of that size lead from u to v.
StepsLead(u, v, size) == \E d \in Nat : v = u + d * size

\* The results are on the grid, in the order of the instants.
LEMMA OnGrid ==
  ASSUME NEW b, Size(b) \in {Hour, Day, Week}, NEW s, NEW t, s \in Int, t \in Int, s <= t
  PROVE  StepsLead(Truncate(s, b), Truncate(t, b), Size(b))
<1> DEFINE size == Size(b)
           d == (t \div size) - (s \div size)
<1>1. Truncate(s, b) = s - (s % size) /\ Truncate(t, b) = t - (t % size)
  BY DEF Truncate
<1>2. size = 7200 \/ size = 172800 \/ size = 1209600
  BY Sizes
<1> HIDE DEF size
<1>3. d \in Nat /\ t - (t % size) = (s - (s % size)) + d * size
  <2>1. CASE size = 7200
    BY <2>1
  <2>2. CASE size = 172800
    BY <2>2
  <2>3. CASE size = 1209600
    BY <2>3
  <2> QED BY <1>2, <2>1, <2>2, <2>3
<1> HIDE DEF d
<1>4. StepsLead(s - (s % size), t - (t % size), size)
  BY <1>3 DEF StepsLead
<1> QED BY <1>1, <1>4 DEF size

\* The buckets of a window, one after the other.
LEMMA BucketsAre ==
  ASSUME NEW f, f.from \in Int, f.to \in Int
  PROVE  LET size == Size(Bucket(f))
             first == Truncate(f.from, Bucket(f))
             starts == Buckets(f)
         IN /\ size \in {Hour, Day, Week} /\ first \in Int
            /\ starts \in Seq(Int)
            /\ \A k \in 1 .. Len(starts) : starts[k] = first + (k - 1) * size
            /\ \A d \in Nat : first + d * size < f.to => d + 1 \in 1 .. Len(starts)
<1> DEFINE size == Size(Bucket(f))
           first == Truncate(f.from, Bucket(f))
           n == (f.to - first + size - 1) \div size
           starts == Buckets(f)
<1>1. size \in {Hour, Day, Week}
  BY DEF Size, Bucket
<1>2. first \in Int /\ size \in Nat \ {0}
  BY <1>1, Truncated
<1>3. starts = [k \in 1 .. n |-> first + (k - 1) * size]
  BY DEF Buckets
<1> HIDE DEF size, first, starts
<1>5. size = 7200 \/ size = 172800 \/ size = 1209600
  BY <1>1, Sizes
<1>6. n \in Int /\ \A d \in Nat : first + d * size < f.to => d + 1 <= n
  <2> DEFINE to == f.to
  <2>1. to \in Int
    OBVIOUS
  <2> HIDE DEF to
  <2>2. (to - first + size - 1) \div size \in Int
    BY <1>2, <1>5, <2>1
  <2>3. ASSUME NEW d \in Nat, first + d * size < to
        PROVE  d + 1 <= (to - first + size - 1) \div size
    <3>1. CASE size = 7200
      BY <1>2, <2>1, <2>3, <3>1
    <3>2. CASE size = 172800
      BY <1>2, <2>1, <2>3, <3>2
    <3>3. CASE size = 1209600
      BY <1>2, <2>1, <2>3, <3>3
    <3> QED BY <1>5, <3>1, <3>2, <3>3
  <2> QED BY <2>2, <2>3 DEF to
<1>7. \A k \in 1 .. n : first + (k - 1) * size \in Int
  BY <1>2, <1>6
<1> HIDE DEF n
<1>8. /\ starts \in Seq(Int)
      /\ \A k \in 1 .. Len(starts) : starts[k] = first + (k - 1) * size
      /\ \A d \in Nat : d + 1 <= n => d + 1 \in 1 .. Len(starts)
  <2>1. CASE n >= 0
    <3>1. starts \in [1 .. n -> Int] /\ n \in Nat
      BY <1>3, <1>6, <1>7, <2>1
    <3>2. starts \in Seq(Int)
      BY <3>1, SeqDef
    <3>3. DOMAIN starts = 1 .. n /\ DOMAIN starts = 1 .. Len(starts) /\ Len(starts) \in Nat
      BY <1>3, <3>2, LenProperties
    <3>4. Len(starts) = n
      BY <3>1, <3>3
    <3>5. \A k \in 1 .. Len(starts) : starts[k] = first + (k - 1) * size
      BY <1>3, <3>4, Zenon
    <3>6. \A d \in Nat : d + 1 <= n => d + 1 \in 1 .. Len(starts)
      BY <1>6, <3>4
    <3> QED BY <3>2, <3>5, <3>6
  <2>2. CASE n < 0
    <3>1. 1 .. n = {} /\ 1 .. n = 1 .. 0
      BY <1>6, <2>2
    <3>2. starts \in [1 .. 0 -> Int]
      BY <1>3, <1>7, <3>1
    <3>3. starts \in Seq(Int)
      BY <3>2, SeqDef
    <3>4. DOMAIN starts = {} /\ DOMAIN starts = 1 .. Len(starts) /\ Len(starts) \in Nat
      BY <1>3, <3>1, <3>3, LenProperties
    <3>5. \A d \in Nat : ~(d + 1 <= n)
      BY <1>6, <2>2
    <3> QED BY <3>3, <3>4, <3>5
  <2> QED BY <1>6, <2>1, <2>2
<1> QED
  BY <1>1, <1>2, <1>6, <1>8 DEF size, first, starts

\* The hour, the day and the week of a bucket are those of every instant in it.
LEMMA LabelsAgree ==
  ASSUME NEW f, NEW t \in Int
  PROVE  BucketLabel(Truncate(t, Bucket(f)), Bucket(f)) = SQLLabel(t, Bucket(f))
<1>1. Day = 172800 /\ Hour = 7200 /\ Week = 1209600
  BY DEF Week, Day, Hour, Minute, Second
<1>2. CASE Bucket(f) = "hour"
  <2>1. Truncate(t, "hour") = t - (t % 7200)
    BY <1>1 DEF Truncate, Size
  <2>2. (t - (t % 7200)) \div 7200 = t \div 7200
    OBVIOUS
  <2> QED BY <1>1, <1>2, <2>1, <2>2 DEF BucketLabel, SQLLabel
<1>3. CASE Bucket(f) = "day"
  <2>1. Truncate(t, "day") = t - (t % 172800)
    BY <1>1 DEF Truncate, Size
  <2>2. (t - (t % 172800)) \div 172800 = t \div 172800
    OBVIOUS
  <2> QED BY <1>1, <1>3, <2>1, <2>2 DEF BucketLabel, SQLLabel
<1>4. CASE Bucket(f) = "week"
  <2> DEFINE monday == (t - (t % 1209600)) \div 172800
             day == t \div 172800
             w == t \div 1209600
  <2>1. Truncate(t, "week") = t - (t % 1209600)
    BY <1>1 DEF Truncate, Size
  <2>2. w \in Int /\ day \in Int /\ t - (t % 1209600) = 1209600 * w
    OBVIOUS
  <2>3. 1209600 * w <= t /\ t < 1209600 * w + 1209600
    OBVIOUS
  <2>4. 172800 * day <= t /\ t < 172800 * day + 172800
    OBVIOUS
  <2>5. BucketLabel(Truncate(t, "week"), "week") = ISOWeek(monday)
    BY <1>1, <2>1 DEF BucketLabel
  <2>6. SQLLabel(t, "week") = ISOWeek(day)
    BY <1>1 DEF SQLLabel
  <2> HIDE DEF w, day
  <2>7. monday = 7 * w
    BY <2>2
  <2>8. 7 * w <= day /\ day < 7 * w + 7
    BY <2>2, <2>3, <2>4
  <2> HIDE DEF monday
  <2>9. monday - (monday % 7) = 7 * w /\ day - (day % 7) = 7 * w
    BY <2>2, <2>7, <2>8
  <2>10. ISOWeek(monday) = ISOWeek(day)
    BY <2>9 DEF ISOWeek
  <2> QED BY <1>4, <2>5, <2>6, <2>10
<1> QED BY <1>2, <1>3, <1>4 DEF Bucket

\* Thursdays of one year of which the same number have been are one.
LEMMA OneThursday ==
  ASSUME NEW v \in Int, NEW w \in Int,
         ISOWeek(7 * v) = ISOWeek(7 * w)
  PROVE  v = w
<1> DEFINE a == 7 * v + 3
           b == 7 * w + 3
           year == a \div 365
           rest == a % 365
           year2 == b \div 365
           rest2 == b % 365
<1>1. a \in Int /\ b \in Int /\ (7 * v) % 7 = 0 /\ (7 * w) % 7 = 0
  OBVIOUS
<1>2. ISOWeek(7 * v) = <<year, rest \div 7>> /\ ISOWeek(7 * w) = <<year2, rest2 \div 7>>
  BY <1>1 DEF ISOWeek, Year
<1>3. year = year2 /\ rest \div 7 = rest2 \div 7
  BY <1>2
<1>4. a = 365 * year + rest /\ b = 365 * year2 + rest2 /\ rest \in Nat /\ rest2 \in Nat
      /\ year \in Int /\ year2 \in Int
  BY <1>1
<1> HIDE DEF year, year2, rest, rest2
<1>5. rest - rest2 < 7 /\ rest2 - rest < 7
  BY <1>3, <1>4
<1>6. 7 * v - 7 * w = rest - rest2
  BY <1>3, <1>4
<1> QED BY <1>4, <1>5, <1>6

\* Two buckets have two labels.
LEMMA LabelsDiffer ==
  ASSUME NEW f, NEW s \in Int, NEW t \in Int,
         Truncate(s, Bucket(f)) = s, Truncate(t, Bucket(f)) = t,
         BucketLabel(s, Bucket(f)) = BucketLabel(t, Bucket(f))
  PROVE  s = t
<1>1. Day = 172800 /\ Hour = 7200 /\ Week = 1209600
  BY DEF Week, Day, Hour, Minute, Second
<1>2. CASE Bucket(f) = "hour"
  <2>1. Truncate(s, "hour") = s - (s % 7200) /\ Truncate(t, "hour") = t - (t % 7200)
    BY <1>1 DEF Truncate, Size
  <2>2. s = 7200 * (s \div 7200) /\ t = 7200 * (t \div 7200)
    BY <1>2, <2>1
  <2>3. s \div 7200 = t \div 7200
    BY <1>1, <1>2 DEF BucketLabel
  <2> QED BY <2>2, <2>3
<1>3. CASE Bucket(f) = "day"
  <2>1. Truncate(s, "day") = s - (s % 172800) /\ Truncate(t, "day") = t - (t % 172800)
    BY <1>1 DEF Truncate, Size
  <2>2. s = 172800 * (s \div 172800) /\ t = 172800 * (t \div 172800)
    BY <1>3, <2>1
  <2>3. s \div 172800 = t \div 172800
    BY <1>1, <1>3 DEF BucketLabel
  <2> QED BY <2>2, <2>3
<1>4. CASE Bucket(f) = "week"
  <2> DEFINE v == s \div 1209600
             w == t \div 1209600
  <2>1. Truncate(s, "week") = s - (s % 1209600) /\ Truncate(t, "week") = t - (t % 1209600)
    BY <1>1 DEF Truncate, Size
  <2>2. s = 1209600 * v /\ t = 1209600 * w /\ v \in Int /\ w \in Int
    BY <1>4, <2>1
  <2>3. ISOWeek(s \div 172800) = ISOWeek(t \div 172800)
    BY <1>1, <1>4 DEF BucketLabel
  <2> HIDE DEF v, w
  <2>4. s \div 172800 = 7 * v /\ t \div 172800 = 7 * w
    BY <2>2
  <2>5. v = w
    BY <2>2, <2>3, <2>4, OneThursday
  <2> QED BY <2>2, <2>5
<1> QED BY <1>2, <1>3, <1>4 DEF Bucket

\* The start of a bucket, d buckets after the one t is in.
Nth(t, d, b) == Truncate(t, b) + d * Size(b)

\* What begins a bucket is truncated to itself.
LEMMA StartsAreTruncated ==
  ASSUME NEW b, Size(b) \in {Hour, Day, Week}, NEW t \in Int, NEW d \in Int
  PROVE  Nth(t, d, b) \in Int /\ Truncate(Nth(t, d, b), b) = Nth(t, d, b)
<1> DEFINE size == Size(b)
           q == t \div size
           start == Nth(t, d, b)
<1>1. /\ Truncate(t, b) = t - (t % size) /\ Truncate(start, b) = start - (start % size)
      /\ start = Truncate(t, b) + d * size
  BY DEF Truncate, Nth
<1>2. size = 7200 \/ size = 172800 \/ size = 1209600
  BY Sizes
<1> HIDE DEF size
<1>3. \A u \in Int : u - (u % size) = (u \div size) * size /\ u \div size \in Int
  BY <1>2
<1>4. q \in Int /\ start = q * size + d * size
  BY <1>1, <1>3
<1>5. \A k \in Int : (k * size) % size = 0 /\ k * size \in Int
  <2>1. CASE size = 7200
    BY <2>1
  <2>2. CASE size = 172800
    BY <2>2
  <2>3. CASE size = 1209600
    BY <2>3
  <2> QED BY <1>2, <2>1, <2>2, <2>3
<1> HIDE DEF q, start
<1>6. q + d \in Int /\ start = (q + d) * size
  <2>1. CASE size = 7200
    BY <1>4, <2>1
  <2>2. CASE size = 172800
    BY <1>4, <2>2
  <2>3. CASE size = 1209600
    BY <1>4, <2>3
  <2> QED BY <1>2, <2>1, <2>2, <2>3
<1>7. start \in Int /\ start % size = 0
  BY <1>5, <1>6
<1> QED BY <1>1, <1>7 DEF size, start

\* What is truncated already stays as it is.
LEMMA TruncatedTwice ==
  ASSUME NEW b, Size(b) \in {Hour, Day, Week}, NEW t \in Int
  PROVE  Truncate(t, b) \in Int /\ Truncate(Truncate(t, b), b) = Truncate(t, b)
<1>1. Truncate(t, b) \in Int /\ Size(b) \in Int
  BY Truncated
<1>2. Nth(t, 0, b) = Truncate(t, b)
  BY <1>1 DEF Nth
<1>3. Truncate(Nth(t, 0, b), b) = Nth(t, 0, b)
  <2>1. 0 \in Int
    OBVIOUS
  <2> QED BY <2>1, StartsAreTruncated
<1> QED BY <1>1, <1>2, <1>3

\* The bucket a call is truncated to is one of the chart.
LEMMA CallsAreInBuckets ==
  ASSUME NEW f, Bounded(f), f.from \in Int, f.to \in Int,
         NEW i \in Selected(f), calls[i].at \in Int
  PROVE  \E k \in 1 .. Len(Buckets(f)) :
           Buckets(f)[k] = Truncate(calls[i].at, Bucket(f))
<1>1. PICK bucket : bucket = Bucket(f)
  OBVIOUS
<1>2. PICK from : from = f.from
  OBVIOUS
<1>3. PICK at : at = calls[i].at
  OBVIOUS
<1>4. PICK starts : starts = Buckets(f)
  OBVIOUS
<1>5. from <= at /\ at < f.to /\ from \in Int /\ at \in Int
  BY <1>2, <1>3 DEF Selected
<1>6. /\ Size(bucket) \in {Hour, Day, Week} /\ Truncate(from, bucket) \in Int
      /\ \A k \in 1 .. Len(starts) : starts[k] = Truncate(from, bucket) + (k - 1) * Size(bucket)
      /\ \A e \in Nat : Truncate(from, bucket) + e * Size(bucket) < f.to
                          => e + 1 \in 1 .. Len(starts)
  BY <1>1, <1>2, <1>4, BucketsAre
<1>7. Truncate(at, bucket) \in Int /\ Truncate(at, bucket) <= at
  BY <1>5, <1>6, Truncated
<1>8. StepsLead(Truncate(from, bucket), Truncate(at, bucket), Size(bucket))
  <2>1. Size(bucket) \in {Hour, Day, Week}
    BY <1>6
  <2>2. from \in Int /\ at \in Int /\ from <= at
    BY <1>5
  <2>3. StepsLead(Truncate(from, bucket), Truncate(at, bucket), Size(bucket))
    BY ONLY <2>1, <2>2, OnGrid, SMT
  <2> QED BY <2>3
<1>9. PICK d \in Nat : Truncate(at, bucket) = Truncate(from, bucket) + d * Size(bucket)
  BY <1>8 DEF StepsLead
<1>10. Truncate(at, bucket) < f.to
  BY <1>5, <1>7
<1>11. d + 1 \in 1 .. Len(starts)
  BY <1>6, <1>9, <1>10
<1>12. (d + 1) - 1 = d
  OBVIOUS
<1>13. starts[d + 1] = Truncate(at, bucket)
  BY <1>6, <1>9, <1>11, <1>12
<1> QED BY <1>1, <1>3, <1>4, <1>11, <1>13

\* Whatever the window and its ends, the chart has a bar for every call the
\* window selects, with the very label the database counts the call under
\* (fillUsageBuckets, truncateToBucket, bucketLabel, DATE_FORMAT).
THEOREM EveryCallHasItsBar ==
  ASSUME NEW f, Bounded(f), f.from \in Int, f.to \in Int,
         NEW i \in Selected(f), calls[i].at \in Int
  PROVE  \E k \in 1 .. Len(Buckets(f)) :
           BucketLabel(Buckets(f)[k], Bucket(f)) = SQLLabel(calls[i].at, Bucket(f))
<1>1. PICK k \in 1 .. Len(Buckets(f)) : Buckets(f)[k] = Truncate(calls[i].at, Bucket(f))
  BY CallsAreInBuckets
<1>2. BucketLabel(Truncate(calls[i].at, Bucket(f)), Bucket(f)) = SQLLabel(calls[i].at, Bucket(f))
  BY LabelsAgree
<1> QED BY <1>1, <1>2

----------------------------------------------------------------------------
\* The bars of buckets that begin at starts, over calls i in bucket of[i], and
\* the calls that are in one of them.
Heights(of, starts) ==
  [k \in 1 .. Len(starts) |-> Cardinality({i \in DOMAIN of : of[i] = starts[k]})]
InABucket(of, starts) ==
  {i \in DOMAIN of : \E k \in 1 .. Len(starts) : of[i] = starts[k]}

DifferentStarts(starts) ==
  \A j, k \in 1 .. Len(starts) : starts[j] = starts[k] => j = k

\* totals.Calls over the bars, bucket after bucket, counts each call once.
LEMMA BarsAddUp ==
  ASSUME NEW C, IsFiniteSet(C), NEW of \in [C -> Int]
  PROVE  \A starts \in Seq(Int) :
           /\ Heights(of, starts) \in Seq(Nat)
           /\ DifferentStarts(starts) =>
                Run(AddUp, 0, Heights(of, starts)) = Cardinality(InABucket(of, starts))
<1> DEFINE zero == 0
           Good(starts) ==
             /\ Heights(of, starts) \in Seq(Nat)
             /\ DifferentStarts(starts) =>
                  Run(AddUp, zero, Heights(of, starts)) = Cardinality(InABucket(of, starts))
           S == {starts \in Seq(Int) : Good(starts)}
<1>1. AddUp \in Steps(Nat, Nat) /\ zero \in Nat
  BY DEF AddUp, Steps
<1>2. \A x \in Nat, y \in Nat : AddUp[<<x, y>>] = x + y
  BY DEF AddUp
<1>3. \A T : T \subseteq C => IsFiniteSet(T) /\ Cardinality(T) \in Nat
  BY FS_Subset, FS_CardinalityType
<1>z. zero = 0
  OBVIOUS
<1> HIDE DEF zero
<1>4. <<>> \in S
  <2> DEFINE none == <<>>
  <2>1. none \in Seq(Int) /\ Len(none) = 0
    BY EmptySeq
  <2>2. Heights(of, none) = <<>>
    BY <2>1 DEF Heights
  <2>3. InABucket(of, none) = {}
    BY <2>1 DEF InABucket
  <2>4. Run(AddUp, zero, <<>>) = zero
    BY <1>1, RunEmpty
  <2>5. Heights(of, none) \in Seq(Nat)
    BY <2>2, EmptySeq
  <2>6. Good(none)
    BY <1>z, <2>2, <2>3, <2>4, <2>5, FS_EmptySet
  <2> QED BY <2>1, <2>6
<1>5. ASSUME NEW starts \in Seq(Int), NEW t \in Int, starts \in S
      PROVE  Append(starts, t) \in S
  <2> DEFINE more == Append(starts, t)
             heights == Heights(of, starts)
             these == {i \in C : of[i] = t}
             height == Cardinality(these)
             before == InABucket(of, starts)
  <2>1. /\ more \in Seq(Int) /\ Len(more) = Len(starts) + 1 /\ Len(starts) \in Nat
        /\ \A k \in 1 .. Len(starts) : more[k] = starts[k]
        /\ more[Len(starts) + 1] = t
    BY AppendProperties, LenProperties
  <2>2. heights \in Seq(Nat) /\ Len(heights) = Len(starts)
    <3>1. heights \in Seq(Nat)
      BY <1>5
    <3>2. DOMAIN heights = 1 .. Len(starts) /\ DOMAIN heights = 1 .. Len(heights)
          /\ Len(heights) \in Nat
      BY <3>1, LenProperties DEF Heights
    <3> QED BY <2>1, <3>1, <3>2
  <2>3. these \subseteq C /\ before \subseteq C /\ DOMAIN of = C
    BY DEF InABucket
  <2>4. height \in Nat
    BY <1>3, <2>3
  <2> HIDE DEF more
  <2>5. Heights(of, more) = Append(heights, height)
    <3> DEFINE taller == Append(heights, height)
    <3>1. /\ taller \in Seq(Nat) /\ Len(taller) = Len(heights) + 1
          /\ \A k \in 1 .. Len(heights) : taller[k] = heights[k]
          /\ taller[Len(heights) + 1] = height
      BY <2>2, <2>4, AppendProperties
    <3>2. DOMAIN taller = 1 .. Len(taller)
      BY <3>1, LenProperties
    <3> DEFINE of2 == Heights(of, more)
    <3>3. of2 = [k \in 1 .. Len(more) |-> Cardinality({i \in C : of[i] = more[k]})]
      BY <2>3 DEF Heights
    <3>4. \A k \in 1 .. Len(starts) : heights[k] = Cardinality({i \in C : of[i] = starts[k]})
      BY <2>3 DEF Heights
    <3> HIDE DEF of2, taller, heights, height
    <3>5. ASSUME NEW k \in 1 .. Len(more) PROVE of2[k] = taller[k]
      <4>1. of2[k] = Cardinality({i \in C : of[i] = more[k]})
        BY <3>3
      <4>2. CASE k \in 1 .. Len(starts)
        BY <2>1, <2>2, <3>1, <3>4, <4>1, <4>2
      <4>3. CASE k = Len(starts) + 1
        BY <2>1, <2>2, <3>1, <4>1, <4>3 DEF height
      <4> QED BY <2>1, <4>2, <4>3
    <3>6. DOMAIN of2 = 1 .. Len(more) /\ DOMAIN taller = 1 .. Len(more)
      BY <2>1, <2>2, <3>1, <3>2, <3>3
    <3>7. of2 = [k \in DOMAIN of2 |-> of2[k]] /\ taller = [k \in DOMAIN taller |-> taller[k]]
      <4>1. taller \in [1 .. Len(taller) -> Nat]
        BY <3>1, LenProperties
      <4> QED BY <3>3, <4>1
    <3>8. of2 = taller
      BY <3>5, <3>6, <3>7
    <3> QED BY <3>8 DEF of2, taller
  <2>6. Heights(of, more) \in Seq(Nat)
    BY <2>2, <2>4, <2>5, AppendProperties
  <2>7. ASSUME DifferentStarts(more)
        PROVE  Run(AddUp, zero, Heights(of, more)) = Cardinality(InABucket(of, more))
    <3>1. \A k \in 1 .. Len(starts) : k \in 1 .. Len(more) /\ k # Len(starts) + 1
          /\ Len(starts) + 1 \in 1 .. Len(more)
      BY <2>1
    <3>2. Len(starts) + 1 \in 1 .. Len(more)
      BY <2>1
    <3>3. DifferentStarts(starts) /\ \A k \in 1 .. Len(starts) : starts[k] # t
      BY <2>1, <2>7, <3>1, <3>2 DEF DifferentStarts
    <3>4. Run(AddUp, zero, heights) = Cardinality(before)
      BY <1>5, <3>3
    <3>5. InABucket(of, more) = before \cup these
      <4>1. \A k \in 1 .. Len(more) : k \in 1 .. Len(starts) \/ k = Len(starts) + 1
        BY <2>1
      <4> QED BY <2>1, <2>3, <3>1, <3>2, <4>1 DEF InABucket
    <3>6. before \cap these = {}
      BY <2>3, <3>3 DEF InABucket
    <3> HIDE DEF before, these, height, heights
    <3>7. Run(AddUp, zero, heights) \in Nat
      BY <1>1, <2>2, RunInDomain
    <3>8. Run(AddUp, zero, Append(heights, height)) = AddUp[<<Run(AddUp, zero, heights), height>>]
      <4> DEFINE N == Nat
      <4>1. AddUp \in Steps(N, N) /\ zero \in N /\ heights \in Seq(N) /\ height \in N
        BY <1>1, <2>2, <2>4
      <4> HIDE DEF N
      <4> QED BY <4>1, RunAppend
    <3>9. Cardinality(before \cup these) = Cardinality(before) + Cardinality(these)
      <4>1. IsFiniteSet(before) /\ IsFiniteSet(these)
            /\ Cardinality(before) \in Nat /\ Cardinality(these) \in Nat
        BY <1>3, <2>3
      <4>2. Cardinality(before \cup these) =
              Cardinality(before) + Cardinality(these) - Cardinality(before \cap these)
        BY <4>1, FS_Union
      <4>3. Cardinality(before \cap these) = 0
        BY <3>6, FS_EmptySet
      <4> QED BY <4>1, <4>2, <4>3
    <3>10. Run(AddUp, zero, Append(heights, height)) = Cardinality(before) + height
      BY <1>2, <2>4, <3>4, <3>7, <3>8
    <3> QED BY <2>5, <3>5, <3>9, <3>10 DEF height
  <2>8. Good(more)
    BY <2>6, <2>7
  <2> QED BY <2>1, <2>8 DEF more
<1> HIDE DEF S, Good
<1>6. Seq(Int) \subseteq S
  BY <1>4, <1>5, SeqsAreReached
<1> QED
  BY <1>6 DEF S, Good, zero

----------------------------------------------------------------------------
\* The table, and the rows on their way to it.
TableInv ==
  /\ clock \in Nat /\ calls \in Seq(Call)
  /\ taken = [w \in Writers |-> taken[w]]
  /\ \A w \in Writers : taken[w] \subseteq Call

\* Every row has a time.
LEMMA TimesOfCalls ==
  ASSUME TableInv
  PROVE  \A i \in 1 .. Len(calls) : calls[i].at \in Nat
<1> SUFFICES ASSUME NEW i \in 1 .. Len(calls) PROVE calls[i].at \in Nat
  OBVIOUS
<1>1. calls[i] \in Call
  BY ElementOfSeq DEF TableInv
<1> QED BY <1>1 DEF Call

\* Record is the only one that writes llm_calls.
LEMMA OnlyInsertWrites ==
  [AdminNext]_vars =>
    \/ \E w \in Writers : \E row \in taken[w] : Insert(w, row)
    \/ UNCHANGED calls
BY DEF AdminNext, Open, CountCalls, ShowUsage, QueryFails, FindCalls, FindFails,
       TakeTime, InsertFails, Others, vars

\* Time goes on, or stands still.
LEMMA ClockGoesOn ==
  TableInv /\ [AdminNext]_vars => clock' \in Nat /\ clock <= clock'
<1> SUFFICES ASSUME TableInv, [AdminNext]_vars PROVE clock' \in Nat /\ clock <= clock'
  OBVIOUS
<1>1. clock' = clock \/ \E t \in Instants : Elapse(t)
  BY DEF AdminNext, Open, FindCalls, FindFails, TakeTime, Insert, InsertFails, Others,
         vars, sessionVars,
         Admit, Redirect, Login, Logout, Ask, Restart
<1> QED BY <1>1, SessionAssumption DEF TableInv, Elapse

\* A writer's row was there before, or has the time of this moment.
LEMMA TakenIs ==
  ASSUME [AdminNext]_vars, taken = [w \in Writers |-> taken[w]], NEW w \in Writers, NEW row \in taken'[w]
  PROVE  row \in taken[w] \/ \E m \in Models : row = [at |-> clock, model |-> m]
BY DEF AdminNext, Open, CountCalls, ShowUsage, QueryFails, FindCalls, FindFails,
       TakeTime, Insert, InsertFails, Others, vars

\* The rows keep their form, on their way and in the table.
LEMMA TableStep == TableInv /\ [AdminNext]_vars => TableInv'
<1> SUFFICES ASSUME TableInv, [AdminNext]_vars PROVE TableInv'
  OBVIOUS
<1>1. clock' \in Nat /\ clock \in Nat
  BY ClockGoesOn DEF TableInv
<1>2. calls' \in Seq(Call)
  <2>1. ASSUME NEW w \in Writers, NEW row \in taken[w], Insert(w, row)
        PROVE  calls' \in Seq(Call)
    <3>1. row \in Call /\ calls' = Append(calls, row)
      BY <2>1 DEF Insert, TableInv
    <3> QED BY <3>1, AppendProperties DEF TableInv
  <2> QED BY <2>1, OnlyInsertWrites DEF TableInv
<1>3. taken' = [w \in Writers |-> taken'[w]]
  BY DEF TableInv, AdminNext, Open, CountCalls, ShowUsage, QueryFails, FindCalls, FindFails,
         TakeTime, Insert, InsertFails, Others, vars
<1>4. ASSUME NEW w \in Writers, NEW row \in taken'[w]
      PROVE  row \in Call
  <2>1. CASE row \in taken[w]
    BY <2>1 DEF TableInv
  <2>2. CASE \E m \in Models : row = [at |-> clock, model |-> m]
    BY <1>1, <2>2, AdminAssumption DEF Call
  <2> QED BY <1>4, <2>1, <2>2, TakenIs DEF TableInv
<1> QED BY <1>1, <1>2, <1>3, <1>4 DEF TableInv

\* The table a process starts with was filled the same way.
LEMMA TableInit == AdminInit => TableInv
<1> SUFFICES ASSUME AdminInit PROVE TableInv
  OBVIOUS
<1>1. clock = Start /\ Start \in Nat /\ calls \in Histories
  BY SessionAssumption DEF AdminInit, SessionInit
<1>2. calls \in Seq(Call) /\ taken = [w \in Writers |-> {}]
  BY <1>1, AdminAssumption DEF AdminInit
<1> QED BY <1>1, <1>2 DEF TableInv

\* A filter selects some of the rows.
LEMMA SelectedRows ==
  ASSUME TableInv, NEW f
  PROVE  /\ DOMAIN calls = 1 .. Len(calls) /\ Len(calls) \in Nat
         /\ Selected(f) \subseteq 1 .. Len(calls)
         /\ IsFiniteSet(Selected(f)) /\ Cardinality(Selected(f)) \in Nat
         /\ \A i \in 1 .. Len(calls) : calls[i].at \in Nat
<1>1. DOMAIN calls = 1 .. Len(calls) /\ Len(calls) \in Nat
  BY LenProperties DEF TableInv
<1>2. Selected(f) \subseteq 1 .. Len(calls)
  BY <1>1 DEF Selected
<1>3. IsFiniteSet(1 .. Len(calls))
  BY <1>1, FS_Interval
<1>4. IsFiniteSet(Selected(f)) /\ Cardinality(Selected(f)) \in Nat
  BY <1>2, <1>3, FS_Subset, FS_CardinalityType
<1>5. \A i \in 1 .. Len(calls) : calls[i].at \in Nat
  BY TimesOfCalls
<1> QED BY <1>1, <1>2, <1>4, <1>5

----------------------------------------------------------------------------
\* The chart of a window, added up.
LEMMA ChartTotal ==
  ASSUME TableInv, NEW f, Bounded(f), f.from \in Int, f.to \in Int
  PROVE  Run(AddUp, 0, Bars(f)) = Cardinality(Selected(f))
<1> DEFINE C == Selected(f)
           bucket(i) == Truncate(calls[i].at, Bucket(f))
           of == [i \in C |-> bucket(i)]
           starts == Buckets(f)
           size == Size(Bucket(f))
           first == Truncate(f.from, Bucket(f))
<1>1. IsFiniteSet(C) /\ \A i \in C : calls[i].at \in Int
  BY SelectedRows
<1>2. /\ size \in {Hour, Day, Week} /\ first \in Int /\ starts \in Seq(Int)
      /\ \A k \in 1 .. Len(starts) : starts[k] = first + (k - 1) * size
  BY BucketsAre
<1>3. \A i \in C : bucket(i) \in Int
  <2> SUFFICES ASSUME NEW i \in C PROVE bucket(i) \in Int
    OBVIOUS
  <2> QED BY <1>1, <1>2, Truncated
<1>4. of \in [C -> Int]
  BY <1>3
<1>5. Bars(f) = Heights(of, starts)
  <2> DEFINE b == Bucket(f)
             label(i) == SQLLabel(calls[i].at, b)
             these(l) == {i \in C : label(i) = l}
             series == Series(f)
             height(l) == IF l \in DOMAIN series THEN series[l] ELSE 0
  <2>1. DOMAIN starts = 1 .. Len(starts)
    BY <1>2, LenProperties
  <2>2. series = [l \in {label(i) : i \in C} |-> Cardinality(these(l))]
    BY DEF Series
  <2>3. \A l : l \notin {label(i) : i \in C} => these(l) = {}
    OBVIOUS
  <2>4. Bars(f) = [k \in 1 .. Len(starts) |-> height(BucketLabel(starts[k], b))]
    BY <2>1 DEF Bars
  <2>5. ASSUME NEW k \in 1 .. Len(starts)
        PROVE  these(BucketLabel(starts[k], b)) = {i \in DOMAIN of : of[i] = starts[k]}
    <3>1. starts[k] \in Int /\ Truncate(starts[k], b) = starts[k]
      <4>1. starts[k] = Nth(f.from, k - 1, b) /\ k - 1 \in Int
        BY <1>2 DEF Nth
      <4>2. Size(b) \in {Hour, Day, Week}
        BY <1>2
      <4> QED BY <4>1, <4>2, StartsAreTruncated
    <3>2. ASSUME NEW i \in C
          PROVE  label(i) = BucketLabel(starts[k], b) <=> of[i] = starts[k]
      <4>1. PICK t : t = bucket(i)
        OBVIOUS
      <4>2. t \in Int /\ Truncate(t, b) = t
        <5>1. PICK a, g : a = calls[i].at /\ g = b
          OBVIOUS
        <5>2. Size(g) \in {Hour, Day, Week} /\ a \in Int /\ t = Truncate(a, g)
          BY <1>1, <1>2, <4>1, <5>1
        <5>3. t \in Int /\ Truncate(t, g) = t
          BY ONLY <5>2, TruncatedTwice
        <5> QED BY <5>1, <5>3
      <4>3. BucketLabel(t, b) = label(i)
        BY <1>1, <4>1, LabelsAgree
      <4>4. of[i] = t
        BY <4>1
      <4>5. BucketLabel(t, b) = BucketLabel(starts[k], b) => t = starts[k]
        BY <3>1, <4>2, LabelsDiffer
      <4> QED BY <4>3, <4>4, <4>5
    <3> QED BY <3>2
  <2> HIDE DEF series, these, label, of, starts, b
  <2>6. \A l : height(l) = Cardinality(these(l))
    BY <2>2, <2>3, FS_EmptySet
  <2>7. Heights(of, starts) = [k \in 1 .. Len(starts) |->
                                 Cardinality(these(BucketLabel(starts[k], b)))]
    BY <2>5 DEF Heights
  <2> QED BY <2>4, <2>6, <2>7
<1>6. DifferentStarts(starts)
  <2>1. size = 7200 \/ size = 172800 \/ size = 1209600
    BY <1>2 DEF Week, Day, Hour, Minute, Second
  <2> HIDE DEF size, first, starts
  <2> SUFFICES ASSUME NEW j \in 1 .. Len(starts), NEW k \in 1 .. Len(starts),
                      starts[j] = starts[k]
               PROVE  j = k
    BY DEF DifferentStarts
  <2>2. first + (j - 1) * size = first + (k - 1) * size /\ j \in Int /\ k \in Int
    BY <1>2
  <2>3. CASE size = 7200
    BY <1>2, <2>2, <2>3
  <2>4. CASE size = 172800
    BY <1>2, <2>2, <2>4
  <2>5. CASE size = 1209600
    BY <1>2, <2>2, <2>5
  <2> QED BY <2>1, <2>3, <2>4, <2>5
<1>7. InABucket(of, starts) = C
  <2>1. \A i \in C : \E k \in 1 .. Len(starts) : starts[k] = bucket(i)
    BY <1>1, CallsAreInBuckets
  <2> HIDE DEF C, bucket, starts
  <2> QED BY <2>1 DEF InABucket
<1> HIDE DEF of, starts, C
<1> QED BY <1>1, <1>2, <1>4, <1>5, <1>6, <1>7, BarsAddUp DEF C

\* The usage page always has a window.
LEMMA UsageIsBounded ==
  ASSUME NEW url \in URL, NEW now \in Nat
  PROVE  LET f == ParseFilter(url, now, "usage")
         IN Bounded(f) /\ f.from \in Int /\ f.to \in Int
<1> DEFINE range == RangeOf(url, "usage")
           f == ParseFilter(url, now, "usage")
<1>1. \/ range \in Presets
      \/ range = "custom" /\ CustomFits(url, "usage")
  BY DEF RangeOf, Default, Presets
<1>2. CASE range \in Presets
  <2>1. Span(range) \in Int
    BY <1>2 DEF Presets, Span, Week, Day, Hour, Minute, Second
  <2>2. f = Filter(range, now - Span(range), now, url.model)
    BY <1>2 DEF ParseFilter, Presets
  <2> QED BY <1>2, <2>1, <2>2 DEF Filter, Bounded, Presets
<1>3. CASE range = "custom" /\ CustomFits(url, "usage")
  <2>1. url.from \in Int /\ url.to \in Int
    BY <1>3 DEF CustomFits, URL, Time
  <2>2. range # "all" /\ range \notin Presets
    BY <1>3 DEF Presets
  <2>3. f = Filter(range, url.from, url.to, url.model)
    BY <1>3, <2>2 DEF ParseFilter
  <2> QED BY <1>3, <2>1, <2>3 DEF Filter, Bounded
<1> QED BY <1>1, <1>2, <1>3

----------------------------------------------------------------------------
\* What the pages are made of.
LEMMA PageFields ==
  /\ NoPage.at = "none"
  /\ \A f, num, total, inserts :
       LET p == Counted(f, num, total, inserts)
       IN /\ p.at = "counted" /\ p.filter = f /\ p.num = num /\ p.total = total
          /\ p.inserts = inserts
  /\ \A f, inserts, next :
       LET p == List(f, inserts, next)
       IN p.at = "list" /\ p.filter = f /\ p.inserts = inserts /\ p.next = next
  /\ \A total, due :
       LET p == Chart(total, due)
       IN p.at = "chart" /\ p.total = total /\ p.due = due
BY DEF NoPage, Counted, List, Chart

\* For windows of any length and calls at any times, the total of a chart is
\* the number of calls of its window (queryUsageSeries, fillUsageBuckets, the
\* loop of handleAdminUsage): no call is between two buckets or in none.
THEOREM ChartsAddUp == AdminSpec => []ChartAddsUp
<1>1. AdminInit => ChartAddsUp
  BY PageFields DEF AdminInit, ChartAddsUp
<1>2. TableInv /\ ChartAddsUp /\ [AdminNext]_vars => ChartAddsUp'
  <2> SUFFICES ASSUME TableInv, ChartAddsUp, [AdminNext]_vars PROVE ChartAddsUp'
    OBVIOUS
  <2>1. ASSUME NEW url \in Queries, ShowUsage(url) PROVE ChartAddsUp'
    <3> DEFINE f == ParseFilter(url, clock, "usage")
    <3>1. Bounded(f) /\ f.from \in Int /\ f.to \in Int
      BY UsageIsBounded, AdminAssumption DEF TableInv
    <3>2. page' = Chart(Run(AddUp, 0, Bars(f)), Selected(f))
      BY <2>1 DEF ShowUsage
    <3> HIDE DEF f
    <3>3. Run(AddUp, 0, Bars(f)) = Cardinality(Selected(f))
      BY <3>1, ChartTotal
    <3> QED BY <3>2, <3>3, PageFields DEF ChartAddsUp
  <2>2. ASSUME NEW url, NEW next, CountCalls(url, next) PROVE ChartAddsUp'
    BY <2>2, PageFields DEF CountCalls, ChartAddsUp
  <2>3. CASE QueryFails
    BY <2>3, PageFields DEF QueryFails, ChartAddsUp
  <2>4. CASE FindCalls
    BY <2>4, PageFields DEF FindCalls, ChartAddsUp
  <2>5. ASSUME NEW w \in Writers, NEW row \in taken[w], Insert(w, row) PROVE ChartAddsUp'
    BY <2>5, PageFields DEF Insert, ChartAddsUp
  <2>6. CASE UNCHANGED page
    BY <2>6 DEF ChartAddsUp
  <2> QED BY <2>1, <2>2, <2>3, <2>4, <2>5, <2>6
          DEF AdminNext, Open, FindFails, TakeTime, InsertFails, Others, vars
<1> QED
  BY <1>1, <1>2, TableInit, TableStep, PTL DEF AdminSpec

----------------------------------------------------------------------------
\* Of a set of numbers, those with fewer than m above them are m, or all.
LEMMA RanksAreCounted ==
  ASSUME NEW N \in Nat, NEW ids \in SUBSET (1 .. N), NEW m \in Nat
  PROVE  Cardinality({i \in ids : Rank(ids, i) < m})
           = IF m <= Cardinality(ids) THEN m ELSE Cardinality(ids)
<1> DEFINE top(n) == {i \in ids : i > N - n}
           first(n) == {i \in top(n) : Rank(ids, i) < m}
           Right(n) == Cardinality(first(n)) =
                         IF m <= Cardinality(top(n)) THEN m ELSE Cardinality(top(n))
           S == {n \in Nat : Right(n)}
<1>1. \A T : T \subseteq ids => IsFiniteSet(T) /\ Cardinality(T) \in Nat
  <2>1. IsFiniteSet(1 .. N)
    BY FS_Interval
  <2>2. \A T : T \subseteq ids => T \in SUBSET (1 .. N)
    OBVIOUS
  <2> QED BY <2>1, <2>2, FS_Subset, FS_CardinalityType
<1>e. \A i \in ids : i \in Int /\ 1 <= i /\ i <= N
  OBVIOUS
<1>2. 0 \in S
  <2>0. \A i \in ids : ~(i > N - 0)
    BY <1>e
  <2>1. top(0) = {}
    BY <2>0
  <2>2. first(0) = {}
    BY <2>1
  <2>3. Right(0)
    BY <2>1, <2>2, FS_EmptySet
  <2> QED BY <2>3
<1>3. ASSUME NEW n \in Nat, n \in S PROVE n + 1 \in S
  <2> DEFINE e == N - n
  <2>1. CASE e \notin ids
    <3>1. \A i \in ids : i > N - (n + 1) <=> i > N - n
      BY <1>e, <2>1
    <3>2. top(n + 1) = top(n)
      BY <3>1
    <3>3. Right(n)
      BY <1>3
    <3>4. first(n + 1) = first(n)
      BY <3>2
    <3>5. Right(n + 1)
      BY <3>2, <3>3, <3>4
    <3> QED BY <3>5
  <2>2. CASE e \in ids
    <3>0. \A i \in ids : i > N - (n + 1) <=> i > N - n \/ i = e
      BY <1>e, <2>2
    <3>1. top(n + 1) = top(n) \cup {e} /\ e \notin top(n)
      <4>1. ~(e > N - n)
        OBVIOUS
      <4> HIDE DEF e
      <4>2. e \in ids /\ e \notin top(n)
        BY <2>2, <4>1
      <4>3. \A i : i \in top(n + 1) <=> i \in top(n) \/ i = e
        BY <3>0, <4>2
      <4> HIDE DEF top
      <4> QED BY <4>2, <4>3
    <3>2. Rank(ids, e) = Cardinality(top(n))
      BY DEF Rank
    <3>3. first(n + 1) = IF Rank(ids, e) < m THEN first(n) \cup {e} ELSE first(n)
      BY <3>1
    <3>4. e \notin first(n)
      BY <3>1
    <3>5. top(n) \subseteq ids /\ first(n) \subseteq ids
      OBVIOUS
    <3> DEFINE t == top(n)
               u == first(n)
               t2 == top(n + 1)
               u2 == first(n + 1)
    <3>6. Right(n)
      BY <1>3
    <3>7. Cardinality(u) = IF m <= Cardinality(t) THEN m ELSE Cardinality(t)
      BY <3>6
    <3>8. t2 = t \cup {e} /\ e \notin t /\ e \notin u
          /\ u2 = IF Cardinality(t) < m THEN u \cup {e} ELSE u
      BY <3>1, <3>2, <3>3, <3>4
    <3>9. IsFiniteSet(t) /\ Cardinality(t) \in Nat /\ IsFiniteSet(u) /\ Cardinality(u) \in Nat
      BY <1>1, <3>5
    <3> HIDE DEF t, u, t2, u2, e
    <3>10. Cardinality(t2) = Cardinality(t) + 1 /\ Cardinality(u \cup {e}) = Cardinality(u) + 1
      BY <3>8, <3>9, FS_AddElement
    <3>11. Cardinality(u2) = IF m <= Cardinality(t2) THEN m ELSE Cardinality(t2)
      BY <3>7, <3>8, <3>9, <3>10
    <3>12. Right(n + 1)
      BY <3>11 DEF t2, u2
    <3> QED BY <3>12
  <2> QED BY <2>1, <2>2
<1> HIDE DEF S
<1>4. Nat \subseteq S
  BY <1>2, <1>3, NatsAreReached
<1>5. Right(N)
  BY <1>4 DEF S
<1>6. top(N) = ids
  <2>1. \A i \in ids : i > N - N
    BY <1>e
  <2> QED BY <2>1
<1>7. first(N) = {i \in ids : Rank(ids, i) < m}
  BY <1>6
<1> QED
  BY <1>5, <1>6, <1>7

----------------------------------------------------------------------------
\* Custom windows are typed with whole seconds, as the form of the pages has
\* them: a link carries no fraction, and would show another window.
WholeWindows ==
  \A q \in Queries :
    /\ q.from # Bad => q.from % Second = 0
    /\ q.to # Bad => q.to % Second = 0

\* What parseAdminFilter makes of such URLs for the list, at that time or later.
GoodFilter(f, now) ==
  \/ f.range = "all" /\ f.from = 0
  \/ /\ f.range = "custom" /\ f.from \in Int /\ f.to \in Int /\ f.from < f.to
     /\ f.from % Second = 0 /\ f.to % Second = 0
  \/ /\ f.range \in Presets /\ f.to \in Int /\ f.to <= now
     /\ f.from = f.to - Span(f.range)

\* The same filter, or its window some time later.
Later(f, g) ==
  /\ g.model = f.model
  /\ Bounded(g) <=> Bounded(f)
  /\ f.from \in Int /\ g.from \in Int /\ f.from <= g.from
  /\ Bounded(f) => f.to \in Int /\ g.to \in Int /\ f.to <= g.to

\* The calls of the reading that no call the window dropped was listed above.
Turn(f) == {i \in walk.due : \A j \in Dropped(f) : j < i}

\* Of the calls due, those among the first m of f are seen; the others of them.
Met(f, due, seen, m) == \A i \in due \cap Selected(f) : Rank(Selected(f), i) < m => i \in seen
Rest(f, due, seen) == (due \cap Selected(f)) \ seen
OnPage(f, m) ==
  {i \in Selected(f) : m <= Rank(Selected(f), i) /\ Rank(Selected(f), i) < m + PageSize}

\* What the reading had at its start is not after the window of f, and was
\* shown if it is one of the first m calls f selects and no call was dropped
\* above it.
Covered(f, m) ==
  /\ \A i \in walk.due : /\ walk.from \in Int /\ walk.from <= f.from
                         /\ Bounded(f) => calls[i].at < f.to
  /\ Met(f, Turn(f), walk.seen, m)

\* The calls of the reading that the window of f still has and no page showed.
Unseen(f) == Rest(f, Turn(f), walk.seen)

\* listCalls is between its statements: the page before this one is shown, and
\* the count lacks what was inserted since.
CountedInv(f, num, total, inserts) ==
  /\ GoodFilter(f, clock) /\ num \in 1 .. MaxPage
  /\ total \in Nat /\ inserts \in Nat
  /\ Cardinality(Selected(f)) <= total + inserts
  /\ Covered(f, (num - 1) * PageSize)

\* A list is shown: nothing to come, or a link to the page after it.
ListInv(f, inserts, next) ==
  /\ GoodFilter(f, clock) /\ inserts \in Nat
  /\ IF next = NoLink
     THEN Cardinality(Unseen(f)) <= inserts
     ELSE \E n \in 1 .. MaxPage : next = PageURL(f, n + 1) /\ Covered(f, n * PageSize)

WalkInv ==
  /\ walk = [due |-> walk.due, seen |-> walk.seen, from |-> walk.from]
  /\ walk.due \subseteq 1 .. Len(calls)
  /\ page.at \in {"none", "counted", "chart", "list"}
  /\ page.at = "counted" => CountedInv(page.filter, page.num, page.total, page.inserts)
  /\ page.at = "list" => ListInv(page.filter, page.inserts, page.next)

\* The presets have a length.
LEMMA Spans == \A range \in Presets : Span(range) \in Int /\ range # "custom" /\ range # "all"
BY DEF Presets, Span, Week, Day, Hour, Minute, Second

\* A filter from a URL of whole seconds is a good one.
LEMMA ParsedIsGood ==
  ASSUME NEW url \in URL, NEW now \in Nat,
         url.from # Bad => url.from % Second = 0, url.to # Bad => url.to % Second = 0
  PROVE  GoodFilter(ParseFilter(url, now, "calls"), now)
<1> DEFINE range == RangeOf(url, "calls")
           f == ParseFilter(url, now, "calls")
<1>1. \/ range = "all"
      \/ range \in Presets
      \/ range = "custom" /\ CustomFits(url, "calls")
  BY DEF RangeOf, Default
<1>2. CASE range = "all"
  <2>1. f = Filter(range, 0, 0, url.model)
    BY <1>2, Spans DEF ParseFilter
  <2> QED BY <1>2, <2>1 DEF Filter, GoodFilter
<1>3. CASE range \in Presets
  <2>1. f = Filter(range, now - Span(range), now, url.model)
    BY <1>3, Spans DEF ParseFilter
  <2> QED BY <1>3, <2>1, Spans DEF Filter, GoodFilter
<1>4. CASE range = "custom" /\ CustomFits(url, "calls")
  <2>1. f = Filter(range, url.from, url.to, url.model)
    BY <1>4, Spans DEF ParseFilter
  <2>2. url.from \in Int /\ url.to \in Int /\ url.from < url.to
    BY <1>4 DEF CustomFits, URL, Time
  <2>3. url.from # Bad /\ url.to # Bad
    BY <1>4 DEF CustomFits
  <2> QED BY <1>4, <2>1, <2>2, <2>3 DEF Filter, GoodFilter
<1> QED BY <1>1, <1>2, <1>3, <1>4

\* The link to another page has the window of this one, or where it has moved
\* since.
LEMMA LinkIsLater ==
  ASSUME NEW f, NEW was \in Nat, NEW now \in Nat, was <= now, GoodFilter(f, was), NEW n
  PROVE  LET g == ParseFilter(PageURL(f, n), now, "calls")
         IN GoodFilter(g, now) /\ Later(f, g)
<1> DEFINE url == PageURL(f, n)
           g == ParseFilter(url, now, "calls")
<1>1. /\ url.model = f.model
      /\ url.range = IF f.range = "all" THEN "" ELSE f.range
      /\ f.range = "custom" => url.from = Whole(f.from) /\ url.to = Whole(f.to)
  BY DEF PageURL, Default
<1> HIDE DEF url
<1>2. ASSUME f.range = "all" PROVE GoodFilter(g, now) /\ Later(f, g)
  <2>1. RangeOf(url, "calls") = "all"
    BY <1>1, <1>2 DEF RangeOf, Default, Presets
  <2>2. g = Filter("all", 0, 0, f.model)
    BY <1>1, <2>1, Spans DEF ParseFilter
  <2> HIDE DEF g
  <2>3. g.range = "all" /\ g.model = f.model /\ g.from = 0 /\ f.from = 0
    BY <1>2, <2>2, Spans DEF Filter, GoodFilter
  <2> QED BY <1>2, <2>3 DEF GoodFilter, Later, Bounded
<1>3. ASSUME f.range = "custom" PROVE GoodFilter(g, now) /\ Later(f, g)
  <2>1. /\ f.from \in Int /\ f.to \in Int /\ f.from < f.to
        /\ f.from % Second = 0 /\ f.to % Second = 0
    BY <1>3, Spans DEF GoodFilter
  <2>2. url.from = f.from /\ url.to = f.to /\ url.range = "custom"
    BY <1>1, <1>3, <2>1 DEF Whole, Second
  <2>3. CustomFits(url, "calls")
    BY <2>1, <2>2, AdminAssumption DEF CustomFits
  <2>4. RangeOf(url, "calls") = "custom"
    BY <2>2, <2>3 DEF RangeOf
  <2>5. g = Filter("custom", f.from, f.to, f.model)
    BY <1>1, <2>2, <2>4, Spans DEF ParseFilter
  <2> HIDE DEF g
  <2>6. g.range = "custom" /\ g.from = f.from /\ g.to = f.to /\ g.model = f.model
    BY <2>5 DEF Filter
  <2> QED BY <1>3, <2>1, <2>6 DEF GoodFilter, Later, Bounded
<1>4. ASSUME f.range \in Presets PROVE GoodFilter(g, now) /\ Later(f, g)
  <2>1. f.to \in Int /\ f.to <= was /\ f.from = f.to - Span(f.range)
    BY <1>4, Spans DEF GoodFilter
  <2>2. url.range = f.range /\ RangeOf(url, "calls") = f.range
    BY <1>1, <1>4, Spans DEF RangeOf
  <2>3. g = Filter(f.range, now - Span(f.range), now, f.model)
    BY <1>1, <1>4, <2>2, Spans DEF ParseFilter
  <2>4. /\ g.range = f.range /\ g.from = now - Span(f.range) /\ g.to = now
        /\ g.model = f.model
    BY <2>3 DEF Filter
  <2>5. Span(f.range) \in Int /\ f.range # "all" /\ f.range # "custom"
    BY <1>4, Spans
  <2>6. GoodFilter(g, now)
    BY <1>4, <2>4, <2>5 DEF GoodFilter
  <2>7. f.from \in Int /\ g.from \in Int /\ f.from <= g.from /\ f.to <= g.to
    BY <2>1, <2>4, <2>5
  <2>8. Later(f, g)
    BY <2>1, <2>4, <2>5, <2>7 DEF Later, Bounded
  <2> QED BY <2>6, <2>8
<1> QED BY <1>2, <1>3, <1>4 DEF GoodFilter, url

\* A window that moves on loses calls at its end: the calls none of them was
\* above do not come nearer to the first page.
LEMMA MovedIsCovered ==
  ASSUME TableInv, walk.due \subseteq 1 .. Len(calls),
         NEW f, NEW g, Later(f, g), NEW m \in Nat, Covered(f, m)
  PROVE  Covered(g, m)
<1> DEFINE ids == Selected(f)
           later == Selected(g)
<1>1. /\ DOMAIN calls = 1 .. Len(calls) /\ Len(calls) \in Nat
      /\ \A i \in 1 .. Len(calls) : calls[i].at \in Nat
  BY SelectedRows
<1>2. /\ f.from \in Int /\ g.from \in Int /\ f.from <= g.from /\ g.model = f.model
      /\ Bounded(g) <=> Bounded(f)
      /\ Bounded(f) => f.to \in Int /\ g.to \in Int /\ f.to <= g.to
  BY DEF Later
<1>3. ASSUME NEW i \in walk.due
      PROVE  /\ walk.from \in Int /\ walk.from <= g.from
             /\ Bounded(g) => calls[i].at < g.to
  <2>1. walk.from \in Int /\ walk.from <= f.from /\ Bounded(f) => calls[i].at < f.to
    BY <1>3 DEF Covered
  <2>2. calls[i].at \in Nat
    BY <1>1, <1>3
  <2>3. walk.from \in Int /\ walk.from <= f.from
    BY <1>3 DEF Covered
  <2> QED BY <1>2, <2>1, <2>2, <2>3
<1>4. ASSUME NEW i \in Turn(g) \cap later
      PROVE  i \in Turn(f) \cap ids /\ \A j \in ids : j > i => j \in later
  <2>1. i \in walk.due /\ i \in 1 .. Len(calls) /\ calls[i].at \in Nat
    BY <1>1, <1>4 DEF Turn
  <2>2. walk.from \in Int /\ walk.from <= f.from
    BY <2>1 DEF Covered
  <2>3. i \in ids
    <3>1. Bounded(f) => calls[i].at < f.to
      BY <2>1 DEF Covered
    <3>2. Bounded(f) => f.from <= calls[i].at
      <4> SUFFICES ASSUME Bounded(f) PROVE f.from <= calls[i].at
        OBVIOUS
      <4>1. g.from <= calls[i].at
        BY <1>2, <1>4 DEF Selected
      <4> QED BY <1>2, <2>1, <4>1
    <3>3. f.model \in {AnyModel, calls[i].model}
      BY <1>2, <1>4 DEF Selected
    <3> QED BY <1>1, <2>1, <3>1, <3>2, <3>3 DEF Selected
  <2>4. i \in Turn(f)
    <3> SUFFICES ASSUME NEW j \in Dropped(f) PROVE j < i
      BY <2>1 DEF Turn
    <3>1. j \in DOMAIN calls /\ calls[j].at \in Nat
      BY <1>1 DEF Dropped
    <3>2. walk.from <= calls[j].at /\ calls[j].at < f.from
      BY DEF Dropped
    <3>3. calls[j].at < g.from
      BY <1>2, <3>1, <3>2
    <3>4. j \in Dropped(g)
      BY <1>2, <3>1, <3>2, <3>3 DEF Dropped
    <3> QED BY <1>4, <3>4 DEF Turn
  <2>5. ASSUME NEW j \in ids, j > i PROVE j \in later
    <3>1. j \in 1 .. Len(calls) /\ calls[j].at \in Nat /\ j \in DOMAIN calls
      BY <1>1 DEF Selected
    <3>2. f.model \in {AnyModel, calls[j].model}
      BY DEF Selected
    <3>3. Bounded(g) => g.from <= calls[j].at /\ calls[j].at < g.to
      <4> SUFFICES ASSUME Bounded(g) PROVE g.from <= calls[j].at /\ calls[j].at < g.to
        OBVIOUS
      <4>1. f.from <= calls[j].at /\ calls[j].at < f.to
        BY <1>2, <2>5 DEF Selected
      <4>2. calls[j].at < g.to
        BY <1>2, <3>1, <4>1
      <4>3. ASSUME calls[j].at < g.from PROVE FALSE
        <5>1. walk.from <= calls[j].at
          BY <1>2, <2>2, <3>1, <4>1
        <5>2. j \in Dropped(g)
          BY <1>2, <3>1, <3>2, <4>3, <5>1 DEF Dropped
        <5>3. j < i
          BY <1>4, <5>2 DEF Turn
        <5> QED BY <2>1, <2>5, <3>1, <5>3
      <4> QED BY <1>2, <3>1, <4>2, <4>3
    <3> QED BY <1>2, <3>1, <3>2, <3>3 DEF Selected
  <2> QED BY <2>3, <2>4, <2>5
<1>5. ASSUME NEW i \in Turn(g) \cap later, Rank(later, i) < m
      PROVE  i \in walk.seen
  <2>1. i \in Turn(f) \cap ids /\ {j \in ids : j > i} \subseteq {j \in later : j > i}
    BY <1>4, <1>5
  <2>2. IsFiniteSet(ids) /\ IsFiniteSet(later)
    BY SelectedRows
  <2> HIDE DEF ids, later
  <2> DEFINE above == {j \in ids : j > i}
             above2 == {j \in later : j > i}
  <2>3. IsFiniteSet(above2)
    BY <2>2, FS_Subset
  <2>4. Cardinality(above2) \in Nat
    BY <2>3, FS_CardinalityType
  <2>5. above \in SUBSET above2
    BY <2>1
  <2>6. Cardinality(above) <= Cardinality(above2) /\ IsFiniteSet(above)
    BY <2>3, <2>5, FS_Subset
  <2>7. Cardinality(above) \in Nat
    BY <2>6, FS_CardinalityType
  <2>8. Rank(ids, i) < m
    <3>1. Cardinality(above2) < m
      BY <1>5 DEF Rank
    <3>2. Rank(ids, i) = Cardinality(above)
      BY DEF Rank
    <3> HIDE DEF above, above2
    <3> QED BY <2>4, <2>6, <2>7, <3>1, <3>2
  <2> QED BY <1>5, <2>1, <2>8 DEF Covered, Met, ids
<1> QED
  BY <1>3, <1>5 DEF Covered, Met

\* A subset has no more elements.
LEMMA Fewer ==
  ASSUME NEW T, IsFiniteSet(T), NEW S \in SUBSET T
  PROVE  /\ IsFiniteSet(S) /\ Cardinality(S) \in Nat /\ Cardinality(T) \in Nat
         /\ Cardinality(S) <= Cardinality(T)
BY FS_Subset, FS_CardinalityType

\* A call inserted while the list is read is above all it had: it pushes them
\* away from the first page.
LEMMA InsertedAbove ==
  ASSUME TableInv, walk.due \subseteq 1 .. Len(calls),
         NEW w \in Writers, NEW row \in taken[w], Insert(w, row), NEW f
  PROVE  /\ walk' = walk /\ 1 .. Len(calls) \subseteq 1 .. Len(calls')
         /\ Cardinality(Selected(f)') <= Cardinality(Selected(f)) + 1
         /\ Cardinality(Selected(f)') \in Nat
         /\ Unseen(f)' \subseteq Unseen(f)
         /\ \A m \in Nat : Covered(f, m) => Covered(f, m)'
<1> DEFINE n == Len(calls)
           ids == Selected(f)
           more == Selected(f)'
<1>1. calls' = Append(calls, row) /\ walk' = walk
  BY DEF Insert
<1>2. row \in Call
  BY DEF TableInv
<1>3. /\ Len(calls') = n + 1 /\ n \in Nat
      /\ \A k \in 1 .. n : calls'[k] = calls[k]
      /\ DOMAIN calls = 1 .. n /\ DOMAIN calls' = 1 .. n + 1
  BY <1>1, <1>2, AppendProperties, LenProperties DEF TableInv
<1> HIDE DEF n
<1>4. \A k \in 1 .. n + 1 : k \in 1 .. n \/ k = n + 1
  BY <1>3
<1>5. \A k \in 1 .. n : k \in 1 .. n + 1 /\ k < n + 1 /\ k # n + 1
  BY <1>3
<1>6. /\ ids = {k \in 1 .. n : (Bounded(f) => f.from <= calls[k].at /\ calls[k].at < f.to)
                               /\ f.model \in {AnyModel, calls[k].model}}
      /\ more = {k \in 1 .. n + 1 :
                   (Bounded(f) => f.from <= calls'[k].at /\ calls'[k].at < f.to)
                   /\ f.model \in {AnyModel, calls'[k].model}}
  BY <1>3 DEF Selected
<1>7. \A k \in 1 .. n : k \in ids <=> k \in more
  BY <1>3, <1>5, <1>6
<1>8. ids \subseteq 1 .. n /\ more \subseteq ids \cup {n + 1} /\ ids \subseteq more
  BY <1>4, <1>5, <1>6, <1>7
<1> HIDE DEF ids, more
<1>9. IsFiniteSet(ids) /\ IsFiniteSet(ids \cup {n + 1})
      /\ Cardinality(ids \cup {n + 1}) <= Cardinality(ids) + 1 /\ Cardinality(ids) \in Nat
  <2> DEFINE x == n + 1
             U == ids \cup {x}
  <2>1. IsFiniteSet(ids)
    BY SelectedRows DEF ids
  <2>2. Cardinality(ids) \in Nat
    BY <2>1, FS_CardinalityType
  <2> HIDE DEF x
  <2>3. /\ IsFiniteSet(U)
        /\ Cardinality(U) = IF x \in ids THEN Cardinality(ids) ELSE Cardinality(ids) + 1
    BY <2>1, FS_AddElement
  <2> HIDE DEF U
  <2>4. Cardinality(U) <= Cardinality(ids) + 1
    BY <2>2, <2>3
  <2> QED BY <2>1, <2>2, <2>3, <2>4 DEF U, x
<1>10. IsFiniteSet(more) /\ Cardinality(more) \in Nat
       /\ Cardinality(more) <= Cardinality(ids) + 1
  <2> DEFINE U == ids \cup {n + 1}
  <2>1. more \in SUBSET U
    BY <1>8
  <2>2. IsFiniteSet(U) /\ Cardinality(U) <= Cardinality(ids) + 1 /\ Cardinality(ids) \in Nat
    BY <1>9
  <2> HIDE DEF U
  <2>3. IsFiniteSet(more) /\ Cardinality(more) \in Nat /\ Cardinality(U) \in Nat
        /\ Cardinality(more) <= Cardinality(U)
    BY <2>1, <2>2, Fewer
  <2> QED BY <2>2, <2>3
<1>11. ASSUME NEW i \in Turn(f)' PROVE i \in Turn(f)
  <2>1. i \in walk.due
    BY <1>1, <1>11 DEF Turn
  <2> SUFFICES ASSUME NEW j \in Dropped(f) PROVE j < i
    BY <2>1 DEF Turn
  <2>2. j \in 1 .. n /\ j \in 1 .. n + 1 /\ calls'[j] = calls[j]
    BY <1>3, <1>5 DEF Dropped
  <2>3. j \in Dropped(f)'
    BY <1>1, <1>3, <2>2 DEF Dropped
  <2> QED BY <1>11, <2>3 DEF Turn
<1>12. ASSUME NEW m \in Nat, Covered(f, m) PROVE Covered(f, m)'
  <2>1. \A i \in walk.due : i \in 1 .. n /\ calls'[i] = calls[i]
    BY <1>3 DEF n
  <2>2. \A i \in walk.due : /\ walk.from \in Int /\ walk.from <= f.from
                            /\ Bounded(f) => calls'[i].at < f.to
    BY <1>12, <2>1 DEF Covered
  <2>3. ASSUME NEW i \in Turn(f)' \cap more, Rank(more, i) < m PROVE i \in walk.seen
    <3>1. i \in ids /\ i \in Turn(f)
      BY <1>7, <1>11, <2>1 DEF Turn
    <3> DEFINE above == {j \in ids : j > i}
               above2 == {j \in more : j > i}
    <3>2. above \in SUBSET above2
      BY <1>8
    <3>3. IsFiniteSet(above2)
      BY <1>10, FS_Subset
    <3>4. Cardinality(above2) < m /\ Rank(ids, i) = Cardinality(above)
      BY <2>3 DEF Rank
    <3> HIDE DEF above, above2
    <3>5. Rank(ids, i) < m
      BY <3>2, <3>3, <3>4, Fewer
    <3> QED BY <1>12, <3>1, <3>5 DEF Covered, Met, ids
  <2> QED BY <1>1, <2>2, <2>3 DEF Covered, Met, more
<1>13. 1 .. n \subseteq 1 .. Len(calls')
  BY <1>3, <1>5
<1>14. Unseen(f)' \subseteq Unseen(f)
  <2>1. \A i \in Turn(f) : i \in 1 .. n
    BY DEF Turn, n
  <2> QED BY <1>1, <1>7, <1>11, <2>1 DEF Unseen, Rest, ids, more
<1>15. walk' = walk
  BY <1>1
<1> QED
  BY <1>9, <1>10, <1>12, <1>13, <1>14, <1>15 DEF ids, more, n

\* A page shows its rows: what is left of the reading comes after them, and
\* without a link to a next page there is no more of it than was inserted
\* since the page was counted.
LEMMA PageIsCovered ==
  ASSUME TableInv, NEW f, NEW m \in Nat, NEW total \in Nat, NEW inserts \in Nat,
         Cardinality(Selected(f)) <= total + inserts,
         NEW all, NEW due \in SUBSET all, NEW seen, Met(f, due, seen, m)
  PROVE  LET now == seen \cup (OnPage(f, m) \cap all)
         IN /\ Met(f, due, now, m + PageSize)
            /\ total <= m + Cardinality(OnPage(f, m))
                 => Cardinality(Rest(f, due, now)) <= inserts
<1> DEFINE ids == Selected(f)
           P == PageSize
           rows == OnPage(f, m)
           now == seen \cup (rows \cap all)
           left == (due \cap ids) \ now
           first(k) == {i \in ids : Rank(ids, i) < k}
<1>p. P \in Nat
  BY AdminAssumption
<1>1. IsFiniteSet(ids) /\ ids \in SUBSET (1 .. Len(calls)) /\ Len(calls) \in Nat
      /\ Cardinality(ids) \in Nat
  BY SelectedRows
<1>2. Cardinality(ids) <= total + inserts
  OBVIOUS
<1>3. \A i \in due \cap ids : Rank(ids, i) < m => i \in seen
  BY DEF Met
<1>4. rows = {i \in ids : m <= Rank(ids, i) /\ Rank(ids, i) < m + P}
  BY DEF OnPage
<1> HIDE DEF ids, P, rows
<1>5. \A i \in ids : Rank(ids, i) \in Nat
  <2> SUFFICES ASSUME NEW i \in ids PROVE Rank(ids, i) \in Nat
    OBVIOUS
  <2> DEFINE above == {j \in ids : j > i}
  <2>1. above \in SUBSET ids
    OBVIOUS
  <2>2. Cardinality(above) \in Nat
    BY <1>1, <2>1, Fewer
  <2> QED BY <2>2 DEF Rank
<1>6. ASSUME NEW i \in due \cap ids, Rank(ids, i) < m + P PROVE i \in now
  BY <1>3, <1>4, <1>5, <1>6
<1>7. \A k \in Nat : /\ IsFiniteSet(first(k)) /\ first(k) \subseteq ids
                    /\ Cardinality(first(k)) = IF k <= Cardinality(ids) THEN k ELSE Cardinality(ids)
  <2> SUFFICES ASSUME NEW k \in Nat
               PROVE  /\ IsFiniteSet(first(k)) /\ first(k) \subseteq ids
                      /\ Cardinality(first(k)) = IF k <= Cardinality(ids) THEN k
                                                ELSE Cardinality(ids)
    OBVIOUS
  <2>1. first(k) \in SUBSET ids
    OBVIOUS
  <2>2. IsFiniteSet(first(k))
    BY <1>1, <2>1, FS_Subset
  <2>3. Cardinality(first(k)) = IF k <= Cardinality(ids) THEN k ELSE Cardinality(ids)
    BY <1>1, RanksAreCounted
  <2> QED BY <2>1, <2>2, <2>3
<1>8. m + P \in Nat
  BY <1>p
<1>9. rows = first(m + P) \ first(m) /\ first(m) \subseteq first(m + P)
  BY <1>p, <1>4, <1>5
<1>10. left \subseteq ids \ first(m + P)
  BY <1>6
<1> DEFINE a == first(m)
           b == first(m + P)
           c == Cardinality(ids)
<1>11. /\ IsFiniteSet(a) /\ IsFiniteSet(b) /\ a \subseteq b /\ b \subseteq ids
       /\ Cardinality(a) = IF m <= c THEN m ELSE c
       /\ Cardinality(b) = IF m + P <= c THEN m + P ELSE c
       /\ rows = b \ a /\ left \subseteq ids \ b
  BY <1>7, <1>8, <1>9, <1>10
<1> HIDE DEF a, b, left, now, first
<1>12. Cardinality(rows) = Cardinality(b) - Cardinality(a)
  <2>1. b \cap a = a
    BY <1>11
  <2>2. Cardinality(b \ a) = Cardinality(b) - Cardinality(b \cap a)
    BY <1>11, FS_Difference
  <2> QED BY <1>11, <2>1, <2>2
<1>13. /\ Cardinality(left) \in Nat
       /\ Cardinality(left) <= c - Cardinality(b)
  <2> DEFINE rest == ids \ b
  <2>1. ids \cap b = b
    BY <1>11
  <2>2. IsFiniteSet(rest) /\ Cardinality(rest) = c - Cardinality(ids \cap b)
    BY <1>1, FS_Difference
  <2>3. left \in SUBSET rest
    BY <1>11
  <2>4. Cardinality(rest) = c - Cardinality(b)
    BY <2>1, <2>2
  <2> HIDE DEF rest
  <2>5. Cardinality(left) \in Nat /\ Cardinality(left) <= Cardinality(rest)
    BY <2>2, <2>3, Fewer
  <2> QED BY <2>4, <2>5
<1>14. ASSUME total <= m + Cardinality(rows) PROVE Cardinality(left) <= inserts
  <2> DEFINE na == Cardinality(a)
             nb == Cardinality(b)
             nl == Cardinality(left)
             nr == Cardinality(rows)
  <2>1. /\ c \in Nat /\ nl \in Nat /\ nl <= c - nb /\ nr = nb - na /\ c <= total + inserts
        /\ na = (IF m <= c THEN m ELSE c) /\ nb = (IF m + P <= c THEN m + P ELSE c)
        /\ total <= m + nr
    BY <1>1, <1>2, <1>11, <1>12, <1>13, <1>14
  <2> HIDE DEF na, nb, nl, nr, c
  <2> QED BY <1>p, <2>1 DEF nl
<1> QED
  <2>1. Met(f, due, now, m + PageSize)
    BY <1>6 DEF Met, ids, P
  <2>2. left = Rest(f, due, now)
    BY DEF Rest, ids, left
  <2> QED BY <1>14, <2>1, <2>2 DEF now, rows

\* A good filter stays one.
LEMMA GoodStaysGood ==
  ASSUME NEW f, NEW was \in Nat, NEW now \in Nat, was <= now, GoodFilter(f, was)
  PROVE  GoodFilter(f, now)
<1>1. f.range \in Presets /\ f.to \in Int /\ f.to <= was => f.to <= now
  OBVIOUS
<1> QED BY <1>1 DEF GoodFilter

\* Covering more pages covers fewer.
LEMMA FewerCovered ==
  ASSUME TableInv, NEW f, NEW m \in Nat, NEW k \in Nat, k <= m, Covered(f, m)
  PROVE  Covered(f, k)
<1> SUFFICES ASSUME NEW i \in Turn(f) \cap Selected(f), Rank(Selected(f), i) < k
             PROVE  i \in walk.seen
  BY DEF Covered, Met
<1> DEFINE ids == Selected(f)
           above == {j \in ids : j > i}
<1>1. IsFiniteSet(ids)
  BY SelectedRows
<1>2. Cardinality(above) \in Nat
  BY <1>1, Fewer
<1>3. Cardinality(above) < m
  <2>1. Cardinality(above) < k
    BY DEF Rank
  <2> HIDE DEF above
  <2> QED BY <1>2, <2>1
<1>4. Rank(Selected(f), i) < m
  BY <1>3 DEF Rank
<1> QED BY <1>4 DEF Covered, Met

\* The product of page numbers and sizes.
LEMMA Pages ==
  ASSUME NEW num \in Nat, num >= 1
  PROVE  /\ num * PageSize \in Nat /\ (num - 1) * PageSize \in Nat
         /\ (num - 1) * PageSize + PageSize = num * PageSize
<1>1. PageSize \in Nat
  BY AdminAssumption
<1>2. \A x, y \in Nat : x * y \in Nat
  OBVIOUS
<1>3. num - 1 \in Nat
  OBVIOUS
<1> QED BY <1>1, <1>2, <1>3

\* There is more than one page.
LEMMA ManyPages == MaxPage \in Nat /\ MaxPage >= 2
BY SMT DEF MaxPage

\* The number of a page is one.
LEMMA PageNumbers ==
  ASSUME NEW num \in Int
  PROVE  /\ ClampPage(num) \in 1 .. MaxPage
         /\ num \in 2 .. MaxPage + 1 => ClampPage(num) # 1 /\ ClampPage(num) <= num
BY ManyPages DEF ClampPage

\* The first page, or a page a URL names, starts or ends the reading.
LEMMA TypedPage ==
  ASSUME WholeWindows, TableInv, WalkInv, clock' \in Nat, clock <= clock',
         NEW url \in Queries, CountCalls(url, FALSE)
  PROVE  WalkInv'
<1>1. PICK f : f = ParseFilter(url, clock, "calls")
  OBVIOUS
<1>2. PICK num : num = ClampPage(url.num)
  OBVIOUS
<1>3. /\ page' = Counted(f, num, Cardinality(Selected(f)), 0) /\ calls' = calls
      /\ walk' = IF num = 1 THEN [due |-> Selected(f), seen |-> {}, from |-> f.from]
               ELSE NoWalk
  BY <1>1, <1>2 DEF CountCalls, Walk
<1>4. url \in URL /\ url.num \in Int
  BY AdminAssumption DEF URL
<1>5. num \in 1 .. MaxPage
  BY <1>2, <1>4, PageNumbers
<1>6. GoodFilter(f, clock')
  <2>1. GoodFilter(f, clock)
    BY <1>1, <1>4, ParsedIsGood DEF WholeWindows, TableInv
  <2> QED BY <2>1, GoodStaysGood DEF TableInv
<1>7. /\ DOMAIN calls = 1 .. Len(calls) /\ Selected(f) \subseteq 1 .. Len(calls)
      /\ IsFiniteSet(Selected(f)) /\ Cardinality(Selected(f)) \in Nat
  BY SelectedRows
<1>8. Selected(f)' = Selected(f)
  BY <1>3 DEF Selected
<1>9. walk'.due \subseteq 1 .. Len(calls') /\ Covered(f, (num - 1) * PageSize)'
  <2>1. CASE num = 1
    <3>1. walk'.due = Selected(f) /\ walk'.from = f.from /\ f.from \in Int
      BY <1>3, <1>6, <2>1, Spans DEF GoodFilter
    <3>5. Turn(f)' \subseteq Selected(f)
      BY <3>1 DEF Turn
    <3>2. (num - 1) * PageSize = 0
      BY <2>1, AdminAssumption
    <3>3. \A i \in Selected(f) : Bounded(f) => calls[i].at < f.to
      BY DEF Selected
    <3>4. ASSUME NEW i \in Selected(f) PROVE ~(Rank(Selected(f), i) < 0)
      <4> DEFINE above == {j \in Selected(f) : j > i}
      <4>1. above \in SUBSET Selected(f)
        OBVIOUS
      <4>2. Cardinality(above) \in Nat
        BY <1>7, <4>1, Fewer
      <4>3. Rank(Selected(f), i) = Cardinality(above)
        BY DEF Rank
      <4> HIDE DEF above
      <4> QED BY <4>2, <4>3
    <3> QED BY <1>3, <1>7, <1>8, <3>1, <3>2, <3>3, <3>4, <3>5 DEF Covered, Met
  <2>2. CASE num # 1
    <3>1. walk'.due = {}
      BY <1>3, <2>2 DEF NoWalk
    <3> QED BY <3>1 DEF Covered, Met, Turn
  <2> QED BY <2>1, <2>2
<1>10. Cardinality(Selected(f)) <= Cardinality(Selected(f)) + 0 /\ 0 \in Nat
  BY <1>7
<1>11. CountedInv(f, num, Cardinality(Selected(f)), 0)'
  BY <1>5, <1>6, <1>7, <1>8, <1>9, <1>10 DEF CountedInv
<1>12. page'.at = "counted" /\ page'.filter = f /\ page'.num = num
       /\ page'.total = Cardinality(Selected(f)) /\ page'.inserts = 0
  BY <1>3, PageFields
<1>13. walk' = [due |-> walk'.due, seen |-> walk'.seen, from |-> walk'.from]
  <2>1. CASE num = 1
    BY <1>3, <2>1
  <2>2. CASE num # 1
    BY <1>3, <2>2 DEF NoWalk
  <2> QED BY <2>1, <2>2
<1> QED
  BY <1>8, <1>9, <1>11, <1>12, <1>13 DEF WalkInv

\* The Next of a list goes on where the list ended.
LEMMA NextPage ==
  ASSUME TableInv, WalkInv, clock' \in Nat, clock <= clock',
         page.at = "list", page.next # NoLink, CountCalls(page.next, TRUE)
  PROVE  WalkInv'
<1>1. PICK f : f = page.filter
  OBVIOUS
<1>2. /\ GoodFilter(f, clock) /\ walk.due \subseteq 1 .. Len(calls)
      /\ \E n \in 1 .. MaxPage : page.next = PageURL(f, n + 1) /\ Covered(f, n * PageSize)
  BY <1>1 DEF WalkInv, ListInv
<1>3. PICK n \in 1 .. MaxPage : page.next = PageURL(f, n + 1) /\ Covered(f, n * PageSize)
  BY <1>2
<1>4. PICK g : g = ParseFilter(PageURL(f, n + 1), clock, "calls")
  OBVIOUS
<1>5. PICK num : num = ClampPage(n + 1)
  OBVIOUS
<1>6. MaxPage \in Nat
  BY ManyPages
<1>7. /\ num \in 1 .. MaxPage /\ num # 1 /\ num <= n + 1 /\ n \in Nat /\ num \in Nat
  BY <1>3, <1>5, <1>6, PageNumbers
<1>8. /\ page' = Counted(g, num, Cardinality(Selected(g)), 0) /\ calls' = calls
      /\ walk' = walk
  <2>1. PageURL(f, n + 1).num = n + 1
    BY DEF PageURL
  <2> QED BY <1>3, <1>4, <1>5, <1>7, <2>1 DEF CountCalls, Walk
<1>9. GoodFilter(g, clock') /\ Covered(g, n * PageSize)
  <2>1. clock \in Nat /\ n * PageSize \in Nat
    BY <1>3, <1>7, Pages DEF TableInv
  <2>2. GoodFilter(g, clock) /\ Later(f, g)
    BY <1>2, <1>4, <2>1, LinkIsLater
  <2>3. GoodFilter(g, clock')
    BY <2>1, <2>2, GoodStaysGood
  <2>4. Covered(g, n * PageSize)
    BY <1>2, <1>3, <2>1, <2>2, MovedIsCovered
  <2> QED BY <2>3, <2>4
<1>10. Covered(g, (num - 1) * PageSize)
  <2> DEFINE less == (num - 1) * PageSize
             all == n * PageSize
  <2>1. num - 1 <= n /\ num - 1 \in Nat /\ PageSize \in Nat
    BY <1>7, AdminAssumption
  <2>2. less <= all
    BY <1>7, <2>1, SMT
  <2>3. less \in Nat /\ all \in Nat
    BY <1>3, <1>7, Pages
  <2>4. Covered(g, all)
    BY <1>9
  <2> HIDE DEF less, all
  <2>5. Covered(g, less)
    BY <2>2, <2>3, <2>4, FewerCovered
  <2> QED BY <2>5 DEF less
<1>11. Cardinality(Selected(g)) \in Nat /\ Cardinality(Selected(g)) <= Cardinality(Selected(g)) + 0
       /\ 0 \in Nat
  BY SelectedRows
<1>12. Selected(g)' = Selected(g) /\ Covered(g, (num - 1) * PageSize)'
  BY <1>8, <1>10 DEF Selected, Covered, Met, Turn, Dropped
<1>13. CountedInv(g, num, Cardinality(Selected(g)), 0)'
  BY <1>7, <1>9, <1>11, <1>12 DEF CountedInv
<1>14. page'.at = "counted" /\ page'.filter = g /\ page'.num = num
       /\ page'.total = Cardinality(Selected(g)) /\ page'.inserts = 0
  BY <1>8, PageFields
<1> QED
  BY <1>2, <1>8, <1>12, <1>13, <1>14 DEF WalkInv

\* The rows of a page are shown.
LEMMA ShownPage ==
  ASSUME TableInv, WalkInv, clock' \in Nat, clock <= clock', FindCalls
  PROVE  WalkInv'
<1>1. PICK f : f = page.filter
  OBVIOUS
<1>2. PICK num : num = page.num
  OBVIOUS
<1>3. PICK total : total = page.total
  OBVIOUS
<1>4. PICK inserts : inserts = page.inserts
  OBVIOUS
<1>5. PICK rows : rows = Rows(f, num)
  OBVIOUS
<1>6. PICK next : next = NextLink(f, num, rows, total)
  OBVIOUS
<1>7. /\ page.at = "counted" /\ page' = List(f, inserts, next) /\ calls' = calls
      /\ walk' = [walk EXCEPT !.seen = walk.seen \cup (rows \cap walk.due)]
  BY <1>1, <1>2, <1>3, <1>4, <1>5, <1>6 DEF FindCalls
<1>8. /\ GoodFilter(f, clock) /\ num \in 1 .. MaxPage /\ total \in Nat /\ inserts \in Nat
      /\ Cardinality(Selected(f)) <= total + inserts
      /\ Covered(f, (num - 1) * PageSize) /\ walk.due \subseteq 1 .. Len(calls)
  BY <1>1, <1>2, <1>3, <1>4, <1>7 DEF WalkInv, CountedInv
<1>9. num \in Nat /\ num >= 1
  BY <1>8, ManyPages
<1>d. PICK due : due = walk.due
  OBVIOUS
<1>s. PICK seen : seen = walk.seen
  OBVIOUS
<1>m. PICK m : m = (num - 1) * PageSize
  OBVIOUS
<1>o. PICK turn : turn = Turn(f)
  OBVIOUS
<1> DEFINE now == seen \cup (rows \cap due)
           left == Rest(f, turn, now)
<1>10. /\ PageSize \in Nat /\ m \in Nat /\ m + PageSize = num * PageSize
       /\ num * PageSize \in Nat
  BY <1>9, <1>m, AdminAssumption, Pages
<1>11. rows = OnPage(f, m)
  BY <1>5, <1>m DEF Rows, OnPage
<1>12. Met(f, turn, seen, m) /\ turn \in SUBSET due
  BY <1>8, <1>d, <1>o, <1>s, <1>m DEF Covered, Turn
<1>13. /\ Met(f, turn, now, m + PageSize)
       /\ total <= m + Cardinality(rows) => Cardinality(left) <= inserts
  BY <1>8, <1>10, <1>11, <1>12, PageIsCovered
<1>14. walk'.due = due /\ walk'.seen = now /\ walk'.from = walk.from
  BY <1>7, <1>d, <1>s DEF WalkInv
<1>15. Selected(f)' = Selected(f) /\ Turn(f)' = turn
  BY <1>7, <1>14, <1>d, <1>o DEF Selected, Turn, Dropped
<1>16. Covered(f, num * PageSize)'
  <2>1. \A i \in due : /\ walk.from \in Int /\ walk.from <= f.from
                       /\ Bounded(f) => calls[i].at < f.to
    BY <1>8, <1>d DEF Covered
  <2>2. Met(f, turn, now, num * PageSize)
    BY <1>10, <1>13
  <2> QED BY <1>7, <1>14, <1>15, <2>1, <2>2 DEF Covered, Met
<1>17. Unseen(f)' = left
  BY <1>14, <1>15 DEF Unseen, Rest
<1>18. ASSUME m + Cardinality(rows) < total
       PROVE  next # NoLink /\ \E n \in 1 .. MaxPage : next = PageURL(f, n + 1)
                                                   /\ Covered(f, n * PageSize)'
  <2>1. next = PageURL(f, num + 1)
    BY <1>6, <1>18, <1>m DEF NextLink
  <2>2. next.num = num + 1
    BY <2>1 DEF PageURL
  <2>3. num + 1 # 0
    BY <1>9
  <2>4. next # NoLink
    BY <2>2, <2>3 DEF NoLink
  <2>5. \E n \in 1 .. MaxPage : next = PageURL(f, n + 1) /\ Covered(f, n * PageSize)'
    BY <1>8, <1>16, <2>1
  <2> QED BY <1>8, <2>4, <2>5
<1>19. ASSUME ~(m + Cardinality(rows) < total)
       PROVE  next = NoLink /\ Cardinality(Unseen(f))' <= inserts
  <2>1. next = NoLink
    BY <1>6, <1>19, <1>m DEF NextLink
  <2>2. Cardinality(rows) \in Nat
    <3>1. rows \in SUBSET Selected(f) /\ IsFiniteSet(Selected(f))
      BY <1>11, SelectedRows DEF OnPage
    <3> QED BY <3>1, Fewer
  <2>3. total <= m + Cardinality(rows)
    BY <1>8, <1>10, <1>19, <2>2
  <2> QED BY <1>13, <1>17, <2>1, <2>3
<1>20. GoodFilter(f, clock')
  BY <1>8, GoodStaysGood DEF TableInv
<1>21. ListInv(f, inserts, next)'
  <2>1. IF next = NoLink THEN Cardinality(Unseen(f))' <= inserts
        ELSE \E n \in 1 .. MaxPage : next = PageURL(f, n + 1) /\ Covered(f, n * PageSize)'
    BY <1>18, <1>19
  <2> QED BY <1>8, <1>20, <2>1 DEF ListInv
<1>22. page'.at = "list" /\ page'.filter = f /\ page'.inserts = inserts /\ page'.next = next
  BY <1>7, PageFields
<1> QED
  BY <1>7, <1>8, <1>21, <1>22 DEF WalkInv

\* A call is inserted.
LEMMA InsertedCall ==
  ASSUME TableInv, WalkInv, clock' \in Nat, clock <= clock',
         NEW w \in Writers, NEW row \in taken[w], Insert(w, row)
  PROVE  WalkInv'
<1>1. PICK f : f = page.filter
  OBVIOUS
<1>2. walk.due \subseteq 1 .. Len(calls)
  BY DEF WalkInv
<1>3. /\ walk' = walk /\ 1 .. Len(calls) \subseteq 1 .. Len(calls')
      /\ Cardinality(Selected(f)') <= Cardinality(Selected(f)) + 1
      /\ Cardinality(Selected(f)') \in Nat
      /\ Unseen(f)' \subseteq Unseen(f)
      /\ \A k \in Nat : Covered(f, k) => Covered(f, k)'
  BY <1>2, InsertedAbove
<1>4. Cardinality(Selected(f)) \in Nat
  BY SelectedRows
<1>5. GoodFilter(f, clock) => GoodFilter(f, clock')
  BY GoodStaysGood DEF TableInv
<1>6. CASE page.at = "counted"
  <2>1. PICK num : num = page.num
    OBVIOUS
  <2>2. PICK total : total = page.total
    OBVIOUS
  <2>3. PICK inserts : inserts = page.inserts
    OBVIOUS
  <2>4. CountedInv(f, num, total, inserts)
    BY <1>1, <1>6, <2>1, <2>2, <2>3 DEF WalkInv
  <2>5. page' = Counted(f, num, total, inserts + 1)
    BY <1>1, <1>6, <2>1, <2>2, <2>3 DEF Insert
  <2>6. (num - 1) * PageSize \in Nat
    <3>1. num \in Nat /\ num >= 1
      BY <2>4, ManyPages DEF CountedInv
    <3> QED BY <3>1, Pages
  <2>7. Covered(f, (num - 1) * PageSize)'
    BY <1>3, <2>4, <2>6 DEF CountedInv
  <2>8. inserts + 1 \in Nat /\ Cardinality(Selected(f))' <= total + (inserts + 1)
    <3> DEFINE old == Cardinality(Selected(f))
               new == Cardinality(Selected(f)')
    <3>1. old \in Nat /\ new \in Nat /\ new <= old + 1 /\ old <= total + inserts
          /\ total \in Nat /\ inserts \in Nat
      BY <1>3, <1>4, <2>4 DEF CountedInv
    <3> HIDE DEF old, new
    <3>2. new <= total + (inserts + 1) /\ inserts + 1 \in Nat
      BY <3>1
    <3> QED BY <3>2 DEF new
  <2>9. CountedInv(f, num, total, inserts + 1)'
    BY <1>5, <2>4, <2>7, <2>8 DEF CountedInv
  <2>10. /\ page'.at = "counted" /\ page'.filter = f /\ page'.num = num
         /\ page'.total = total /\ page'.inserts = inserts + 1
    BY <2>5, PageFields
  <2> QED BY <1>2, <1>3, <2>9, <2>10 DEF WalkInv
<1>7. CASE page.at # "counted"
  <2>1. page' = page
    BY <1>7 DEF Insert
  <2>2. CASE page.at = "list"
    <3>1. PICK inserts : inserts = page.inserts
      OBVIOUS
    <3>2. PICK next : next = page.next
      OBVIOUS
    <3>3. ListInv(f, inserts, next)
      BY <1>1, <2>2, <3>1, <3>2 DEF WalkInv
    <3>4. \A n \in 1 .. MaxPage : n * PageSize \in Nat
      BY ManyPages, Pages
    <3>6. Cardinality(Unseen(f)') <= Cardinality(Unseen(f)) /\ Cardinality(Unseen(f)) \in Nat
          /\ Cardinality(Unseen(f)') \in Nat
      <4>1. IsFiniteSet(Selected(f)) /\ Unseen(f) \in SUBSET Selected(f)
        BY SelectedRows DEF Unseen, Rest
      <4>2. IsFiniteSet(Unseen(f)) /\ Unseen(f)' \in SUBSET Unseen(f)
        BY <1>3, <4>1, FS_Subset
      <4> QED BY <4>2, Fewer
    <3>7. Cardinality(Unseen(f)) <= inserts => Cardinality(Unseen(f)') <= inserts
      <4>1. inserts \in Nat
        BY <3>3 DEF ListInv
      <4> QED BY <3>6, <4>1
    <3>5. ListInv(f, inserts, next)'
      BY <1>3, <1>5, <3>3, <3>4, <3>7 DEF ListInv
    <3> QED BY <1>1, <1>2, <1>3, <2>1, <2>2, <3>1, <3>2, <3>5 DEF WalkInv
  <2>3. CASE page.at # "list"
    BY <1>2, <1>3, <1>7, <2>1, <2>3 DEF WalkInv
  <2> QED BY <2>2, <2>3
<1> QED BY <1>6, <1>7

\* Time may go on while a page is shown or read.
LEMMA NothingRead ==
  ASSUME TableInv, WalkInv, clock' \in Nat, clock <= clock', UNCHANGED <<calls, page, walk>>
  PROVE  WalkInv'
<1>1. PICK f : f = page.filter
  OBVIOUS
<1>2. GoodFilter(f, clock) => GoodFilter(f, clock')
  BY GoodStaysGood DEF TableInv
<1>3. /\ Selected(f)' = Selected(f) /\ Unseen(f)' = Unseen(f)
      /\ \A k : Covered(f, k)' <=> Covered(f, k)
  BY DEF Selected, Unseen, Covered, Met, Rest, Turn, Dropped
<1>4. CASE page.at = "counted"
  <2>1. CountedInv(f, page.num, page.total, page.inserts)
    BY <1>1, <1>4 DEF WalkInv
  <2>2. CountedInv(f, page.num, page.total, page.inserts)'
    BY <1>2, <1>3, <2>1 DEF CountedInv
  <2> QED BY <1>1, <1>4, <2>2 DEF WalkInv
<1>5. CASE page.at = "list"
  <2>1. ListInv(f, page.inserts, page.next)
    BY <1>1, <1>5 DEF WalkInv
  <2>2. ListInv(f, page.inserts, page.next)'
    BY <1>2, <1>3, <2>1 DEF ListInv
  <2> QED BY <1>1, <1>5, <2>2 DEF WalkInv
<1>6. CASE page.at # "counted" /\ page.at # "list"
  BY <1>6 DEF WalkInv
<1> QED BY <1>4, <1>5, <1>6

\* For windows of whole seconds and any number of calls, writers, inserts and
\* pages, whatever the order of the times and that of the ids, the Next links of
\* the calls page (listCalls, pagerURL, parseAdminFilter) lead from the first
\* page over every call the reading had: none is skipped between two pages,
\* however far the window moves, but where it drops a call that is listed
\* above one that it keeps.
THEOREM ListIsReadWhole ==
  ASSUME WholeWindows
  PROVE  AdminSpec => []ListReadWhole
<1>1. AdminInit => WalkInv
  BY PageFields DEF AdminInit, WalkInv, NoWalk
<1>2. TableInv /\ WalkInv /\ [AdminNext]_vars => WalkInv'
  <2> SUFFICES ASSUME TableInv, WalkInv, [AdminNext]_vars PROVE WalkInv'
    OBVIOUS
  <2>1. clock' \in Nat /\ clock <= clock'
    BY ClockGoesOn
  <2>2. ASSUME NEW url \in Queries, CountCalls(url, FALSE) PROVE WalkInv'
    BY <2>1, <2>2, TypedPage
  <2>3. ASSUME NEW url \in Queries, ShowUsage(url) PROVE WalkInv'
    <3>1. PICK p : page' = p /\ p.at = "chart"
      BY <2>3, PageFields DEF ShowUsage
    <3> QED BY <2>3, <3>1 DEF ShowUsage, NoWalk, WalkInv
  <2>4. CASE page.at = "list" /\ page.next # NoLink /\ CountCalls(page.next, TRUE)
    BY <2>1, <2>4, NextPage
  <2>5. CASE QueryFails
    BY <2>5, PageFields DEF QueryFails, NoWalk, WalkInv
  <2>6. CASE FindCalls
    BY <2>1, <2>6, ShownPage
  <2>7. ASSUME NEW w \in Writers, NEW row \in taken[w], Insert(w, row) PROVE WalkInv'
    BY <2>1, <2>7, InsertedCall
  <2>8. CASE UNCHANGED <<calls, page, walk>>
    BY <2>1, <2>8, NothingRead
  <2> QED BY <2>2, <2>3, <2>4, <2>5, <2>6, <2>7, <2>8
          DEF AdminNext, Open, FindFails, TakeTime, InsertFails, Others, vars
<1>3. WalkInv => ListReadWhole
  BY DEF WalkInv, ListInv, Unseen, Rest, Turn, ListReadWhole
<1> QED
  BY <1>1, <1>2, <1>3, TableInit, TableStep, PTL DEF AdminSpec
=============================================================================
