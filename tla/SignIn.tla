------------------------------- MODULE SignIn -------------------------------
(***************************************************************************)
(* Signing in with Google, seen from one browser: tabs that share one       *)
(* cookie jar, the handlers of oauth.go and session.go, the users table,    *)
(* and the dashboard page.                                                  *)
(*                                                                         *)
(* The server keeps nothing of a sign-in.  The state that the callback      *)
(* compares and the path to return to are cookies, so the tabs overwrite    *)
(* each other's.  A request carries the cookies as they were when it was    *)
(* sent (sees) and its answer sets cookies when it arrives: a handler and   *)
(* the arrival of its answer are one step, for the server's only state is   *)
(* the users table.  Cookies are signed, so a session is a user's id.       *)
(***************************************************************************)
EXTENDS Naturals, FiniteSets

CONSTANTS
    Tabs,
    Accounts,    \* Google accounts the user may choose
    Allowed,     \* those of an allowed domain, when domains are configured
    Empty,       \* the account without id and e-mail
    Home,        \* the path of the dashboard
    Slugs,       \* the other paths of the site
    Asked,       \* the paths the user asks for
    States,      \* values of the state parameter
    Faults,      \* subset of {"google_error", "db_error", "expiry", "rename"}
    MaxMishaps,  \* how many faults a behaviour has
    None

Paths == {Home} \cup Slugs

\* What a request is for, and what a tab can show.
Requests == {"page", "login", "callback", "logout"}
Answers ==
    {"dashboard", "login_page", "file", "not_found", "invalid_state", "missing_code",
     "failed", "denied"}

ASSUME NoneAssumption ==
    None \notin Accounts \cup {Empty} \cup States \cup Paths \cup Requests \cup Answers
ASSUME HomeAssumption == Home \notin Slugs /\ Asked \subseteq Paths
ASSUME AllowedAssumption == Allowed \subseteq Accounts /\ Empty \notin Accounts
\* States are random: there is always one that nobody holds.
ASSUME StateAssumption ==
    \A j \in States \cup {None}, f, g \in [Tabs -> States \cup {None}] :
        \E s \in States : s # j /\ \A t \in Tabs : s \notin {f[t], g[t]}
ASSUME BoundAssumption == MaxMishaps \in Nat

VARIABLES
    jar,      \* the browser's cookies, and (history) who signed in for the session,
              \* and the account that Google's answer named then
    tabs,     \* what each tab is doing
    users,    \* the users table: account -> id
    mishaps,  \* how many faults are left
    admits    \* the accounts the configuration lets in: it never changes

\* A request: a page, the login (path: where to return to), the callback, the logout.
Request ==
    [to: Requests \cup {None}, path: Paths \cup {None}, state: States \cup {None}]
Blank == [to |-> None, path |-> None, state |-> None]

Jar ==
    [session: Nat \cup {None}, who: Accounts \cup {None},
     named: Accounts \cup {Empty, None}, state: States \cup {None}, next: Paths \cup {None}]
EmptyJar ==
    [session |-> None, who |-> None, named |-> None, state |-> None, next |-> None]

\* A tab rests (it shows an answer), goes to url, waits for the answer, or is at
\* Google's consent page.  sees: the cookies its request carried.  What properties
\* remember: goal, the path the user asked for; met, whether another answer or the
\* clock has changed the sign-in cookies since this tab's login; odd, whether a
\* redirect went to a path that is cleaned to another one; as and named, the jar's
\* who and named of the session a 404 was answered to.
Tab ==
    [pc: {"rest", "go", "wait", "consent"}, url: Request, sees: Jar,
     shows: Answers \cup {None}, goal: Paths, met: BOOLEAN, odd: BOOLEAN,
     as: Accounts \cup {None}, named: Accounts \cup {Empty, None}]
NewTab ==
    [pc |-> "rest", url |-> Blank, sees |-> EmptyJar, shows |-> None, goal |-> Home,
     met |-> FALSE, odd |-> FALSE, as |-> None, named |-> None]

\* The first of the accounts, if any, has signed in before: its id is 1.
SignInInit(known) ==
    /\ jar = EmptyJar
    /\ tabs = [t \in Tabs |-> NewTab]
    /\ users = [a \in known |-> 1]
    /\ mishaps = MaxMishaps
    /\ admits \in {Allowed, Accounts \cup {Empty}}

----------------------------------------------------------------------------
Become(t, b) == tabs' = [tabs EXCEPT ![t] = b]

\* The tab is to follow a redirect.
Follow(b, url) == [b EXCEPT !.pc = "go", !.url = url, !.sees = EmptyJar]

SignedOut(j) == [j EXCEPT !.session = None, !.who = None, !.named = None]

\* The cookies a request's handler reads, as they are when it is sent.
Reads(to) ==
    CASE to = "page"     -> [jar EXCEPT !.state = None, !.next = None]
      [] to = "callback" -> SignedOut(jar)
      [] OTHER           -> EmptyJar

\* The tab has sent a request.
Sent(b, url) == [b EXCEPT !.pc = "wait", !.url = url, !.sees = Reads(url.to)]

\* The tab shows an answer.
Showing(b, answer) ==
    [b EXCEPT !.pc = "rest", !.url = Blank, !.shows = answer, !.met = FALSE,
              !.as = IF answer = "not_found" THEN b.sees.who ELSE None,
              !.named = IF answer = "not_found" THEN b.sees.named ELSE None,
              !.sees = EmptyJar]

Page(p) == [Blank EXCEPT !.to = "page", !.path = p]

Mishap(kind) ==
    kind \in Faults /\ mishaps > 0 /\ mishaps' = mishaps - 1

\* Tab t becomes b, and the sign-in cookies of the other tabs' logins are gone.
Interfere(t, b) ==
    tabs' = [u \in Tabs |->
                IF u = t THEN b
                ELSE [tabs[u] EXCEPT !.met = @ \/ tabs[u].url.to = "callback"]]

----------------------------------------------------------------------------
(* The user                                                                 *)

\* The user asks for a path, and gives up whatever the tab was doing.
Visit(t) ==
    \E p \in Asked :
        /\ tabs[t].pc \in {"rest", "consent"}
        /\ Become(t, Sent([NewTab EXCEPT !.goal = p], Page(p)))
        /\ UNCHANGED <<jar, users, mishaps>>

\* The login page's button: a login without a path to return to.
ClickLogin(t) ==
    /\ tabs[t].pc = "rest" /\ tabs[t].shows = "login_page"
    /\ Become(t, Sent(NewTab, [Blank EXCEPT !.to = "login"]))
    /\ UNCHANGED <<jar, users, mishaps>>

ClickLogout(t) ==
    /\ tabs[t].pc = "rest" /\ tabs[t].shows = "dashboard"
    /\ Become(t, Sent(NewTab, [Blank EXCEPT !.to = "logout"]))
    /\ UNCHANGED <<jar, users, mishaps>>

\* At Google the user chooses an account or refuses, and is sent back.  Which it
\* was shows when the callback looks for the code and exchanges it.
Consent(t) ==
    /\ tabs[t].pc = "consent"
    /\ Become(t, Sent(tabs[t], tabs[t].url))
    /\ UNCHANGED <<jar, users, mishaps>>

\* The browser follows a redirect with the cookies of the moment.
Send(t) ==
    /\ tabs[t].pc = "go"
    /\ Become(t, Sent(tabs[t], tabs[t].url))
    /\ UNCHANGED <<jar, users, mishaps>>

Asks(t, to) == tabs[t].pc = "wait" /\ tabs[t].url.to = to

----------------------------------------------------------------------------
(* handleLogin                                                              *)

\* A random state nobody holds.
FreshState ==
    CHOOSE s \in States :
        s # jar.state /\ \A u \in Tabs : s \notin {tabs[u].url.state, tabs[u].sees.state}

\* Mutant: without a path to return to, the cookie of an earlier login is kept.
SignInCookiesKept(j, s, next) ==
    [j EXCEPT !.state = s, !.next = IF next = None THEN @ ELSE next]

\* Mutant: a state that is still there is kept.
SignInCookiesOnce(j, s, next) ==
    [j EXCEPT !.state = IF @ = None THEN s ELSE @, !.next = next]

\* Both cookies are set by one answer; without a path its cookie is cleared.
SignInCookies(j, s, next) == [j EXCEPT !.state = s, !.next = next]

Login(t) ==
    LET b == tabs[t]
        s == FreshState
    IN
    /\ Asks(t, "login")
    /\ jar' = SignInCookies(jar, s, b.url.path)
    /\ Interfere(t, [b EXCEPT !.pc = "consent", !.met = FALSE, !.sees = EmptyJar,
                         !.url = [Blank EXCEPT !.to = "callback", !.state = s]])
    /\ UNCHANGED <<users, mishaps>>

----------------------------------------------------------------------------
(* handleCallback                                                           *)

\* Mutant: a user who signs in again gets a new row.
UpsertAnew(a) ==
    [b \in DOMAIN users \cup {a} |-> IF b = a THEN Cardinality(DOMAIN users) + 1
                                              ELSE users[b]]

\* UpsertUser: ON CONFLICT(google_id) keeps the row and its id.
Upsert(a) ==
    [b \in DOMAIN users \cup {a} |-> IF b \in DOMAIN users THEN users[b]
                                     ELSE Cardinality(DOMAIN users) + 1]

\* The state must be the cookie's; then both cookies are cleared by the answer.
StateMatches(b) == b.sees.state # None /\ b.sees.state = b.url.state
Spent(j) == [j EXCEPT !.state = None, !.next = None]

RefuseState(t) ==
    /\ Asks(t, "callback") /\ ~StateMatches(tabs[t])
    /\ Become(t, [Showing(tabs[t], "invalid_state") EXCEPT !.met = tabs[t].met])
    /\ UNCHANGED <<jar, users, mishaps>>

\* No code; an account that is not admitted (isAllowedEmail), as the one of an error
\* read as an answer is when there are domains; Google's or the database's failure.
RefuseUser(t) ==
    LET b == tabs[t]
        refused(answer) == Interfere(t, Showing(b, answer))
    IN
    /\ Asks(t, "callback") /\ StateMatches(b)
    /\ jar' = Spent(jar)
    /\ \/ refused("missing_code") /\ UNCHANGED mishaps
       \/ Accounts \ admits # {} /\ refused("denied") /\ UNCHANGED mishaps
       \/ Empty \notin admits /\ Mishap("google_error") /\ refused("denied")
       \/ Mishap("google_error") /\ refused("failed")
       \/ Mishap("db_error") /\ refused("failed")
    /\ UNCHANGED users

\* fetchGoogleUserInfo does not look at the status: an error with a JSON body is the
\* answer of an account without id or e-mail.  With no domains to check it is signed
\* in like any other, and everybody it happens to as the same user.
SignIn(t) ==
    LET b == tabs[t]
        next == IF b.sees.next = None THEN Home ELSE b.sees.next
    IN
    /\ Asks(t, "callback") /\ StateMatches(b)
    /\ \E a \in Accounts : \E n \in admits :
          /\ \/ n = a /\ UNCHANGED mishaps
             \/ n = Empty /\ Mishap("google_error")
          /\ users' = Upsert(n)
          /\ jar' = [Spent(jar) EXCEPT !.session = users'[n], !.who = a, !.named = n]
    /\ Interfere(t, Follow(b, Page(next)))

----------------------------------------------------------------------------
(* handleLogout, the dashboard, and the clock                               *)

Logout(t) ==
    /\ Asks(t, "logout")
    /\ jar' = SignedOut(jar)
    /\ Become(t, Follow(tabs[t], Page(Home)))
    /\ UNCHANGED <<users, mishaps>>

AsksPage(t, p) == Asks(t, "page") /\ tabs[t].url.path = p

\* requireUser: without a session the login page; when the session's user
\* cannot be read, for whatever reason, the session is cleared.
Dashboard(t) ==
    LET b == tabs[t]
        found == \E a \in DOMAIN users : users[a] = b.sees.session
    IN
    /\ AsksPage(t, Home)
    /\ \/ /\ b.sees.session = None
          /\ Become(t, Showing(b, "login_page")) /\ UNCHANGED <<jar, mishaps>>
       \/ /\ b.sees.session # None /\ found
          /\ Become(t, Showing(b, "dashboard")) /\ UNCHANGED <<jar, mishaps>>
       \/ /\ b.sees.session # None
          /\ \/ ~found /\ UNCHANGED mishaps
             \/ found /\ Mishap("db_error")
          /\ jar' = SignedOut(jar)
          /\ Become(t, Follow(b, Page(Home)))
    /\ UNCHANGED users

\* The sign-in cookies were set together and expire together (300 seconds),
\* the session by itself (30 days).
Expire ==
    /\ Mishap("expiry")
    /\ \/ jar' = Spent(jar) /\ tabs' = [t \in Tabs |->
              [tabs[t] EXCEPT !.met = @ \/ tabs[t].url.to = "callback"]]
       \/ jar' = SignedOut(jar) /\ UNCHANGED tabs
    /\ jar' # jar
    /\ UNCHANGED users

Answered(t) ==
    Login(t) \/ RefuseState(t) \/ RefuseUser(t) \/ SignIn(t) \/ Logout(t) \/ Dashboard(t)

UserStep(t) == Visit(t) \/ ClickLogin(t) \/ ClickLogout(t) \/ Consent(t)
=============================================================================
