-------------------------------- MODULE Links --------------------------------
(***************************************************************************)
(* The links people share: the sign-in of SignIn with the public file       *)
(* handler and one file, whose owner may rename it and change who can open  *)
(* it while links to it are followed.                                       *)
(*                                                                         *)
(* A path of Slugs is /{id}/{slug}, and Bare is /{id}.  http.Redirect       *)
(* cleans the path it is given.                                             *)
(***************************************************************************)
EXTENDS SignIn

CONSTANTS
    Owner,      \* the account the file belongs to
    Bare,       \* the file's path without a slug
    Dot, Dots   \* the slugs "." and ".."

ASSUME LinkAssumption ==
    /\ Owner \in Accounts
    /\ {Bare, Dot, Dots} \subseteq Slugs /\ Cardinality({Bare, Dot, Dots}) = 3
ASSUME AskedAssumption == Asked \cap {Dot, Dots} = {}

VARIABLE file   \* the file's row: slug, visibility and owner's id

vars == <<jar, tabs, users, mishaps, admits, file>>

Visibilities == {"public", "internal", "private"}

Init ==
    /\ SignInInit({Owner})
    /\ file \in [slug: Asked \ {Home}, visibility: Visibilities,
                 owner: {users[Owner]}]

\* The path that is left of one with a dot segment.
Cleaned(s) == CASE s = Dot -> Bare [] s = Dots -> Home [] OTHER -> s

\* Mutant: the canonical path is taken to be the one without a slug.
CanonicalBare(f) == Bare

\* File.Path, as http.Redirect sends it.
Canonical(f) == Cleaned(f.slug)

OpenTo(f, session) ==
    f.visibility = "public" \/ f.visibility = "internal" \/ session = f.owner

\* PublicFileHandler for a browser.
Link(t) ==
    LET b == tabs[t]
        session == b.sees.session
        signedOut == file.visibility # "public" /\ session = None
    IN
    /\ \E p \in Slugs : AsksPage(t, p)
    /\ \/ /\ signedOut
          /\ Become(t, Sent(b, [Blank EXCEPT !.to = "login", !.path = b.url.path]))
          /\ UNCHANGED mishaps
       \/ /\ ~signedOut /\ ~OpenTo(file, session)
          /\ Become(t, Showing(b, "not_found")) /\ UNCHANGED mishaps
       \/ /\ ~signedOut /\ OpenTo(file, session) /\ b.url.path # file.slug
          /\ Become(t, [Follow(b, Page(Canonical(file))) EXCEPT
                           !.odd = @ \/ file.slug \in {Dot, Dots}])
          /\ UNCHANGED mishaps
       \/ /\ ~signedOut /\ OpenTo(file, session) /\ b.url.path = file.slug
          /\ Become(t, Showing(b, "file")) /\ UNCHANGED mishaps
       \/ Mishap("db_error") /\ Become(t, Showing(b, "failed"))
    /\ UNCHANGED <<jar, users, file, admits>>

\* The owner sets the slug or the visibility, by a request of FileService.
Edit ==
    /\ Mishap("rename")
    /\ \/ \E s \in Slugs : file' = [file EXCEPT !.slug = s]
       \/ \E v \in Visibilities : file' = [file EXCEPT !.visibility = v]
    /\ file' # file
    /\ UNCHANGED <<jar, tabs, users, admits>>

\* What the server and the browser do for tab t without the user.
Proceed(t) ==
    \/ (Send(t) \/ Answered(t)) /\ UNCHANGED <<file, admits>>
    \/ Link(t)

Next ==
    \/ \E t \in Tabs : (UserStep(t) /\ UNCHANGED <<file, admits>>) \/ Proceed(t)
    \/ Expire /\ UNCHANGED <<file, admits>>
    \/ Edit

Spec == Init /\ [][Next]_vars

\* A browser sends its requests and the server answers them.
Fairness == \A t \in Tabs : WF_vars(Proceed(t))
FairSpec == Spec /\ Fairness

----------------------------------------------------------------------------
TypeOK ==
    /\ jar \in Jar
    /\ tabs \in [Tabs -> Tab]
    /\ \A a \in DOMAIN users : a \in Accounts \cup {Empty} /\ users[a] \in Nat
    /\ \A a, b \in DOMAIN users : a # b => users[a] # users[b]
    /\ mishaps \in 0..MaxMishaps
    /\ admits \subseteq Accounts \cup {Empty}
    /\ file \in [slug: Slugs, visibility: Visibilities, owner: Nat]

\* Whatever the tabs do to each other's cookies, a journey ends where the user
\* asked to go or with an error, never somewhere else: a sign-in that succeeds
\* returns to the page that asked for it, since the state and the path to return
\* to are set and cleared together (oauth.go:58-78, 90-102).  The exception is a
\* file whose slug a redirect loses.
JourneysArrive ==
    \A t \in Tabs :
        /\ tabs[t].shows = "file" => tabs[t].goal \in Slugs
        /\ tabs[t].shows \in {"dashboard", "login_page"} =>
               tabs[t].goal = Home \/ tabs[t].odd

\* A sign-in is refused for its state (oauth.go:85) only when another tab's login
\* or callback was answered since its own login, or its cookies expired.
OnlyInterferenceRefuses ==
    \A t \in Tabs : tabs[t].shows = "invalid_state" => tabs[t].met

\* The owner of a file never gets its 404, however often he has signed in since
\* he stored it: his id stays the one the file's row names (db.go:136-139).  The
\* exception is a session that an error of Google's was taken for his account in
\* (oauth.go:158-163), and with allowed domains there is none (oauth.go:124).
OwnersAreServed ==
    \A t \in Tabs :
        tabs[t].shows = "not_found" /\ tabs[t].as = Owner =>
            tabs[t].named = Empty /\ Empty \in admits

\* How many more requests a tab can be led to before the user is asked again: the
\* path a callback returns to, the canonical path, the page there, the login; and
\* those that a mishap can add.
Busy(b) == b.pc \in {"go", "wait"}

Ahead(b, f) ==
    CASE b.url.to = "login"                                           -> 1
      [] b.url.to = "page" /\ b.url.path \in {Home, f.slug}           -> 2
      [] b.url.to = "page" /\ b.url.path \notin {Home, f.slug}        -> 4
      [] OTHER                                                        -> 6

Hops(b, f, m) ==
    IF Busy(b) THEN 7 * m + Ahead(b, f) + (IF b.pc = "go" THEN 1 ELSE 0) ELSE 0

\* No redirect leads back: whatever a tab is answered, fewer hops are left, and what
\* other tabs, the owner and the clock do meanwhile never adds any, unless the file's
\* slug is "." (serve.go:45-70, oauth.go:83-138, web.go:209-223).
RedirectsRunOut ==
    [][\A t \in Tabs :
           LET hops == Hops(tabs[t], file, mishaps)
               left == Hops(tabs'[t], file', mishaps')
           IN Busy(tabs[t]) /\ file.slug # Dot =>
                  left <= hops /\ (Proceed(t) => left < hops)]_vars

\* Redirects end: from any request on, a tab comes to rest or to the consent
\* page, unless the file's slug is ".", whose redirect is cleaned to the path it
\* came from (serve.go:67-70).
JourneysEnd ==
    \A t \in Tabs :
        tabs[t].pc \in {"go", "wait"} ~>
            tabs[t].pc \in {"rest", "consent"} \/ file.slug = Dot
=============================================================================
