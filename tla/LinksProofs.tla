----------------------------- MODULE LinksProofs -----------------------------
(* Theorems about Links, for any number of tabs, accounts and mishaps.       *)
EXTENDS Links, FiniteSetTheorems, TLAPS

(***************************************************************************)
(* The invariant.  What a tab is doing tells where it will end: a path it   *)
(* asks for is one its user may be shown, and a pair of sign-in cookies     *)
(* that still matches the tab's state returns it to such a path.            *)
(***************************************************************************)

\* Where a tab may be returned to.
MayEnd(b, next) ==
    IF next = None THEN b.goal = Home \/ b.odd ELSE next \in Slugs /\ b.goal \in Slugs

\* Requests under way: what a tab asks for is of its journey.
AimInv(b, j) ==
    /\ b.pc \in {"go", "wait"} /\ b.url.to = "page" =>
           MayEnd(b, IF b.url.path = Home THEN None ELSE b.url.path)
    /\ b.pc = "wait" /\ b.url.to = "login" => MayEnd(b, b.url.path)
    /\ b.pc = "wait" /\ b.url.to = "logout" => MayEnd(b, None)
    /\ b.url.to = "callback" =>
           /\ b.url.state \in States
           /\ j.state = b.url.state => MayEnd(b, j.next)
           /\ b.sees.state = b.url.state => MayEnd(b, b.sees.next)

\* The cookies that a tab's callback will be compared with, unless it was met.
StateInv(b, j) ==
    /\ b.pc = "go" => b.url.to = "page"
    /\ b.pc = "consent" => b.url.to = "callback"
    /\ b.pc = "consent" => b.met \/ j.state = b.url.state
    /\ b.pc = "wait" /\ b.url.to = "callback" => b.met \/ b.sees.state = b.url.state
    /\ b.pc # "rest" => b.shows = None

\* A session that Google's error made, which only a configuration without domains
\* lets in.
Mistaken(named) == named = Empty /\ Empty \in admits

\* Any other session cookie of the owner names the id that the file's row names.
SessionInv(j, owner) == j.who = Owner => j.session = owner \/ Mistaken(j.named)

\* What a tab shows.
ShownInv(b) ==
    /\ b.shows = "file" => b.goal \in Slugs
    /\ b.shows \in {"dashboard", "login_page"} => b.goal = Home \/ b.odd
    /\ b.shows = "invalid_state" => b.met
    /\ b.shows = "not_found" /\ b.as = Owner => Mistaken(b.named)

TabInv(b, j, owner) ==
    AimInv(b, j) /\ StateInv(b, j) /\ SessionInv(b.sees, owner) /\ ShownInv(b)

TabsInv == \A t \in Tabs : TabInv(tabs[t], jar, file.owner)

\* The users table: ids are counted, and the owner keeps his.
UsersInv ==
    /\ IsFiniteSet(DOMAIN users) /\ DOMAIN users \subseteq Accounts \cup {Empty}
    /\ \A a \in DOMAIN users : users[a] \in 1..Cardinality(DOMAIN users)
    /\ \A a, b \in DOMAIN users : a # b => users[a] # users[b]
    /\ Owner \in DOMAIN users /\ users[Owner] = file.owner

Typed ==
    /\ jar \in Jar /\ tabs \in [Tabs -> Tab] /\ mishaps \in 0..MaxMishaps
    /\ admits \subseteq Accounts \cup {Empty}
    /\ file \in [slug: Slugs, visibility: Visibilities, owner: Nat]

LinksInv == Typed /\ UsersInv /\ SessionInv(jar, file.owner) /\ TabsInv

----------------------------------------------------------------------------
\* The constructors of tabs: their types and fields.
LEMMA SentType ==
    ASSUME jar \in Jar, NEW b \in Tab, NEW url \in Request
    PROVE  /\ Sent(b, url) \in Tab /\ Sent(b, url).pc = "wait"
           /\ Sent(b, url).url = url /\ Sent(b, url).sees = Reads(url.to)
           /\ Sent(b, url).shows = b.shows /\ Sent(b, url).goal = b.goal
           /\ Sent(b, url).met = b.met /\ Sent(b, url).odd = b.odd
  <1>1. Reads(url.to) \in Jar
    BY DEF Reads, SignedOut, Jar, EmptyJar
  <1> QED BY <1>1 DEF Sent, Tab

LEMMA FollowType ==
    ASSUME NEW b \in Tab, NEW url \in Request
    PROVE  /\ Follow(b, url) \in Tab /\ Follow(b, url).pc = "go"
           /\ Follow(b, url).url = url /\ Follow(b, url).sees = EmptyJar
           /\ Follow(b, url).shows = b.shows /\ Follow(b, url).goal = b.goal
           /\ Follow(b, url).met = b.met /\ Follow(b, url).odd = b.odd
  <1>1. EmptyJar \in Jar
    BY DEF EmptyJar, Jar
  <1> QED BY <1>1 DEF Follow, Tab

LEMMA ShowingType ==
    ASSUME NEW b \in Tab, NEW answer \in Answers
    PROVE  /\ Showing(b, answer) \in Tab /\ Showing(b, answer).pc = "rest"
           /\ Showing(b, answer).url = Blank /\ Showing(b, answer).sees = EmptyJar
           /\ Showing(b, answer).shows = answer /\ Showing(b, answer).goal = b.goal
           /\ Showing(b, answer).odd = b.odd
           /\ answer = "not_found" =>
                  Showing(b, answer).as = b.sees.who /\ Showing(b, answer).named = b.sees.named
  <1>1. /\ (IF answer = "not_found" THEN b.sees.who ELSE None) \in Accounts \cup {None}
        /\ (IF answer = "not_found" THEN b.sees.named ELSE None)
              \in Accounts \cup {Empty, None}
    BY DEF Tab, Jar
  <1>2. Blank \in Request /\ EmptyJar \in Jar
    BY DEF Blank, Request, Requests, EmptyJar, Jar
  <1> QED BY <1>1, <1>2 DEF Showing, Tab

LEMMA PageType ==
    ASSUME NEW p \in Paths
    PROVE  Page(p) \in Request /\ Page(p).to = "page" /\ Page(p).path = p
  BY DEF Page, Blank, Request, Requests

LEMMA NewTabType ==
    ASSUME NEW p \in Paths
    PROVE  /\ [NewTab EXCEPT !.goal = p] \in Tab /\ NewTab.shows = None
           /\ Home \in Paths => NewTab \in Tab /\ NewTab.goal = Home
  BY DEF NewTab, Tab, Blank, Request, Requests, EmptyJar, Jar

\* A step of one tab that leaves the sign-in cookies alone.
LEMMA MoveLemma ==
    ASSUME tabs \in [Tabs -> Tab], TabsInv, NEW t \in Tabs, NEW b \in Tab, Become(t, b),
           jar'.state = jar.state, jar'.next = jar.next, file'.owner = file.owner,
           admits' = admits, TabInv(b, jar', file.owner)
    PROVE  tabs' \in [Tabs -> Tab] /\ TabsInv'
  <1>1. tabs' \in [Tabs -> Tab]
    BY DEF Become
  <1>2. ASSUME NEW u \in Tabs PROVE TabInv(tabs[u], jar, file.owner)'
    <2>1. CASE u = t
      BY <2>1 DEF Become, TabInv, SessionInv, ShownInv, Mistaken
    <2>2. CASE u # t
      <3>1. tabs'[u] = tabs[u] /\ TabInv(tabs[u], jar, file.owner)
        BY <2>2 DEF Become, TabsInv
      <3> QED BY <3>1 DEF TabInv, AimInv, StateInv, SessionInv, ShownInv, Mistaken
    <2> QED BY <2>1, <2>2
  <1> QED BY <1>1, <1>2 DEF TabsInv

\* A tab that is met by cookies that do not match its state.
LEMMA MetLemma ==
    ASSUME NEW b \in Tab, NEW j, NEW k, NEW owner, TabInv(b, j, owner),
           b.url.to = "callback" => k.state # b.url.state
    PROVE  /\ [b EXCEPT !.met = @ \/ b.url.to = "callback"] \in Tab
           /\ TabInv([b EXCEPT !.met = @ \/ b.url.to = "callback"], k, owner)
  <1> DEFINE c == [b EXCEPT !.met = @ \/ b.url.to = "callback"]
  <1>1. c \in Tab
    BY DEF Tab
  <1>2. /\ c.met = (b.met \/ b.url.to = "callback")
        /\ c.pc = b.pc /\ c.url = b.url /\ c.sees = b.sees /\ c.shows = b.shows
        /\ c.goal = b.goal /\ c.odd = b.odd /\ c.as = b.as /\ c.named = b.named
    BY DEF Tab
  <1> HIDE DEF c
  <1>3. AimInv(c, k)
    BY <1>2 DEF TabInv, AimInv, MayEnd
  <1>4. StateInv(c, k)
    BY <1>2 DEF TabInv, StateInv
  <1>5. SessionInv(c.sees, owner) /\ ShownInv(c)
    BY <1>2 DEF TabInv, SessionInv, ShownInv
  <1> QED BY <1>1, <1>3, <1>4, <1>5 DEF TabInv, c

\* A step of one tab that changes the sign-in cookies to some that match no other.
LEMMA InterfereLemma ==
    ASSUME tabs \in [Tabs -> Tab], TabsInv, NEW t \in Tabs, NEW b \in Tab,
           Interfere(t, b), file'.owner = file.owner, admits' = admits,
           TabInv(b, jar', file.owner),
           \A u \in Tabs : tabs[u].url.to = "callback" => jar'.state # tabs[u].url.state
    PROVE  tabs' \in [Tabs -> Tab] /\ TabsInv'
  <1> DEFINE met(u) == [tabs[u] EXCEPT !.met = @ \/ tabs[u].url.to = "callback"]
  <1>1. ASSUME NEW u \in Tabs, u # t
        PROVE  met(u) \in Tab /\ TabInv(met(u), jar', file.owner)
    BY MetLemma DEF TabsInv
  <1>2. tabs' = [u \in Tabs |-> IF u = t THEN b ELSE met(u)]
    BY DEF Interfere
  <1> HIDE DEF met
  <1>3. \A c : TabInv(c, jar', file.owner) => TabInv(c, jar, file.owner)'
    BY DEF TabInv, AimInv, StateInv, SessionInv, ShownInv, Mistaken
  <1> QED BY <1>1, <1>2, <1>3 DEF TabsInv

LEMMA LinksInit == Init => LinksInv
  <1> SUFFICES ASSUME Init PROVE LinksInv
    OBVIOUS
  <1> USE DEF Init, SignInInit
  <1>1. Home \in Paths /\ Owner \in Accounts /\ Owner # None /\ Allowed \subseteq Accounts
    BY LinkAssumption, NoneAssumption, AllowedAssumption DEF Paths
  <1>2. Typed
    <2>1. NewTab \in Tab /\ EmptyJar \in Jar
      BY <1>1 DEF NewTab, Tab, Blank, Request, Requests, EmptyJar, Jar
    <2>2. file \in [slug: Slugs, visibility: Visibilities, owner: Nat]
      BY HomeAssumption DEF Paths
    <2> QED BY <1>1, <2>1, <2>2, BoundAssumption DEF Typed
  <1>3. UsersInv
    <2>1. IsFiniteSet({Owner}) /\ Cardinality({Owner}) = 1
      BY FS_Singleton
    <2> QED BY <1>1, <2>1 DEF UsersInv
  <1>4. SessionInv(jar, file.owner)
    BY <1>1 DEF SessionInv, EmptyJar
  <1>5. TabsInv
    BY <1>1, NoneAssumption
       DEF TabsInv, TabInv, AimInv, StateInv, SessionInv, ShownInv, NewTab, Blank, EmptyJar,
           Requests, Answers
  <1> QED BY <1>2, <1>3, <1>4, <1>5 DEF LinksInv

----------------------------------------------------------------------------
\* The strings that tell requests and answers apart from None.
LEMMA NoneFacts ==
    /\ None \notin {"page", "login", "callback", "logout", "file", "dashboard", "login_page",
                   "invalid_state", "not_found"}
    /\ None \notin States /\ None \notin Paths /\ Owner # None /\ Home \in Paths
    /\ Home \notin Slugs /\ Slugs \subseteq Paths
  BY NoneAssumption, LinkAssumption, HomeAssumption DEF Requests, Answers, Paths

\* A step that leaves the users, the file and the sign-in cookies alone.
LEMMA QuietLemma ==
    ASSUME LinksInv, UNCHANGED <<users, file, admits>>, mishaps' \in 0..MaxMishaps,
           jar' \in Jar, jar'.state = jar.state, jar'.next = jar.next,
           SessionInv(jar', file.owner),
           NEW t \in Tabs, NEW b \in Tab, Become(t, b), TabInv(b, jar', file.owner)
    PROVE  LinksInv'
  <1>1. tabs' \in [Tabs -> Tab] /\ TabsInv'
    BY MoveLemma DEF LinksInv, Typed
  <1>2. Typed'
    BY <1>1 DEF LinksInv, Typed
  <1>3. UsersInv' /\ SessionInv(jar, file.owner)'
    BY DEF LinksInv, UsersInv, SessionInv, Mistaken
  <1> QED BY <1>1, <1>2, <1>3 DEF LinksInv

\* The cookies a page's request carries.
LEMMA ReadsPage ==
    ASSUME LinksInv
    PROVE  /\ Reads("page").state = None /\ Reads("page").next = None
           /\ SessionInv(Reads("page"), file.owner)
  <1>1. jar \in Jar /\ SessionInv(jar, file.owner)
    BY DEF LinksInv, Typed
  <1> QED BY <1>1 DEF Reads, Jar, SessionInv

LEMMA VisitStep ==
    ASSUME LinksInv, NEW t \in Tabs, Visit(t), UNCHANGED <<file, admits>>
    PROVE  LinksInv'
  <1>1. PICK p \in Asked : Become(t, Sent([NewTab EXCEPT !.goal = p], Page(p)))
                          /\ UNCHANGED <<jar, users, mishaps>>
    BY DEF Visit
  <1> DEFINE c == [NewTab EXCEPT !.goal = p]
             b == Sent(c, Page(p))
  <1>2. p \in Paths /\ (p = Home \/ p \in Slugs) /\ jar \in Jar
    BY HomeAssumption DEF Paths, LinksInv, Typed
  <1>3. c \in Tab /\ c.goal = p /\ c.shows = None
    BY <1>2, NewTabType DEF NewTab
  <1> HIDE DEF c
  <1>4. /\ b \in Tab /\ b.pc = "wait" /\ b.url = Page(p) /\ b.sees = Reads("page")
        /\ b.goal = p /\ b.shows = None
    <2>1. Page(p) \in Request /\ Page(p).to = "page"
      BY <1>2, PageType
    <2> QED BY <1>2, <1>3, <2>1, SentType
  <1>5. TabInv(b, jar, file.owner)
    <2> HIDE DEF b
    <2>1. b.url.to = "page" /\ b.url.path = p
      BY <1>2, <1>4, PageType
    <2> QED BY <1>2, <1>4, <2>1, ReadsPage, NoneFacts
            DEF TabInv, AimInv, StateInv, ShownInv, MayEnd
  <1> HIDE DEF b
  <1>6. Become(t, b)
    BY <1>1 DEF b, c
  <1> QED BY <1>1, <1>4, <1>5, <1>6, QuietLemma DEF LinksInv, Typed

\* A login or a logout starts from a new tab and carries no cookies.
LEMMA ClickLemma ==
    ASSUME LinksInv, NEW t \in Tabs, NEW to \in {"login", "logout"}, UNCHANGED <<file, admits>>,
           Become(t, Sent(NewTab, [Blank EXCEPT !.to = to])), UNCHANGED <<jar, users, mishaps>>
    PROVE  LinksInv'
  <1> DEFINE url == [Blank EXCEPT !.to = to]
             b == Sent(NewTab, url)
  <1>1. url \in Request /\ url.to = to /\ url.path = None
    BY DEF Blank, Request, Requests
  <1>2. NewTab \in Tab /\ NewTab.goal = Home /\ NewTab.shows = None /\ jar \in Jar
    BY NewTabType, NoneFacts DEF LinksInv, Typed
  <1> HIDE DEF url
  <1>3. /\ b \in Tab /\ b.pc = "wait" /\ b.url = url /\ b.sees = EmptyJar
        /\ b.goal = Home /\ b.shows = None
    BY <1>1, <1>2, SentType DEF Reads
  <1> HIDE DEF b
  <1>4. TabInv(b, jar, file.owner)
    BY <1>1, <1>3, NoneFacts
       DEF TabInv, AimInv, StateInv, SessionInv, ShownInv, MayEnd, EmptyJar
  <1>5. Become(t, b)
    BY DEF b, url
  <1> QED BY <1>3, <1>4, <1>5, QuietLemma DEF LinksInv, Typed

LEMMA ConsentStep ==
    ASSUME LinksInv, NEW t \in Tabs, Consent(t), UNCHANGED <<file, admits>>
    PROVE  LinksInv'
  <1> DEFINE old == tabs[t]
             b == Sent(old, old.url)
  <1>1. old \in Tab /\ old.url \in Request /\ jar \in Jar /\ TabInv(old, jar, file.owner)
    BY DEF LinksInv, Typed, TabsInv, Tab
  <1>2. old.pc = "consent" /\ old.url.to = "callback" /\ old.shows = None
    BY <1>1 DEF Consent, TabInv, StateInv
  <1>3. /\ b \in Tab /\ b.pc = "wait" /\ b.url = old.url /\ b.sees = Reads("callback")
        /\ b.goal = old.goal /\ b.odd = old.odd /\ b.met = old.met /\ b.shows = None
    BY <1>1, <1>2, SentType
  <1>4. /\ b.sees.state = jar.state /\ b.sees.next = jar.next /\ b.sees.who = None
    BY <1>1, <1>3 DEF Reads, SignedOut, Jar
  <1>5. Become(t, b) /\ UNCHANGED <<jar, users, mishaps>>
    BY DEF Consent
  <1> HIDE DEF b, old
  <1>6. TabInv(b, jar, file.owner)
    BY <1>1, <1>2, <1>3, <1>4, NoneFacts
       DEF TabInv, AimInv, StateInv, SessionInv, ShownInv, MayEnd
  <1> QED BY <1>3, <1>5, <1>6, QuietLemma DEF LinksInv, Typed

LEMMA SendStep ==
    ASSUME LinksInv, NEW t \in Tabs, Send(t), UNCHANGED <<file, admits>>
    PROVE  LinksInv'
  <1> DEFINE old == tabs[t]
             b == Sent(old, old.url)
  <1>1. old \in Tab /\ old.url \in Request /\ jar \in Jar /\ TabInv(old, jar, file.owner)
    BY DEF LinksInv, Typed, TabsInv, Tab
  <1>2. old.pc = "go" /\ old.url.to = "page" /\ old.shows = None
    BY <1>1 DEF Send, TabInv, StateInv
  <1>3. /\ b \in Tab /\ b.pc = "wait" /\ b.url = old.url /\ b.sees = Reads("page")
        /\ b.goal = old.goal /\ b.odd = old.odd /\ b.shows = None
    BY <1>1, <1>2, SentType
  <1>4. Become(t, b) /\ UNCHANGED <<jar, users, mishaps>>
    BY DEF Send
  <1> HIDE DEF b, old
  <1>5. TabInv(b, jar, file.owner)
    BY <1>1, <1>2, <1>3, ReadsPage, NoneFacts
       DEF TabInv, AimInv, StateInv, ShownInv, MayEnd
  <1> QED BY <1>3, <1>4, <1>5, QuietLemma DEF LinksInv, Typed

\* A tab that shows an answer asks for nothing and carries no cookies.
LEMMA RestLemma ==
    ASSUME NEW b \in Tab, b.pc = "rest", b.url = Blank, b.sees = EmptyJar,
           ShownInv(b), NEW j, NEW owner
    PROVE  TabInv(b, j, owner)
  BY NoneFacts DEF TabInv, AimInv, StateInv, SessionInv, Blank, EmptyJar

\* What a tab that waits for an answer has of the invariant.
LEMMA WaitFacts ==
    ASSUME LinksInv, NEW t \in Tabs, tabs[t].pc = "wait"
    PROVE  /\ tabs[t] \in Tab /\ tabs[t].url \in Request /\ tabs[t].sees \in Jar
           /\ tabs[t].shows = None /\ jar \in Jar
           /\ TabInv(tabs[t], jar, file.owner)
  BY DEF LinksInv, Typed, TabsInv, TabInv, StateInv, Tab

\* A step that changes the sign-in cookies to some that match no other tab's state.
LEMMA LoudLemma ==
    ASSUME LinksInv, UNCHANGED <<file, admits>>, UsersInv', mishaps' \in 0..MaxMishaps,
           jar' \in Jar, SessionInv(jar', file.owner),
           NEW t \in Tabs, NEW b \in Tab, Interfere(t, b), TabInv(b, jar', file.owner),
           \A u \in Tabs : tabs[u].url.to = "callback" => jar'.state # tabs[u].url.state
    PROVE  LinksInv'
  <1>1. tabs' \in [Tabs -> Tab] /\ TabsInv'
    BY InterfereLemma DEF LinksInv, Typed
  <1>2. Typed' /\ SessionInv(jar, file.owner)'
    BY <1>1 DEF LinksInv, Typed, SessionInv, Mistaken
  <1> QED BY <1>1, <1>2 DEF LinksInv

LEMMA FreshLemma ==
    ASSUME LinksInv
    PROVE  /\ FreshState \in States /\ FreshState # jar.state
           /\ \A u \in Tabs : FreshState \notin {tabs[u].url.state, tabs[u].sees.state}
  <1> DEFINE f == [u \in Tabs |-> tabs[u].url.state]
             g == [u \in Tabs |-> tabs[u].sees.state]
  <1>1. jar.state \in States \cup {None}
    BY DEF LinksInv, Typed, Jar
  <1>2. f \in [Tabs -> States \cup {None}] /\ g \in [Tabs -> States \cup {None}]
    BY DEF LinksInv, Typed, Tab, Request, Jar
  <1>3. /\ \A u \in Tabs : f[u] = tabs[u].url.state /\ g[u] = tabs[u].sees.state
    OBVIOUS
  <1> HIDE DEF f, g
  <1>4. \E s \in States : s # jar.state /\ \A u \in Tabs : s \notin {f[u], g[u]}
    BY <1>1, <1>2, StateAssumption
  <1>5. \E s \in States :
            s # jar.state /\ \A u \in Tabs : s \notin {tabs[u].url.state, tabs[u].sees.state}
    BY <1>3, <1>4
  <1> QED BY <1>5 DEF FreshState

LEMMA LoginStep ==
    ASSUME LinksInv, NEW t \in Tabs, Login(t), UNCHANGED <<file, admits>>
    PROVE  LinksInv'
  <1> DEFINE old == tabs[t]
             s == FreshState
             url == [Blank EXCEPT !.to = "callback", !.state = s]
             b == [old EXCEPT !.pc = "consent", !.met = FALSE, !.sees = EmptyJar, !.url = url]
  <1>1. old.pc = "wait" /\ old.url.to = "login"
    BY DEF Login, Asks
  <1>2. /\ old \in Tab /\ old.url \in Request /\ old.shows = None /\ jar \in Jar
        /\ TabInv(old, jar, file.owner)
    BY <1>1, WaitFacts
  <1>3. MayEnd(old, old.url.path) /\ old.url.path \in Paths \cup {None}
    BY <1>1, <1>2 DEF TabInv, AimInv, Request
  <1>4. /\ jar' \in Jar /\ jar'.state = s /\ jar'.next = old.url.path
        /\ SessionInv(jar', file.owner)
    <2>1. jar' = [jar EXCEPT !.state = s, !.next = old.url.path]
      BY DEF Login, SignInCookies
    <2>2. SessionInv(jar, file.owner)
      BY DEF LinksInv
    <2> QED BY <1>2, <1>3, <2>1, <2>2, FreshLemma DEF Jar, SessionInv
  <1>5. Interfere(t, b) /\ UNCHANGED <<users, mishaps>>
    BY DEF Login
  <1>6. url \in Request /\ url.to = "callback" /\ url.state = s
    BY FreshLemma DEF Request, Requests, Blank
  <1>7. EmptyJar \in Jar
    BY DEF EmptyJar, Jar
  <1> HIDE DEF old, url
  <1>8. /\ b \in Tab /\ b.pc = "consent" /\ b.url = url /\ b.sees = EmptyJar
        /\ b.goal = old.goal /\ b.odd = old.odd /\ b.shows = None
    BY <1>2, <1>6, <1>7 DEF Tab
  <1> HIDE DEF b, s
  <1>9. s \in States /\ \A u \in Tabs : s # tabs[u].url.state
    BY FreshLemma DEF s
  <1>10. TabInv(b, jar', file.owner)
    BY <1>3, <1>4, <1>6, <1>8, <1>9, NoneFacts
       DEF TabInv, AimInv, StateInv, SessionInv, ShownInv, MayEnd, EmptyJar
  <1>11. UsersInv' /\ mishaps' \in 0..MaxMishaps
    BY <1>5 DEF LinksInv, UsersInv, Typed
  <1> QED BY <1>4, <1>5, <1>8, <1>9, <1>10, <1>11, LoudLemma

\* The sign-in cookies are gone: they match no state.
LEMMA SpentFacts ==
    ASSUME LinksInv
    PROVE  /\ Spent(jar) \in Jar /\ Spent(jar).state = None /\ Spent(jar).next = None
           /\ SessionInv(Spent(jar), file.owner)
           /\ \A u \in Tabs : tabs[u].url.to = "callback" => tabs[u].url.state # None
  <1>1. jar \in Jar /\ SessionInv(jar, file.owner)
    BY DEF LinksInv, Typed
  <1>2. \A u \in Tabs : tabs[u].url.to = "callback" => tabs[u].url.state # None
    BY NoneFacts DEF LinksInv, TabsInv, TabInv, AimInv
  <1> QED BY <1>1, <1>2 DEF Spent, Jar, SessionInv

LEMMA RefuseStateStep ==
    ASSUME LinksInv, NEW t \in Tabs, RefuseState(t), UNCHANGED <<file, admits>>
    PROVE  LinksInv'
  <1> DEFINE old == tabs[t]
             c == Showing(old, "invalid_state")
             b == [c EXCEPT !.met = old.met]
  <1>1. /\ old.pc = "wait" /\ old.url.to = "callback" /\ ~StateMatches(old)
        /\ Become(t, b) /\ UNCHANGED <<jar, users, mishaps>>
    BY DEF RefuseState, Asks
  <1>2. old \in Tab /\ jar \in Jar /\ TabInv(old, jar, file.owner)
    BY <1>1, WaitFacts
  <1>3. old.met
    BY <1>1, <1>2, NoneFacts DEF TabInv, AimInv, StateInv, StateMatches
  <1>4. /\ c \in Tab /\ c.pc = "rest" /\ c.url = Blank /\ c.sees = EmptyJar
        /\ c.shows = "invalid_state"
    BY <1>2, ShowingType DEF Answers
  <1>5. old.met \in BOOLEAN
    BY <1>2 DEF Tab
  <1> HIDE DEF c, old
  <1>6. /\ b \in Tab /\ b.pc = "rest" /\ b.url = Blank /\ b.sees = EmptyJar
        /\ b.shows = "invalid_state" /\ b.met = old.met
    BY <1>4, <1>5 DEF Tab
  <1> HIDE DEF b
  <1>7. ShownInv(b)
    BY <1>3, <1>6 DEF ShownInv
  <1>8. TabInv(b, jar, file.owner)
    BY <1>6, <1>7, RestLemma
  <1> QED BY <1>1, <1>6, <1>8, QuietLemma DEF LinksInv, Typed

LEMMA RefuseUserStep ==
    ASSUME LinksInv, NEW t \in Tabs, RefuseUser(t), UNCHANGED <<file, admits>>
    PROVE  LinksInv'
  <1>1. tabs[t].pc = "wait"
    BY DEF RefuseUser, Asks
  <1>2. PICK answer \in {"missing_code", "denied", "failed"} :
            Interfere(t, Showing(tabs[t], answer))
    BY DEF RefuseUser
  <1>3. mishaps' \in 0..MaxMishaps
    BY BoundAssumption DEF RefuseUser, Mishap, LinksInv, Typed
  <1> DEFINE b == Showing(tabs[t], answer)
  <1>4. /\ b \in Tab /\ b.pc = "rest" /\ b.url = Blank /\ b.sees = EmptyJar
        /\ b.shows = answer
    BY <1>1, WaitFacts, ShowingType DEF Answers
  <1>5. Interfere(t, b)
    BY <1>2
  <1> HIDE DEF b
  <1>6. TabInv(b, jar', file.owner)
    BY <1>4, RestLemma DEF ShownInv
  <1>7. UsersInv' /\ jar' = Spent(jar)
    BY DEF RefuseUser, LinksInv, UsersInv
  <1> QED BY <1>3, <1>4, <1>5, <1>6, <1>7, SpentFacts, LoudLemma

\* A sign-in adds a row or keeps the one there is.
LEMMA UpsertLemma ==
    ASSUME LinksInv, NEW a \in admits, users' = Upsert(a), UNCHANGED <<file, admits>>
    PROVE  /\ UsersInv' /\ users'[a] \in Nat
           /\ a = Owner => users'[a] = file.owner
  <1> DEFINE D == DOMAIN users
             n == Cardinality(D)
  <1>1. UsersInv /\ a \in Accounts \cup {Empty}
    BY DEF LinksInv, Typed
  <1>2. /\ IsFiniteSet(D \cup {a}) /\ n \in Nat
        /\ Cardinality(D \cup {a}) = IF a \in D THEN n ELSE n + 1
    BY <1>1, FS_AddElement, FS_CardinalityType DEF UsersInv
  <1>3. /\ DOMAIN users' = D \cup {a}
        /\ \A b \in D \cup {a} : users'[b] = IF b \in D THEN users[b] ELSE n + 1
    BY DEF Upsert
  <1>4. \A b \in D : users[b] \in 1..n
    BY <1>1 DEF UsersInv
  <1> HIDE DEF D, n
  <1>5. \A b \in DOMAIN users' : users'[b] \in 1..Cardinality(DOMAIN users')
    BY <1>2, <1>3, <1>4
  <1>6. \A b, c \in DOMAIN users' : b # c => users'[b] # users'[c]
    <2>1. \A b, c \in D : b # c => users[b] # users[c]
      BY <1>1 DEF UsersInv, D
    <2> QED BY <1>2, <1>3, <1>4, <2>1
  <1>7. Owner \in D /\ users'[Owner] = file.owner /\ D \subseteq Accounts \cup {Empty}
    BY <1>1, <1>3 DEF UsersInv, D
  <1>8. users'[a] \in Nat
    BY <1>2, <1>3, <1>4
  <1>9. UsersInv'
    BY <1>1, <1>2, <1>3, <1>5, <1>6, <1>7 DEF UsersInv
  <1> QED BY <1>7, <1>8, <1>9

LEMMA MishapLemma ==
    ASSUME LinksInv, mishaps' = mishaps \/ \E kind \in Faults : Mishap(kind)
    PROVE  mishaps' \in 0..MaxMishaps
  BY BoundAssumption DEF Mishap, LinksInv, Typed

LEMMA SignInStep ==
    ASSUME LinksInv, NEW t \in Tabs, SignIn(t), UNCHANGED <<file, admits>>
    PROVE  LinksInv'
  <1> DEFINE old == tabs[t]
             next == IF old.sees.next = None THEN Home ELSE old.sees.next
             b == Follow(old, Page(next))
  <1>1. /\ old.pc = "wait" /\ old.url.to = "callback" /\ old.sees.state = old.url.state
        /\ Interfere(t, b) /\ mishaps' \in 0..MaxMishaps
    BY MishapLemma DEF SignIn, Asks, StateMatches, Mishap
  <1>2. PICK a \in Accounts, n \in admits :
            /\ n = a \/ n = Empty
            /\ users' = Upsert(n)
            /\ jar' = [Spent(jar) EXCEPT !.session = users'[n], !.who = a, !.named = n]
    BY DEF SignIn
  <1>3. /\ old \in Tab /\ old.sees \in Jar /\ old.shows = None
        /\ TabInv(old, jar, file.owner)
    BY <1>1, WaitFacts
  <1>4. MayEnd(old, old.sees.next)
    BY <1>1, <1>3 DEF TabInv, AimInv
  <1>5. next \in Paths /\ MayEnd(old, IF next = Home THEN None ELSE next)
    BY <1>3, <1>4, NoneFacts DEF Jar, MayEnd
  <1>6. /\ jar' \in Jar /\ jar'.state = None /\ SessionInv(jar', file.owner)
    <2>1. users'[n] \in Nat /\ (n = Owner => users'[n] = file.owner)
      BY <1>2, UpsertLemma
    <2>2. n \in Accounts \cup {Empty, None}
      BY DEF LinksInv, Typed
    <2> QED BY <1>2, <2>1, <2>2, SpentFacts DEF Jar, SessionInv, Mistaken
  <1> HIDE DEF old, next
  <1>7. /\ b \in Tab /\ b.pc = "go" /\ b.url = Page(next) /\ b.sees = EmptyJar
        /\ b.goal = old.goal /\ b.odd = old.odd /\ b.shows = None
        /\ Page(next).to = "page" /\ Page(next).path = next
    BY <1>3, <1>5, PageType, FollowType
  <1> HIDE DEF b
  <1>8. TabInv(b, jar', file.owner)
    BY <1>5, <1>7, NoneFacts
       DEF TabInv, AimInv, StateInv, SessionInv, ShownInv, MayEnd, EmptyJar
  <1>9. UsersInv' /\ mishaps' \in 0..MaxMishaps
    BY <1>1, <1>2, UpsertLemma
  <1> QED BY <1>1, <1>6, <1>7, <1>8, <1>9, SpentFacts, LoudLemma

\* A redirect home of a tab that may end there, with or without its session.
LEMMA HomeLemma ==
    ASSUME LinksInv, NEW t \in Tabs, tabs[t].pc = "wait", MayEnd(tabs[t], None),
           jar' = SignedOut(jar), Become(t, Follow(tabs[t], Page(Home))),
           UNCHANGED <<users, file, admits>>, mishaps' \in 0..MaxMishaps
    PROVE  LinksInv'
  <1> DEFINE old == tabs[t]
             b == Follow(old, Page(Home))
  <1>1. old \in Tab /\ old.shows = None /\ jar \in Jar
    BY WaitFacts
  <1>2. /\ jar' \in Jar /\ jar'.state = jar.state /\ jar'.next = jar.next
        /\ SessionInv(jar', file.owner)
    BY <1>1, NoneFacts DEF SignedOut, Jar, SessionInv
  <1> HIDE DEF old
  <1>3. /\ b \in Tab /\ b.pc = "go" /\ b.url = Page(Home) /\ b.sees = EmptyJar
        /\ b.goal = old.goal /\ b.odd = old.odd /\ b.shows = None
        /\ Page(Home).to = "page" /\ Page(Home).path = Home
    BY <1>1, NoneFacts, PageType, FollowType
  <1>4. Become(t, b)
    BY DEF old
  <1>5. MayEnd(old, None)
    BY DEF old
  <1> HIDE DEF b
  <1>6. TabInv(b, jar', file.owner)
    BY <1>3, <1>5, NoneFacts
       DEF TabInv, AimInv, StateInv, SessionInv, ShownInv, MayEnd, EmptyJar
  <1> QED BY <1>2, <1>3, <1>4, <1>6, QuietLemma

\* An answer that the tab shows, and that changes nothing else.
LEMMA ShowLemma ==
    ASSUME LinksInv, NEW t \in Tabs, tabs[t].pc = "wait",
           NEW answer \in {"login_page", "dashboard", "file", "failed", "not_found"},
           Become(t, Showing(tabs[t], answer)), UNCHANGED <<jar, users, file, admits>>,
           mishaps' \in 0..MaxMishaps,
           answer \in {"login_page", "dashboard"} => MayEnd(tabs[t], None),
           answer = "file" => tabs[t].goal \in Slugs,
           answer = "not_found" /\ tabs[t].sees.who = Owner => Mistaken(tabs[t].sees.named)
    PROVE  LinksInv'
  <1> DEFINE b == Showing(tabs[t], answer)
  <1>1. tabs[t] \in Tab /\ jar \in Jar
    BY WaitFacts
  <1>2. /\ b \in Tab /\ b.pc = "rest" /\ b.url = Blank /\ b.sees = EmptyJar
        /\ b.shows = answer /\ b.goal = tabs[t].goal /\ b.odd = tabs[t].odd
        /\ answer = "not_found" => b.as = tabs[t].sees.who /\ b.named = tabs[t].sees.named
    BY <1>1, ShowingType DEF Answers
  <1>3. Become(t, b)
    OBVIOUS
  <1> HIDE DEF b
  <1>4. ShownInv(b)
    BY <1>2 DEF ShownInv, MayEnd
  <1>5. TabInv(b, jar, file.owner)
    BY <1>2, <1>4, RestLemma
  <1> QED BY <1>1, <1>2, <1>3, <1>5, QuietLemma DEF LinksInv

LEMMA LogoutStep ==
    ASSUME LinksInv, NEW t \in Tabs, Logout(t), UNCHANGED <<file, admits>>
    PROVE  LinksInv'
  <1>1. tabs[t].pc = "wait" /\ tabs[t].url.to = "logout"
    BY DEF Logout, Asks
  <1>2. MayEnd(tabs[t], None)
    BY <1>1, WaitFacts DEF TabInv, AimInv
  <1> QED BY <1>1, <1>2, HomeLemma DEF Logout, LinksInv, Typed

LEMMA DashboardStep ==
    ASSUME LinksInv, NEW t \in Tabs, Dashboard(t), UNCHANGED <<file, admits>>
    PROVE  LinksInv'
  <1>1. /\ tabs[t].pc = "wait" /\ tabs[t].url.to = "page" /\ tabs[t].url.path = Home
        /\ UNCHANGED users
    BY DEF Dashboard, AsksPage, Asks
  <1>2. MayEnd(tabs[t], None)
    BY <1>1, WaitFacts DEF TabInv, AimInv
  <1>3. mishaps' \in 0..MaxMishaps
    BY MishapLemma DEF Dashboard, Mishap
  <1>4. \/ \E answer \in {"login_page", "dashboard"} :
               Become(t, Showing(tabs[t], answer)) /\ UNCHANGED jar
        \/ jar' = SignedOut(jar) /\ Become(t, Follow(tabs[t], Page(Home)))
    BY DEF Dashboard
  <1>5. CASE \E answer \in {"login_page", "dashboard"} :
                 Become(t, Showing(tabs[t], answer)) /\ UNCHANGED jar
    BY <1>1, <1>2, <1>3, <1>5, ShowLemma
  <1>6. CASE jar' = SignedOut(jar) /\ Become(t, Follow(tabs[t], Page(Home)))
    BY <1>1, <1>2, <1>3, <1>6, HomeLemma
  <1> QED BY <1>4, <1>5, <1>6

LEMMA ExpireStep ==
    ASSUME LinksInv, Expire, UNCHANGED <<file, admits>>
    PROVE  LinksInv'
  <1> DEFINE met(u) == [tabs[u] EXCEPT !.met = @ \/ tabs[u].url.to = "callback"]
  <1>1. UsersInv' /\ mishaps' \in 0..MaxMishaps
    <2>1. mishaps' \in 0..MaxMishaps
      BY MishapLemma DEF Expire, Mishap
    <2> QED BY <2>1 DEF Expire, LinksInv, UsersInv
  <1>2. CASE jar' = Spent(jar) /\ tabs' = [u \in Tabs |-> met(u)]
    <2>1. ASSUME NEW u \in Tabs
          PROVE  met(u) \in Tab /\ TabInv(met(u), jar', file.owner)
      <3>1. tabs[u] \in Tab /\ TabInv(tabs[u], jar, file.owner)
        BY DEF LinksInv, Typed, TabsInv
      <3>2. tabs[u].url.to = "callback" => jar'.state # tabs[u].url.state
        BY <1>2, SpentFacts
      <3> QED BY <3>1, <3>2, MetLemma
    <2> HIDE DEF met
    <2>2. \A c : TabInv(c, jar', file.owner) => TabInv(c, jar, file.owner)'
      BY DEF TabInv, AimInv, StateInv, SessionInv, ShownInv, Mistaken
    <2>4. tabs' \in [Tabs -> Tab] /\ TabsInv'
      BY <1>2, <2>1, <2>2 DEF TabsInv
    <2>3. jar' \in Jar /\ SessionInv(jar, file.owner)'
      BY <1>2, SpentFacts DEF SessionInv, Mistaken
    <2> QED BY <1>1, <2>3, <2>4 DEF LinksInv, Typed
  <1>3. CASE jar' = SignedOut(jar) /\ UNCHANGED tabs
    <2>1. /\ jar' \in Jar /\ jar'.state = jar.state /\ jar'.next = jar.next
          /\ SessionInv(jar, file.owner)'
      BY <1>3, NoneFacts DEF SignedOut, Jar, SessionInv, Mistaken, LinksInv, Typed
    <2>2. TabsInv'
      BY <1>3, <2>1 DEF LinksInv, TabsInv, TabInv, AimInv, StateInv, SessionInv, ShownInv, Mistaken
    <2> QED BY <1>1, <1>3, <2>1, <2>2 DEF LinksInv, Typed
  <1> QED BY <1>2, <1>3 DEF Expire

LEMMA EditStep ==
    ASSUME LinksInv, Edit
    PROVE  LinksInv'
  <1>1. /\ file' \in [slug: Slugs, visibility: Visibilities, owner: Nat]
        /\ file'.owner = file.owner
    BY DEF Edit, LinksInv, Typed
  <1>2. mishaps' \in 0..MaxMishaps
    BY MishapLemma DEF Edit, Mishap
  <1> QED BY <1>1, <1>2 DEF Edit, LinksInv, Typed, UsersInv, TabsInv, TabInv, AimInv, StateInv,
                            SessionInv, ShownInv, Mistaken

\* A link that needs a login carries its path there.
LEMMA LinkToLogin ==
    ASSUME LinksInv, NEW t \in Tabs, tabs[t].pc = "wait", tabs[t].url.path \in Slugs,
           tabs[t].goal \in Slugs, UNCHANGED <<jar, users, file, admits, mishaps>>,
           Become(t, Sent(tabs[t], [Blank EXCEPT !.to = "login", !.path = tabs[t].url.path]))
    PROVE  LinksInv'
  <1> DEFINE old == tabs[t]
             url == [Blank EXCEPT !.to = "login", !.path = old.url.path]
             b == Sent(old, url)
  <1>1. old \in Tab /\ old.shows = None /\ jar \in Jar
    BY WaitFacts
  <1>2. url \in Request /\ url.to = "login" /\ url.path = old.url.path
    BY NoneFacts DEF Blank, Request, Requests
  <1>3. Become(t, b) /\ old.url.path \in Slugs /\ old.goal \in Slugs
    OBVIOUS
  <1> HIDE DEF old, url
  <1>4. /\ b \in Tab /\ b.pc = "wait" /\ b.url = url /\ b.sees = EmptyJar
        /\ b.goal = old.goal /\ b.odd = old.odd /\ b.shows = None
    BY <1>1, <1>2, SentType DEF Reads
  <1> HIDE DEF b
  <1>5. TabInv(b, jar, file.owner)
    BY <1>2, <1>3, <1>4, NoneFacts
       DEF TabInv, AimInv, StateInv, SessionInv, ShownInv, MayEnd, EmptyJar
  <1> QED BY <1>1, <1>3, <1>4, <1>5, QuietLemma DEF LinksInv, Typed

\* Where a canonical redirect leads.
LEMMA CanonicalLemma ==
    ASSUME LinksInv
    PROVE  /\ Canonical(file) \in Paths
           /\ Canonical(file) = Home => file.slug \in {Dot, Dots}
  <1>1. file.slug \in Slugs
    BY DEF LinksInv, Typed
  <1> QED BY <1>1, LinkAssumption, NoneFacts DEF Canonical, Cleaned

LEMMA LinkRedirect ==
    ASSUME LinksInv, NEW t \in Tabs, tabs[t].pc = "wait", tabs[t].goal \in Slugs,
           UNCHANGED <<jar, users, file, admits, mishaps>>,
           Become(t, [Follow(tabs[t], Page(Canonical(file))) EXCEPT
                         !.odd = @ \/ file.slug \in {Dot, Dots}])
    PROVE  LinksInv'
  <1> DEFINE old == tabs[t]
             url == Page(Canonical(file))
             c == Follow(old, url)
             b == [c EXCEPT !.odd = @ \/ file.slug \in {Dot, Dots}]
  <1>1. old \in Tab /\ old.shows = None /\ jar \in Jar
    BY WaitFacts
  <1>2. url \in Request /\ url.to = "page" /\ url.path = Canonical(file)
    BY CanonicalLemma, PageType
  <1>3. Become(t, b) /\ old.goal \in Slugs
    OBVIOUS
  <1> HIDE DEF old, url
  <1>4. /\ c \in Tab /\ c.pc = "go" /\ c.url = url /\ c.sees = EmptyJar
        /\ c.goal = old.goal /\ c.shows = None
    BY <1>1, <1>2, FollowType
  <1> HIDE DEF c
  <1>5. /\ b \in Tab /\ b.pc = "go" /\ b.url = url /\ b.sees = EmptyJar
        /\ b.goal = old.goal /\ b.shows = None
        /\ b.odd = (c.odd \/ file.slug \in {Dot, Dots})
    BY <1>4 DEF Tab
  <1> HIDE DEF b
  <1>6. MayEnd(b, IF b.url.path = Home THEN None ELSE b.url.path)
    BY <1>2, <1>3, <1>5, CanonicalLemma, NoneFacts DEF MayEnd, Paths
  <1>7. TabInv(b, jar, file.owner)
    BY <1>2, <1>5, <1>6, NoneFacts
       DEF TabInv, AimInv, StateInv, SessionInv, ShownInv, EmptyJar
  <1> QED BY <1>1, <1>3, <1>5, <1>7, QuietLemma DEF LinksInv, Typed

LEMMA LinkStep ==
    ASSUME LinksInv, NEW t \in Tabs, Link(t)
    PROVE  LinksInv'
  <1> DEFINE old == tabs[t]
  <1>1. /\ old.pc = "wait" /\ old.url.to = "page" /\ old.url.path \in Slugs
        /\ UNCHANGED <<jar, users, file, admits>>
    BY DEF Link, AsksPage, Asks
  <1>2. TabInv(old, jar, file.owner)
    BY <1>1, WaitFacts
  <1>3. old.goal \in Slugs
    BY <1>1, <1>2, NoneFacts DEF TabInv, AimInv, MayEnd
  <1>4. mishaps' \in 0..MaxMishaps
    BY MishapLemma DEF Link, Mishap
  <1>5. CASE /\ UNCHANGED mishaps
             /\ Become(t, Sent(old, [Blank EXCEPT !.to = "login", !.path = old.url.path]))
    BY <1>1, <1>3, <1>5, LinkToLogin
  <1>6. CASE ~OpenTo(file, old.sees.session) /\ Become(t, Showing(old, "not_found"))
    <2>1. old.sees.who = Owner => Mistaken(old.sees.named)
      BY <1>2, <1>6 DEF OpenTo, TabInv, SessionInv
    <2> QED BY <1>1, <1>4, <1>6, <2>1, ShowLemma
  <1>7. CASE /\ UNCHANGED mishaps
             /\ Become(t, [Follow(old, Page(Canonical(file))) EXCEPT
                               !.odd = @ \/ file.slug \in {Dot, Dots}])
    BY <1>1, <1>3, <1>7, LinkRedirect
  <1>8. CASE Become(t, Showing(old, "file"))
    BY <1>1, <1>3, <1>4, <1>8, ShowLemma
  <1>9. CASE Become(t, Showing(old, "failed"))
    BY <1>1, <1>4, <1>9, ShowLemma
  <1> QED BY <1>5, <1>6, <1>7, <1>8, <1>9 DEF Link

LEMMA LinksStep ==
    ASSUME LinksInv, [Next]_vars
    PROVE  LinksInv'
  <1>1. CASE UNCHANGED vars
    BY <1>1 DEF vars, LinksInv, Typed, UsersInv, TabsInv, TabInv, AimInv, StateInv, SessionInv,
                ShownInv, Mistaken
  <1>2. CASE Expire /\ UNCHANGED <<file, admits>>
    BY <1>2, ExpireStep
  <1>3. CASE Edit
    BY <1>3, EditStep
  <1>4. ASSUME NEW t \in Tabs, UserStep(t), UNCHANGED <<file, admits>>
        PROVE  LinksInv'
    <2>1. CASE Visit(t)
      BY <1>4, <2>1, VisitStep
    <2>2. CASE ClickLogin(t)
      BY <1>4, <2>2, ClickLemma DEF ClickLogin
    <2>3. CASE ClickLogout(t)
      BY <1>4, <2>3, ClickLemma DEF ClickLogout
    <2>4. CASE Consent(t)
      BY <1>4, <2>4, ConsentStep
    <2> QED BY <1>4, <2>1, <2>2, <2>3, <2>4 DEF UserStep
  <1>5. ASSUME NEW t \in Tabs, Send(t) \/ Answered(t), UNCHANGED <<file, admits>>
        PROVE  LinksInv'
    BY <1>5, SendStep, LoginStep, RefuseStateStep, RefuseUserStep, SignInStep, LogoutStep,
       DashboardStep DEF Answered
  <1>6. ASSUME NEW t \in Tabs, Link(t)
        PROVE  LinksInv'
    BY <1>6, LinkStep
  <1> QED BY <1>1, <1>2, <1>3, <1>4, <1>5, <1>6 DEF Next, Proceed

LEMMA LinksInvariant == Spec => []LinksInv
  BY LinksInit, LinksStep, PTL DEF Spec

----------------------------------------------------------------------------
\* Every cookie, tab, user and file has its type, and no two accounts have one
\* id: UpsertUser's ids are new or the ones there were (db.go:135-137).
THEOREM LinksTypeCorrect == Spec => []TypeOK
  <1>1. LinksInv => TypeOK
    <2> SUFFICES ASSUME LinksInv PROVE TypeOK
      OBVIOUS
    <2>1. Cardinality(DOMAIN users) \in Nat
      BY FS_CardinalityType DEF LinksInv, UsersInv
    <2> QED BY <2>1 DEF LinksInv, Typed, UsersInv, TypeOK
  <1> QED BY <1>1, LinksInvariant, PTL

\* However many tabs sign in at once, a journey that ends on a page ends where
\* its user asked to go, unless a slug of dots was lost on the way: cookies that
\* match a tab's state are the ones its own login set (oauth.go:58-78, 84-102).
THEOREM EveryJourneyArrives == Spec => []JourneysArrive
  <1>1. LinksInv => JourneysArrive
    BY DEF LinksInv, TabsInv, TabInv, ShownInv, JourneysArrive
  <1> QED BY <1>1, LinksInvariant, PTL

\* A sign-in nobody interfered with is never refused for its state (oauth.go:85).
THEOREM RefusalsHaveACause == Spec => []OnlyInterferenceRefuses
  <1>1. LinksInv => OnlyInterferenceRefuses
    BY DEF LinksInv, TabsInv, TabInv, ShownInv, OnlyInterferenceRefuses
  <1> QED BY <1>1, LinksInvariant, PTL

\* The owner of a file is never answered that it does not exist, however many users
\* there are and however often he signs in again (db.go:136-139), unless his session
\* is one that an error of Google's made (oauth.go:158-163); with allowed domains
\* that is refused (oauth.go:124).
THEOREM OwnersNeverMiss == Spec => []OwnersAreServed
  <1>1. LinksInv => OwnersAreServed
    BY DEF LinksInv, TabsInv, TabInv, ShownInv, Mistaken, OwnersAreServed
  <1> QED BY <1>1, LinksInvariant, PTL

(***************************************************************************)
(* Where redirects end.  A session, in the jar or on its way to a handler,  *)
(* names a user there is, since users are never deleted: only a failing     *)
(* database makes a page clear it and redirect to itself.                   *)
(***************************************************************************)

Known(session) == session # None => \E a \in DOMAIN users : users[a] = session

KnownInv == Known(jar.session) /\ \A t \in Tabs : Known(tabs[t].sees.session)

\* No user is lost, and sessions are those there were, none, or a user's.
Kept ==
    /\ \A a \in DOMAIN users : a \in DOMAIN users' /\ users'[a] = users[a]
    /\ \/ jar'.session \in {jar.session, None}
       \/ \E a \in DOMAIN users' : users'[a] = jar'.session
    /\ \A t \in Tabs :
           tabs'[t].sees.session \in {tabs[t].sees.session, jar.session, None}

LEMMA KeptLemma == ASSUME KnownInv, Kept PROVE KnownInv'
  BY Zenon DEF KnownInv, Kept, Known

\* A tab that sends a request, and one that goes on with no cookies.
LEMMA SendsKept ==
    ASSUME LinksInv, NEW t \in Tabs, NEW b \in Tab, NEW url \in Request,
           Become(t, Sent(b, url)), UNCHANGED <<jar, users>>
    PROVE  Kept
  <1>1. jar \in Jar /\ tabs \in [Tabs -> Tab]
    BY DEF LinksInv, Typed
  <1>2. Sent(b, url).sees.session \in {jar.session, None}
    <2>1. Sent(b, url).sees = Reads(url.to)
      BY <1>1, SentType
    <2>2. Reads(url.to).session \in {jar.session, None}
      BY <1>1 DEF Reads, SignedOut, Jar, EmptyJar
    <2> QED BY <2>1, <2>2
  <1>3. \A u \in Tabs : tabs'[u] = IF u = t THEN Sent(b, url) ELSE tabs[u]
    BY <1>1 DEF Become
  <1> QED BY <1>2, <1>3 DEF Kept

LEMMA BareKept ==
    ASSUME LinksInv, NEW t \in Tabs, NEW b, b.sees.session = None,
           Become(t, b) \/ Interfere(t, b), UNCHANGED users,
           jar'.session \in {jar.session, None}
    PROVE  Kept
  <1>1. tabs \in [Tabs -> Tab]
    BY DEF LinksInv, Typed
  <1>2. \A u \in Tabs : tabs'[u].sees = IF u = t THEN b.sees ELSE tabs[u].sees
    <2>1. CASE Become(t, b)
      BY <1>1, <2>1 DEF Become
    <2>2. CASE Interfere(t, b)
      <3>1. \A u \in Tabs : tabs[u] \in Tab
        BY <1>1
      <3> QED BY <2>2, <3>1 DEF Interfere, Tab
    <2> QED BY <2>1, <2>2
  <1> QED BY <1>2 DEF Kept

LEMMA KnownNext == LinksInv /\ KnownInv /\ [Next]_vars => KnownInv'
  <1> SUFFICES ASSUME LinksInv, KnownInv, [Next]_vars PROVE KnownInv'
    OBVIOUS
  <1> SUFFICES ASSUME ~UNCHANGED vars PROVE Kept
    BY KeptLemma, Zenon DEF vars, KnownInv, Known
  <1>0. jar \in Jar /\ tabs \in [Tabs -> Tab] /\ EmptyJar.session = None
    BY DEF LinksInv, Typed, EmptyJar
  <1>1. ASSUME NEW t \in Tabs, Visit(t) \/ ClickLogin(t) \/ ClickLogout(t)
        PROVE  Kept
    <2>1. /\ \A p \in Asked : [NewTab EXCEPT !.goal = p] \in Tab /\ Page(p) \in Request
          /\ NewTab \in Tab
          /\ \A to \in {"login", "logout"} : [Blank EXCEPT !.to = to] \in Request
      BY NewTabType, PageType, NoneFacts, HomeAssumption DEF Blank, Request, Requests
    <2> QED BY <1>1, <2>1, SendsKept DEF Visit, ClickLogin, ClickLogout
  <1>2. ASSUME NEW t \in Tabs, Consent(t) \/ Send(t) PROVE Kept
    <2>1. tabs[t] \in Tab /\ tabs[t].url \in Request
      BY <1>0 DEF Tab
    <2> QED BY <1>2, <2>1, SendsKept DEF Consent, Send
  <1>3. ASSUME NEW t \in Tabs, Login(t) PROVE Kept
    <2> DEFINE b == [tabs[t] EXCEPT !.pc = "consent", !.met = FALSE, !.sees = EmptyJar,
                        !.url = [Blank EXCEPT !.to = "callback", !.state = FreshState]]
    <2>1. b.sees.session = None
      BY <1>0 DEF Tab
    <2>2. Interfere(t, b) /\ UNCHANGED users
      BY <1>3 DEF Login
    <2>3. jar'.session = jar.session
      BY <1>0, <1>3 DEF Login, SignInCookies, Jar
    <2> HIDE DEF b
    <2> QED BY <2>1, <2>2, <2>3, BareKept
  <1>4. ASSUME NEW t \in Tabs, RefuseState(t) PROVE Kept
    <2> DEFINE b == [Showing(tabs[t], "invalid_state") EXCEPT !.met = tabs[t].met]
    <2>1. b.sees.session = None
      BY <1>0 DEF Showing, Tab
    <2>2. Become(t, b) /\ UNCHANGED <<jar, users>>
      BY <1>4 DEF RefuseState
    <2> HIDE DEF b
    <2> QED BY <2>1, <2>2, BareKept
  <1>5. ASSUME NEW t \in Tabs, RefuseUser(t) PROVE Kept
    <2>1. \E answer \in {"missing_code", "denied", "failed"} :
               Interfere(t, Showing(tabs[t], answer))
      BY <1>5 DEF RefuseUser
    <2>2. \A answer : Showing(tabs[t], answer).sees.session = None
      BY <1>0 DEF Showing, Tab
    <2>3. jar'.session = jar.session /\ UNCHANGED users
      BY <1>0, <1>5 DEF RefuseUser, Spent, Jar
    <2> QED BY <2>1, <2>2, <2>3, BareKept
  <1>6. ASSUME NEW t \in Tabs, SignIn(t) PROVE Kept
    <2>1. PICK a \in Accounts, n \in admits :
              /\ users' = Upsert(n)
              /\ jar' = [Spent(jar) EXCEPT !.session = users'[n], !.who = a, !.named = n]
      BY <1>6 DEF SignIn
    <2>2. /\ DOMAIN users' = DOMAIN users \cup {n}
          /\ \A c \in DOMAIN users : users'[c] = users[c]
      BY <2>1 DEF Upsert
    <2>3. jar'.session = users'[n]
      BY <1>0, <2>1 DEF Spent, Jar
    <2>4. \A u \in Tabs : tabs'[u].sees.session \in {tabs[u].sees.session, None}
      <3>1. \A u \in Tabs : tabs[u] \in Tab
        BY <1>0
      <3>2. \A url : Follow(tabs[t], url).sees = EmptyJar
        BY <3>1 DEF Follow, Tab
      <3> QED BY <1>0, <1>6, <3>1, <3>2 DEF SignIn, Interfere, Tab
    <2> QED BY <2>2, <2>3, <2>4 DEF Kept
  <1>7. ASSUME NEW t \in Tabs, Logout(t) \/ Dashboard(t) PROVE Kept
    <2>1. /\ UNCHANGED users
          /\ jar' = jar \/ jar' = SignedOut(jar)
          /\ \/ Become(t, Follow(tabs[t], Page(Home)))
             \/ \E answer \in {"login_page", "dashboard"} : Become(t, Showing(tabs[t], answer))
      BY <1>7 DEF Logout, Dashboard
    <2>2. /\ \A answer : Showing(tabs[t], answer).sees.session = None
          /\ Follow(tabs[t], Page(Home)).sees.session = None
      BY <1>0 DEF Showing, Follow, Tab
    <2>3. jar'.session \in {jar.session, None}
      BY <1>0, <2>1 DEF SignedOut, Jar
    <2> QED BY <2>1, <2>2, <2>3, BareKept
  <1>8. ASSUME NEW t \in Tabs, Link(t) PROVE Kept
    <2>1. /\ UNCHANGED <<jar, users>> /\ tabs[t] \in Tab
          /\ tabs[t].url.path \in Slugs
      BY <1>0, <1>8 DEF Link, AsksPage, Asks
    <2>2. CASE Become(t, Sent(tabs[t], [Blank EXCEPT !.to = "login",
                                                    !.path = tabs[t].url.path]))
      <3>1. [Blank EXCEPT !.to = "login", !.path = tabs[t].url.path] \in Request
        BY <2>1, NoneFacts DEF Blank, Request, Requests
      <3> QED BY <2>1, <2>2, <3>1, SendsKept
    <2>3. CASE \E answer \in {"not_found", "file", "failed"} :
                   Become(t, Showing(tabs[t], answer))
      <3>1. \A answer : Showing(tabs[t], answer).sees.session = None
        BY <1>0, <2>1 DEF Showing, Tab
      <3> QED BY <2>1, <2>3, <3>1, BareKept
    <2>4. CASE Become(t, [Follow(tabs[t], Page(Canonical(file))) EXCEPT
                             !.odd = @ \/ file.slug \in {Dot, Dots}])
      <3> DEFINE b == [Follow(tabs[t], Page(Canonical(file))) EXCEPT
                          !.odd = @ \/ file.slug \in {Dot, Dots}]
      <3>1. b.sees.session = None
        BY <1>0, <2>1 DEF Follow, Tab
      <3>2. Become(t, b)
        BY <2>4
      <3> HIDE DEF b
      <3> QED BY <2>1, <3>1, <3>2, BareKept
    <2> QED BY <1>8, <2>2, <2>3, <2>4 DEF Link
  <1>9. ASSUME Expire PROVE Kept
    <2>1. \A u \in Tabs : tabs[u] \in Tab
      BY <1>0
    <2>2. \A u \in Tabs : tabs'[u].sees = tabs[u].sees
      BY <1>9, <2>1 DEF Expire, Tab
    <2>3. jar'.session \in {jar.session, None} /\ UNCHANGED users
      BY <1>0, <1>9 DEF Expire, Spent, SignedOut, Jar
    <2> QED BY <2>2, <2>3 DEF Kept
  <1>10. ASSUME Edit PROVE Kept
    BY <1>10 DEF Edit, Kept
  <1> QED
    BY <1>1, <1>2, <1>3, <1>4, <1>5, <1>6, <1>7, <1>8, <1>9, <1>10
       DEF Next, Proceed, UserStep, Answered

\* Hops of tabs that are busy and of tabs that are not; any mishap is worth more
\* hops than a request can lead to.
LEMMA AheadLemma ==
    ASSUME NEW b, NEW f
    PROVE  Ahead(b, f) \in {1, 2, 4, 6}
  BY DEF Ahead

LEMMA HopsLemma ==
    ASSUME NEW b, NEW f, NEW m \in Nat
    PROVE  /\ Hops(b, f, m) \in Nat
           /\ Busy(b) => 7 * m + 1 <= Hops(b, f, m) /\ Hops(b, f, m) <= 7 * m + 7
           /\ ~Busy(b) => Hops(b, f, m) = 0
  BY AheadLemma DEF Hops

LEMMA FewerByMishap ==
    ASSUME NEW b, NEW f, NEW c, NEW g, NEW m \in Nat, Busy(b), m > 0
    PROVE  Hops(c, g, m - 1) < Hops(b, f, m)
  <1>1. PICK h \in Nat, k \in Nat : h = Hops(b, f, m) /\ k = Hops(c, g, m - 1)
    BY HopsLemma
  <1>2. 7 * m + 1 <= h /\ (k = 0 \/ k <= 7 * (m - 1) + 7)
    BY <1>1, HopsLemma
  <1> QED BY <1>1, <1>2

LEMMA FewerAtRest ==
    ASSUME NEW b, NEW f, NEW c, NEW g, NEW m \in Nat, Busy(b), ~Busy(c)
    PROVE  Hops(c, g, m) < Hops(b, f, m)
  <1>1. PICK h \in Nat : h = Hops(b, f, m)
    BY HopsLemma
  <1> QED BY <1>1, HopsLemma

\* The next request is nearer to the end.
LEMMA FewerByAnswer ==
    ASSUME NEW b, NEW f, NEW c, NEW m \in Nat, b.pc = "wait", Busy(c),
           Ahead(c, f) + 1 < Ahead(b, f)
    PROVE  Hops(c, f, m) < Hops(b, f, m)
  <1>1. PICK x \in Nat, y \in Nat : x = Ahead(b, f) /\ y = Ahead(c, f)
    BY AheadLemma
  <1>2. Hops(b, f, m) = 7 * m + x
    BY <1>1 DEF Hops, Busy
  <1>3. Hops(c, f, m) \in {7 * m + y, 7 * m + y + 1}
    BY <1>1 DEF Hops
  <1> QED BY <1>1, <1>2, <1>3

\* What a tab was answered brings it nearer to its end, or a mishap is spent.
Fewer(t) ==
    \/ mishaps > 0 /\ mishaps' = mishaps - 1
    \/ /\ mishaps' = mishaps /\ file' = file
       /\ \/ ~Busy(tabs'[t])
          \/ /\ tabs[t].pc = "go" /\ tabs'[t].pc = "wait"
             /\ tabs'[t].url = tabs[t].url
          \/ /\ tabs[t].pc = "wait" /\ Busy(tabs'[t])
             /\ Ahead(tabs'[t], file) + 1 < Ahead(tabs[t], file)
          \/ /\ tabs[t].pc = "wait" /\ tabs'[t].pc = "wait"
             /\ Ahead(tabs'[t], file) = 1 /\ Ahead(tabs[t], file) \in {2, 4}

LEMMA FewerLemma ==
    ASSUME LinksInv, NEW t \in Tabs, Busy(tabs[t]), Fewer(t)
    PROVE  Hops(tabs'[t], file', mishaps') < Hops(tabs[t], file, mishaps)
  <1>1. PICK m \in Nat : m = mishaps
    BY BoundAssumption DEF LinksInv, Typed
  <1>2. PICK b, c : b = tabs[t] /\ c = tabs'[t]
    OBVIOUS
  <1>3. PICK f, g : f = file /\ g = file'
    OBVIOUS
  <1>4. CASE mishaps > 0 /\ mishaps' = mishaps - 1
    <2>1. Hops(c, g, m - 1) < Hops(b, f, m)
      BY <1>1, <1>2, <1>4, FewerByMishap
    <2> QED BY <1>1, <1>2, <1>3, <1>4, <2>1
  <1>5. CASE mishaps' = mishaps /\ file' = file /\ ~Busy(c)
    <2>1. Hops(c, g, m) < Hops(b, f, m)
      BY <1>1, <1>2, <1>5, FewerAtRest
    <2> QED BY <1>1, <1>2, <1>3, <1>5, <2>1
  <1>6. CASE mishaps' = mishaps /\ f = g /\ b.pc = "go" /\ c.pc = "wait" /\ c.url = b.url
    <2>1. PICK x \in Nat : x = Ahead(b, f) /\ x = Ahead(c, f)
      BY <1>6, AheadLemma DEF Ahead
    <2>2. Hops(b, f, m) = 7 * m + x + 1 /\ Hops(c, f, m) = 7 * m + x
      BY <1>6, <2>1 DEF Hops, Busy
    <2>3. Hops(c, f, m) < Hops(b, f, m)
      BY <2>1, <2>2
    <2> QED BY <1>1, <1>2, <1>3, <1>6, <2>3
  <1>7. CASE /\ mishaps' = mishaps /\ f = g /\ b.pc = "wait" /\ Busy(c)
             /\ Ahead(c, f) + 1 < Ahead(b, f)
    <2>1. Hops(c, f, m) < Hops(b, f, m)
      BY <1>1, <1>7, FewerByAnswer
    <2> QED BY <1>1, <1>2, <1>3, <1>7, <2>1
  <1>8. CASE /\ mishaps' = mishaps /\ f = g /\ b.pc = "wait" /\ c.pc = "wait"
             /\ Ahead(c, f) = 1 /\ Ahead(b, f) \in {2, 4}
    <2>1. Hops(c, f, m) = 7 * m + 1 /\ Hops(b, f, m) \in {7 * m + 2, 7 * m + 4}
      BY <1>8 DEF Hops, Busy
    <2>2. Hops(c, f, m) < Hops(b, f, m)
      BY <2>1
    <2> QED BY <1>1, <1>2, <1>3, <1>8, <2>2
  <1> QED BY <1>2, <1>3, <1>4, <1>5, <1>6, <1>7, <1>8 DEF Fewer

LEMMA ProceedFewer ==
    ASSUME LinksInv, KnownInv, NEW t \in Tabs, Proceed(t), file.slug # Dot
    PROVE  Fewer(t)
  <1>0. /\ jar \in Jar /\ tabs \in [Tabs -> Tab] /\ tabs[t] \in Tab
        /\ mishaps \in Nat
    BY BoundAssumption DEF LinksInv, Typed
  <1>1. \A b \in Tab : Become(t, b) \/ Interfere(t, b) => tabs'[t] = b
    BY <1>0 DEF Become, Interfere
  <1>2. \A answer \in Answers : /\ Showing(tabs[t], answer) \in Tab
                                /\ ~Busy(Showing(tabs[t], answer))
    BY <1>0, ShowingType DEF Busy
  <1>3. \A p \in Paths : /\ Follow(tabs[t], Page(p)) \in Tab
                         /\ Follow(tabs[t], Page(p)).pc = "go"
                         /\ Follow(tabs[t], Page(p)).url.to = "page"
                         /\ Follow(tabs[t], Page(p)).url.path = p
    BY <1>0, PageType, FollowType
  <1>4. \A b \in Tab : /\ b.url.to = "page" => Ahead(b, file) \in {2, 4}
                       /\ b.url.to \in {"callback", "logout"} => Ahead(b, file) = 6
                       /\ b.url.to = "login" => Ahead(b, file) = 1
    BY DEF Ahead
  <1>5. \A p \in {Home, file.slug}, b \in Tab :
            b.url.to = "page" /\ b.url.path = p => Ahead(b, file) = 2
    BY DEF Ahead
  <1>6. CASE Send(t)
    <2>1. tabs[t].url \in Request
      BY <1>0 DEF Tab
    <2>2. /\ Sent(tabs[t], tabs[t].url) \in Tab
          /\ Sent(tabs[t], tabs[t].url).pc = "wait"
          /\ Sent(tabs[t], tabs[t].url).url = tabs[t].url
      BY <1>0, <2>1, SentType
    <2>3. tabs[t].pc = "go" /\ UNCHANGED <<mishaps, file>>
          /\ tabs'[t] = Sent(tabs[t], tabs[t].url)
      BY <1>1, <1>6, <2>2 DEF Send, Proceed, Link, AsksPage, Asks
    <2> QED BY <2>2, <2>3 DEF Fewer
  <1>7. CASE Login(t)
    BY <1>0, <1>7 DEF Login, Interfere, Tab, Busy, Fewer, Proceed, Link, AsksPage, Asks
  <1>8. CASE RefuseState(t) \/ RefuseUser(t)
    <2>1. CASE RefuseState(t)
      <3> DEFINE b == [Showing(tabs[t], "invalid_state") EXCEPT !.met = tabs[t].met]
      <3>1. b \in Tab /\ ~Busy(b)
        BY <1>0, <1>2 DEF Tab, Busy, Answers
      <3>2. Become(t, b) /\ UNCHANGED <<mishaps, file>>
        BY <2>1 DEF RefuseState, Proceed, Link
      <3> HIDE DEF b
      <3> QED BY <1>1, <3>1, <3>2 DEF Fewer
    <2>2. CASE RefuseUser(t)
      <3>1. PICK answer \in Answers : Interfere(t, Showing(tabs[t], answer))
        BY <2>2 DEF RefuseUser, Answers
      <3>2. mishaps' = mishaps \/ (mishaps > 0 /\ mishaps' = mishaps - 1)
        BY <2>2 DEF RefuseUser, Mishap
      <3>3. UNCHANGED file
        BY DEF Proceed, Link
      <3> QED BY <1>1, <1>2, <3>1, <3>2, <3>3 DEF Fewer
    <2> QED BY <1>8, <2>1, <2>2
  <1>9. CASE SignIn(t) \/ Logout(t)
    <2> SUFFICES ASSUME UNCHANGED mishaps PROVE Fewer(t)
      BY <1>9 DEF SignIn, Logout, Mishap, Fewer
    <2>1. /\ tabs[t].pc = "wait" /\ Ahead(tabs[t], file) = 6
          /\ UNCHANGED <<mishaps, file>>
      BY <1>0, <1>4, <1>9 DEF SignIn, Logout, Asks, Proceed, Link
    <2>2. PICK p \in Paths : Become(t, Follow(tabs[t], Page(p)))
                             \/ Interfere(t, Follow(tabs[t], Page(p)))
      <3>1. tabs[t].sees.next \in Paths \cup {None} /\ Home \in Paths
        BY <1>0, NoneFacts DEF Tab, Jar
      <3> QED BY <1>9, <3>1 DEF SignIn, Logout
    <2>3. tabs'[t] = Follow(tabs[t], Page(p))
      BY <1>1, <1>3, <2>2
    <2>4. Busy(tabs'[t]) /\ Ahead(tabs'[t], file) \in {2, 4}
      BY <1>3, <1>4, <2>3 DEF Busy
    <2>5. Ahead(tabs'[t], file) + 1 < Ahead(tabs[t], file)
      BY <2>1, <2>4
    <2> QED BY <2>1, <2>4, <2>5 DEF Fewer
  <1>10. CASE Dashboard(t)
    <2>1. UNCHANGED file
      BY DEF Proceed, Link
    <2>2. tabs[t].sees.session # None => \E a \in DOMAIN users : users[a] = tabs[t].sees.session
      BY DEF KnownInv, Known
    <2>3. \/ mishaps > 0 /\ mishaps' = mishaps - 1
          \/ /\ mishaps' = mishaps
             /\ \E answer \in Answers : Become(t, Showing(tabs[t], answer))
      BY <1>10, <2>2 DEF Dashboard, Mishap, Answers
    <2> QED BY <1>1, <1>2, <2>1, <2>3 DEF Fewer
  <1>11. CASE Link(t)
    <2> DEFINE old == tabs[t]
               url == [Blank EXCEPT !.to = "login", !.path = old.url.path]
    <2>1. /\ old.pc = "wait" /\ old.url.to = "page" /\ old.url.path \in Slugs
          /\ UNCHANGED file /\ Ahead(old, file) \in {2, 4}
      BY <1>0, <1>4, <1>11 DEF Link, AsksPage, Asks
    <2>2. CASE UNCHANGED mishaps /\ Become(t, Sent(old, url))
      <3>1. url \in Request /\ url.to = "login"
        BY <2>1, NoneFacts DEF Blank, Request, Requests
      <3>2. Sent(old, url) \in Tab /\ Sent(old, url).pc = "wait" /\ Sent(old, url).url = url
        BY <1>0, <3>1, SentType
      <3>3. tabs'[t] = Sent(old, url)
        BY <1>1, <2>2, <3>2
      <3>4. Ahead(tabs'[t], file) = 1
        BY <1>4, <3>1, <3>2, <3>3
      <3> QED BY <2>1, <2>2, <3>2, <3>3, <3>4 DEF Fewer
    <2>3. CASE /\ mishaps' = mishaps \/ (mishaps > 0 /\ mishaps' = mishaps - 1)
               /\ \E answer \in Answers : Become(t, Showing(old, answer))
      BY <1>1, <1>2, <2>1, <2>3 DEF Fewer
    <2>4. CASE /\ UNCHANGED mishaps /\ old.url.path # file.slug
               /\ Become(t, [Follow(old, Page(Canonical(file))) EXCEPT
                                 !.odd = @ \/ file.slug \in {Dot, Dots}])
      <3> DEFINE c == Follow(old, Page(Canonical(file)))
                 b == [c EXCEPT !.odd = @ \/ file.slug \in {Dot, Dots}]
      <3>1. Canonical(file) \in {Home, file.slug} /\ Canonical(file) \in Paths
        BY CanonicalLemma DEF Canonical, Cleaned
      <3>2. c \in Tab /\ c.pc = "go" /\ c.url.to = "page" /\ c.url.path = Canonical(file)
        BY <1>3, <3>1
      <3>3. Become(t, b)
        BY <2>4
      <3> HIDE DEF c
      <3>4. b \in Tab /\ b.pc = "go" /\ b.url = c.url
        BY <3>2 DEF Tab
      <3> HIDE DEF b
      <3>5. tabs'[t] = b
        BY <1>1, <3>3, <3>4
      <3>6. Ahead(tabs'[t], file) = 2
        BY <1>5, <3>1, <3>2, <3>4, <3>5
      <3>7. Ahead(old, file) = 4
        BY <2>1, <2>4, NoneFacts DEF Ahead
      <3> QED BY <2>1, <2>4, <3>4, <3>5, <3>6, <3>7 DEF Fewer, Busy
    <2>5. \/ UNCHANGED mishaps /\ Become(t, Sent(old, url))
          \/ /\ mishaps' = mishaps \/ (mishaps > 0 /\ mishaps' = mishaps - 1)
             /\ \E answer \in Answers : Become(t, Showing(old, answer))
          \/ /\ UNCHANGED mishaps /\ old.url.path # file.slug
             /\ Become(t, [Follow(old, Page(Canonical(file))) EXCEPT
                               !.odd = @ \/ file.slug \in {Dot, Dots}])
      BY <1>11 DEF Link, Mishap, Answers
    <2> QED BY <2>2, <2>3, <2>4, <2>5
  <1> QED
    BY <1>6, <1>7, <1>8, <1>9, <1>10, <1>11 DEF Proceed, Answered

\* A step of somebody else: the tab asks for what it did, or a mishap was spent.
LEMMA OthersLemma ==
    ASSUME LinksInv, [Next]_vars, NEW t \in Tabs, Busy(tabs[t]), ~Proceed(t)
    PROVE  \/ Fewer(t)
           \/ /\ mishaps' = mishaps /\ file' = file
              /\ tabs'[t].pc = tabs[t].pc /\ tabs'[t].url = tabs[t].url
  <1>0. tabs \in [Tabs -> Tab] /\ tabs[t].pc \notin {"rest", "consent"}
    BY DEF LinksInv, Typed, Busy
  <1>1. CASE UNCHANGED vars
    BY <1>1 DEF vars
  <1>2. CASE Expire \/ Edit
    BY <1>2 DEF Expire, Edit, Mishap, Fewer
  <1>3. \A u \in Tabs : \A b : u # t /\ (Become(u, b) \/ Interfere(u, b)) =>
            tabs'[t].pc = tabs[t].pc /\ tabs'[t].url = tabs[t].url
    BY <1>0 DEF Become, Interfere, Tab
  <1>4. ASSUME NEW u \in Tabs, UserStep(u), UNCHANGED file
        PROVE  /\ mishaps' = mishaps /\ file' = file
               /\ tabs'[t].pc = tabs[t].pc /\ tabs'[t].url = tabs[t].url
    <2>1. /\ u # t /\ UNCHANGED mishaps
          /\ \E b : Become(u, b)
      BY <1>0, <1>4 DEF UserStep, Visit, ClickLogin, ClickLogout, Consent
    <2> QED BY <1>3, <1>4, <2>1
  <1>5. ASSUME NEW u \in Tabs, Proceed(u)
        PROVE  \/ Fewer(t)
               \/ /\ mishaps' = mishaps /\ file' = file
                  /\ tabs'[t].pc = tabs[t].pc /\ tabs'[t].url = tabs[t].url
    <2>1. u # t /\ file' = file
      BY <1>5 DEF Proceed, Link
    <2>2. mishaps' = mishaps \/ (mishaps > 0 /\ mishaps' = mishaps - 1)
      BY <1>5 DEF Proceed, Answered, Send, Login, RefuseState, RefuseUser, SignIn, Logout,
         Dashboard, Link, Mishap
    <2>3. \E b : Become(u, b) \/ Interfere(u, b)
      BY <1>5 DEF Proceed, Answered, Send, Login, RefuseState, RefuseUser, SignIn, Logout,
         Dashboard, Link
    <2> QED BY <1>3, <2>1, <2>2, <2>3 DEF Fewer
  <1> QED BY <1>1, <1>2, <1>4, <1>5 DEF Next

\* No redirect leads back, for any number of tabs, accounts and mishaps: every answer
\* brings a tab nearer to a page or to the user, and nobody else takes it further away
\* (serve.go:45-70, oauth.go:83-138, web.go:209-223).
THEOREM NoRedirectLoops == Spec => RedirectsRunOut
  <1>1. Init => KnownInv
    BY DEF Init, SignInInit, KnownInv, Known, EmptyJar, NewTab
  <1> DEFINE Nearer ==
        \A t \in Tabs :
            LET hops == Hops(tabs[t], file, mishaps)
                left == Hops(tabs'[t], file', mishaps')
            IN Busy(tabs[t]) /\ file.slug # Dot =>
                   left <= hops /\ (Proceed(t) => left < hops)
  <1>2. LinksInv /\ KnownInv /\ [Next]_vars => [Nearer]_vars
    <2> SUFFICES ASSUME LinksInv, KnownInv, [Next]_vars,
                        NEW t \in Tabs, Busy(tabs[t]), file.slug # Dot
                 PROVE  LET hops == Hops(tabs[t], file, mishaps)
                            left == Hops(tabs'[t], file', mishaps')
                        IN left <= hops /\ (Proceed(t) => left < hops)
      OBVIOUS
    <2>1. mishaps \in Nat
      BY BoundAssumption DEF LinksInv, Typed
    <2>2. PICK h \in Nat : h = Hops(tabs[t], file, mishaps)
      BY <2>1, HopsLemma
    <2>3. CASE Fewer(t)
      <3>1. Hops(tabs'[t], file', mishaps') < h
        BY <2>2, <2>3, FewerLemma
      <3>2. mishaps' \in Nat
        BY <2>1, <2>3 DEF Fewer
      <3>3. PICK k \in Nat : k = Hops(tabs'[t], file', mishaps')
        BY <3>2, HopsLemma
      <3>4. k <= h
        BY <3>1, <3>3
      <3> QED BY <2>2, <3>1, <3>3, <3>4
    <2>4. CASE ~Fewer(t)
      <3>1. ~Proceed(t)
        BY <2>4, ProceedFewer
      <3>2. /\ mishaps' = mishaps /\ file' = file
            /\ tabs'[t].pc = tabs[t].pc /\ tabs'[t].url = tabs[t].url
        BY <2>4, <3>1, OthersLemma
      <3>3. Hops(tabs'[t], file', mishaps') = h
        BY <2>2, <3>2 DEF Hops, Busy, Ahead
      <3> QED BY <2>2, <3>1, <3>3
    <2> QED BY <2>3, <2>4
  <1> QED
    BY <1>1, <1>2, LinksInit, LinksStep, KnownNext, PTL DEF Spec, RedirectsRunOut
=============================================================================
