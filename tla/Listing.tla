------------------------------ MODULE Listing ------------------------------
(***************************************************************************)
(* Paging through a user's files, newest first, while files are uploaded    *)
(* and deleted.                                                             *)
(*                                                                         *)
(* A page is what db.ListFiles returns: the rows strictly older than a      *)
(* cursor, in the order of (created_at, id).  The two interfaces differ in  *)
(* what the cursor is.  The API's is the id of a file, looked up again by a *)
(* statement of its own (ListFiles in service.go); the dashboard's carries  *)
(* the position itself (FilesPage and fileCursor in web.go).                *)
(*                                                                         *)
(* db.CreateFile takes the time before it inserts the row, so rows do not   *)
(* appear in the order of their times: an upload can appear behind the      *)
(* cursor.                                                                  *)
(***************************************************************************)
EXTENDS Integers, FiniteSets, SequencesExt

CONSTANTS
    Ids,      \* file ids, which the database compares: integers here
    Users,    \* users
    Reader,   \* the user who pages through their files
    Limits,   \* page sizes: the API's limit parameter, filesPerPage
    MaxTime,  \* bound: times the clock shows
    None

\* An id is an xid of twelve bytes: there are finitely many.
ASSUME IdAssumption == Ids \subseteq Nat /\ IsFiniteSet(Ids) /\ MaxTime \in Nat
ASSUME ReaderAssumption == Reader \in Users
ASSUME LimitAssumption == Limits \subseteq Nat \ {0}

VARIABLES
    clock,    \* the server's wall clock
    drawn,    \* ids that were drawn
    uploads,  \* files about to be inserted: id -> [owner, created]
    files,    \* the files table: id -> [owner, created]
    walk,     \* the reader's way through the pages
    kept      \* ids of the reader's files that were there when the walk began
              \* and still are (no action reads it)

vars == <<clock, drawn, uploads, files, walk, kept>>

File     == [owner: Users, created: 0..MaxTime]
Position == [created: 0..MaxTime, id: Ids]

Walk ==
    [interface: {"api", "web", None},
     pc: {"idle", "cursor", "query", "page", "end", "refused", "failed"},
     after: Position \cup {None},   \* what the next query starts behind
     cursor: Ids \cup {None},       \* the file id the API client sends
     size: Limits \cup {None},      \* files per page
     seen: SeqOf(Ids, Cardinality(Ids))]

ASSUME NoneAssumption ==
    None \notin Ids \cup Limits \cup Position \cup {"api", "web"}

Idle == [interface |-> None, pc |-> "idle", after |-> None, cursor |-> None,
         size |-> None, seen |-> <<>>]

TypeOK ==
    /\ clock \in 0..MaxTime /\ drawn \subseteq Ids
    /\ DOMAIN uploads \subseteq drawn /\ \A i \in DOMAIN uploads : uploads[i] \in File
    /\ DOMAIN files \subseteq drawn /\ \A i \in DOMAIN files : files[i] \in File
    /\ walk \in Walk
    /\ kept \subseteq DOMAIN files

Init ==
    /\ clock = 0 /\ drawn = {}
    /\ uploads = [i \in {} |-> None] /\ files = [i \in {} |-> None]
    /\ walk = Idle /\ kept = {}

----------------------------------------------------------------------------
(* The files table                                                          *)

Tick == clock < MaxTime /\ clock' = clock + 1
        /\ UNCHANGED <<drawn, uploads, files, walk, kept>>

\* CreateFile reads the clock ...
Stamp ==
    \E i \in Ids \ drawn, u \in Users :
        /\ drawn' = drawn \cup {i}
        /\ uploads' = [j \in DOMAIN uploads \cup {i} |->
                          IF j = i THEN [owner |-> u, created |-> clock] ELSE uploads[j]]
        /\ UNCHANGED <<clock, files, walk, kept>>

\* ... and inserts the row some time later.
Insert ==
    \E i \in DOMAIN uploads :
        /\ files' = [j \in DOMAIN files \cup {i} |->
                        IF j = i THEN uploads[i] ELSE files[j]]
        /\ uploads' = [j \in DOMAIN uploads \ {i} |-> uploads[j]]
        /\ UNCHANGED <<clock, drawn, walk, kept>>

Delete ==
    \E i \in DOMAIN files :
        /\ files' = [j \in DOMAIN files \ {i} |-> files[j]]
        /\ kept' = kept \ {i}
        /\ UNCHANGED <<clock, drawn, uploads, walk>>

----------------------------------------------------------------------------
(* The query                                                                *)

At(i) == [created |-> files[i].created, id |-> i]

\* (created_at, id) < (?, ?)
Older(p, q) == p.created < q.created \/ (p.created = q.created /\ p.id < q.id)

\* Mutant: the cursor's own row is on the next page too.
SameOrOlder(p, q) == p.created < q.created \/ (p.created = q.created /\ p.id <= q.id)

\* The cursor condition of the query.
Behind(p, q) == Older(p, q)

\* Mutant: the query forgets whose files it lists.
MatchesOfAnyone(u, after) ==
    {i \in DOMAIN files : after = None \/ Behind(At(i), after)}

Matches(u, after) ==
    {i \in DOMAIN files : files[i].owner = u /\ (after = None \/ Behind(At(i), after))}

\* In s every file is older than those before it, and those of S that are not in
\* s are older still and there only if s is n files long.
NewestOf(s, S, n) ==
    /\ \A j, k \in DOMAIN s : j < k => Older(At(s[k]), At(s[j]))
    /\ \A i \in S \ ToSet(s) : Len(s) = n /\ \A j \in DOMAIN s : Older(At(i), At(s[j]))

\* Mutant: DESC is forgotten.
ListFilesOldestFirst(u, n, after) ==
    {Reverse(s) : s \in {s \in SeqOf(Matches(u, after), n) : NewestOf(s, Matches(u, after), n)}}

\* db.ListFiles: the first n of u's files behind a position, newest first.  There
\* is one such page.
ListFiles(u, n, after) ==
    {s \in SeqOf(Matches(u, after), n) : NewestOf(s, Matches(u, after), n)}

----------------------------------------------------------------------------
(* The reader                                                               *)

\* What the reader has seen; a walk that has shown more files than there are ids
\* notes no more of them, which bounds one that would never end.
Noted(seen, page) == IF Len(seen) > Cardinality(Ids) THEN seen ELSE seen \o page

Owned(u) == {i \in DOMAIN files : files[i].owner = u}

\* A new walk can begin: there was none, or it is over.
Over == {"idle", "end", "refused", "failed"}

\* The walk starts with a request without a cursor.
Begin ==
    /\ walk.pc \in Over
    /\ \E k \in {"api", "web"}, n \in Limits :
          walk' = [Idle EXCEPT !.interface = k, !.size = n, !.pc = "query"]
    /\ kept' = Owned(Reader)
    /\ UNCHANGED <<clock, drawn, uploads, files>>

\* An API client may also start behind any file id it knows of; such a walk
\* promises nothing about the files before it.
BeginBehind ==
    /\ walk.pc \in Over
    /\ \E i \in Ids, n \in Limits :
          walk' = [Idle EXCEPT !.interface = "api", !.size = n, !.pc = "cursor",
                               !.cursor = i]
    /\ kept' = {}
    /\ UNCHANGED <<clock, drawn, uploads, files>>

\* The API client asks for the page behind the last file it got, or stops at a
\* page that is not full.  A web reader follows the link to older files.
FollowApi ==
    /\ walk.interface = "api" /\ walk.pc = "page"
    /\ walk' = [walk EXCEPT !.pc = "cursor"]
    /\ UNCHANGED <<clock, drawn, uploads, files, kept>>

FollowWeb ==
    /\ walk.interface = "web" /\ walk.pc = "page"
    /\ walk' = [walk EXCEPT !.pc = "query"]
    /\ UNCHANGED <<clock, drawn, uploads, files, kept>>

\* ListFiles of the API looks the cursor's file up: it must still be there and
\* be the caller's.
Resolve ==
    /\ walk.pc = "cursor"
    /\ walk' = IF walk.cursor \in Owned(Reader)
               THEN [walk EXCEPT !.pc = "query", !.after = At(walk.cursor)]
               ELSE [walk EXCEPT !.pc = "refused"]
    /\ UNCHANGED <<clock, drawn, uploads, files, kept>>

\* ListFiles of the API: a page of at most the size the client asked for.
QueryApi ==
    /\ walk.interface = "api" /\ walk.pc = "query"
    /\ \E page \in ListFiles(Reader, walk.size, walk.after) :
          LET full == Len(page) = walk.size
          IN  walk' = [walk EXCEPT !.seen = Noted(@, page),
                                   !.cursor = IF full THEN Last(page) ELSE None,
                                   !.pc = IF full THEN "page" ELSE "end"]
    /\ UNCHANGED <<clock, drawn, uploads, files, kept>>

\* Mutant: the extra row, read only to learn of an older page, is the cursor.
QueryWebPastThePage ==
    /\ walk.interface = "web" /\ walk.pc = "query"
    /\ \E page \in ListFiles(Reader, walk.size + 1, walk.after) :
          LET older == Len(page) > walk.size
          IN  walk' = [walk EXCEPT
                          !.seen = Noted(@, IF older THEN Front(page) ELSE page),
                          !.after = IF older THEN At(Last(page)) ELSE None,
                          !.pc = IF older THEN "page" ELSE "end"]
    /\ UNCHANGED <<clock, drawn, uploads, files, kept>>

\* FilesPage: one row more than the page tells whether there are older files.
QueryWeb ==
    /\ walk.interface = "web" /\ walk.pc = "query"
    /\ \E page \in ListFiles(Reader, walk.size + 1, walk.after) :
          LET older == Len(page) > walk.size
          IN  walk' = [walk EXCEPT
                          !.seen = Noted(@, IF older THEN Front(page) ELSE page),
                          !.after = IF older THEN At(page[walk.size]) ELSE None,
                          !.pc = IF older THEN "page" ELSE "end"]
    /\ UNCHANGED <<clock, drawn, uploads, files, kept>>

\* The look-up of the cursor's file or the query fails, and nothing is shown.
ReadFails ==
    /\ walk.pc \in {"cursor", "query"}
    /\ walk' = [walk EXCEPT !.pc = "failed"]
    /\ UNCHANGED <<clock, drawn, uploads, files, kept>>

----------------------------------------------------------------------------
Table == Tick \/ Stamp \/ Insert \/ Delete

Paging == FollowApi \/ FollowWeb \/ Resolve \/ QueryApi \/ QueryWeb

Next == Table \/ Begin \/ BeginBehind \/ Paging \/ ReadFails

\* A reader who has begun goes on.
Spec == Init /\ [][Next]_vars /\ WF_vars(Paging)

----------------------------------------------------------------------------
(* Properties                                                               *)

\* When a walk has come to its end, it has shown every file of the reader that
\* was there all along: uploads and deletions between the pages never make one
\* slip through, not even with equal times (db.ListFiles, "only files strictly
\* older than that row are returned").
NothingIsMissed == walk.pc = "end" => kept \subseteq ToSet(walk.seen)

\* No file is shown twice, whatever appears behind the cursor meanwhile, and the
\* files of different pages are in one order, newest first.
NothingIsRepeated == IsInjective(walk.seen)

NewestFirst ==
    \A m, n \in DOMAIN walk.seen :
        (m < n /\ {walk.seen[m], walk.seen[n]} \subseteq DOMAIN files)
            => Older(At(walk.seen[n]), At(walk.seen[m]))

\* A page never shows another user's file, and a cursor that came from a page is
\* refused as invalid only when the file it names was deleted in between
\* (service.go:438-440); a read that fails is another error.
OnlyOwnFiles ==
    /\ \A n \in DOMAIN walk.seen :
           walk.seen[n] \in DOMAIN files => files[walk.seen[n]].owner = Reader
    /\ (walk.pc = "refused" /\ walk.seen # <<>>) => walk.cursor \notin DOMAIN files

\* Every walk comes to an end, is refused or fails: a page moves the cursor to
\* strictly older files, so pages cannot go round in circles, whether or not a read
\* ever fails.
WalksEnd ==
    (walk.pc \in {"cursor", "query"}) ~> (walk.pc \in {"end", "refused", "failed"})
=============================================================================
