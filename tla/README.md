# stashy in TLA+

Specifications of stashy's file service, its stores, its API keys, its sign-in and
its shared links, checked with TLC and proved with TLAPS.
Paths are relative to the repository (`src/`); `service.go`, `serve.go` and
`http.go` are in `src/internal/service/`, `db.go` in `src/internal/db/`.

## 1. The system

stashy stores files for signed-in users. A file is a **row** of the `files`
table (owner, slug, name, visibility, content type, size, checksum, times) and
**bytes** in a byte store under the file's id. Nothing ties the two together but
the order in which the handlers write them: there is no transaction over both,
no transaction over two statements, and no lock from one call to the next.

| part | state | operations | hard parts |
|---|---|---|---|
| File service (`service.go`, `http.go`, `db.go`) | rows, bytes, requests in flight | create, replace, update, delete | two stores, checks apart from writes, cancelled contexts, crashes, lost answers |
| Streaming uploads (`service.go:159-345`) | a pipe, two goroutines, the client's stream | receive, write, read, fail, answer | who waits for whom when either side fails |
| Listing (`db.go:303-328`, `service.go:415-454`, `web.go:99-166`) | rows, a cursor held by the client | page, follow | rows that appear and vanish between pages, equal times |
| Downloads (`serve.go`, `http.go:19-32`, `service.go:485-532`) | none of their own | find, authorise, headers, open | row and bytes are read at different times; ranges |
| Remote and memory stores (`storage/`) | bytes by id | Put, Get, GetRange, Delete | each backend fails in its own way |
| Local store (`storage/local/`) | names, inodes, open descriptors | the same, piece by piece | Put truncates in place and removes its name on failure |
| Users and API keys (`db.go:118-252`, `routes.go`, `apikeys.go`) | users, keys | create, look up, revoke | revocation beside requests in flight, lost answers |
| Sign-in (`auth/`) | signed cookies in the browser, none in the server | log in, come back from Google, log out | tabs that share the cookies |
| Public links (`serve.go:21-96`) | the file's slug and visibility | find, send to the login, redirect | renames and logins while a link is followed |
| MCP tools, dashboard, command | none | call the above | – |

What makes each part correct:

* File service: a row always has bytes; only the owner's requests change a file;
  a refused request changed nothing; the row describes the bytes; an id names one
  file, once.
* Streaming uploads: a broken stream is never recorded as a complete one; success
  means that a file was recorded, and an error that none was unless the database
  hid it; every upload is answered.
* Listing: no file missed, repeated or out of order; every walk ends.
* Downloads: bytes only for a user who may read; headers and bytes of one
  content; the range that was asked for.
* Local store: with nobody else at the same file, what an atomic store would
  promise; and nothing torn that the next replacement does not repair.
* API keys: a revoked key begins nothing; a file changes only by its owner's key
  or session.
* Sign-in and links: the user arrives where they asked to go, or at an error with
  a cause; redirects end; an owner stays the owner, whatever Google answers, when
  domains are configured.

`PROJECT.json` lists every part with its status, the hazards at their lines, and
the map from definitions to code.

## 2. Modules

| module | models | built on |
|---|---|---|
| `FileCatalog` | what the service promises of a file's life, in one step per request | – |
| `FileService` | the handlers that change files, one action per statement and store call | refines `FileCatalog` |
| `FileHistory` | `FileService` with a history variable for disturbed replacements | `FileService` |
| `FileServiceProofs` | theorems about `FileService`, and that it implements `FileCatalog` | `FileService`, TLAPS |
| `FileHistoryProofs` | when a row describes its bytes, and when If-Match guards them | `FileHistory`, `FileServiceProofs` |
| `Upload` | what a streaming upload promises its client | – |
| `UploadStream` | one streaming upload: handler, goroutine, pipe | refines `Upload` |
| `UploadStreamProofs` | theorems about streams of any length | `UploadStream`, TLAPS |
| `Listing` | the keyset query and both ways to page through it | – |
| `ListingProofs` | theorems about walks of any length | `Listing`, TLAPS |
| `ByteRange` | Range headers | – |
| `FileReads` | the three downloads beside the file service's writes | `FileHistory`, `ByteRange` |
| `FileReadsProofs` | theorems about ranges and downloads | `FileReads`, `FileHistoryProofs` |
| `LocalFiles` | the handlers over the local store: names, inodes, descriptors | – |
| `LocalHistory` | `LocalFiles` with the history its properties need | `LocalFiles` |
| `LocalHistoryProofs` | theorems about the local store | `LocalHistory`, TLAPS |
| `KeyedService` | the file service behind API keys and sessions | `FileHistory` |
| `KeyedServiceProofs` | theorems about `KeyedService` | `KeyedService`, `FileHistoryProofs` |
| `SignIn` | the OAuth login, sessions and the dashboard, seen from a browser's tabs | – |
| `Links` | public links to one file, on top of the sign-in | `SignIn` |
| `LinksProofs` | theorems about `Links` | `Links`, TLAPS |
| `MC*` | instances for TLC | the module they are named after |

### FileService

`rows` and `blobs` are the table and the store, as functions whose domain is the
set of ids present. `minted` is the set of ids the generator has returned
(`storage.NewID`; that it never repeats one is assumed). `reqs` gives each
request slot a record: its operation, where it is (`pc` names the call it makes
next), its inputs, what the store reported of its Put, whether its context is
cancelled, whether it has changed anything (`wrote`) and its reply.

| action | code |
|---|---|
| `BeginCreate`, `Put`, `Insert`, `Cleanup` | `putFile` (`service.go:87-107`), reached from `CreateFile` and `UploadFile` |
| `BeginReplace`, `Own`, `Overwrite`, `Recheck`, `Describe`, `Reread` | `replaceFile` (`service.go:114-131`), reached from `UpdateFileContent` and `httpUpdateFileContent`; `Recheck` and `Describe` are the two statements of `db.UpdateFileContent` |
| `BeginUpdate`, `Check`, `Set`, `Show` | `UpdateFile` (`service.go:348-389`), two statements per field |
| `BeginDelete`, `AuthorizeDelete`, `Unlink`, `Erase` | `DeleteFile` (`service.go:391-409`) |
| `Cancel`, `Close`, `Restart` | the client goes away, the answer is sent, the process dies |

`Faults` chooses what may go wrong. A database statement on a cancelled context
fails; otherwise it may fail without effect, or take effect and lose its answer.
A Put that answers an error may have stored the body (remote stores), or on GCS
the part of it that was read (`gcs.go:28-29` closes the writer). The memory
store ignores the context. `Backend` is `memory`, `s3` or `gcs`; the local store
is not atomic and has a module of its own (`LocalFiles`).

Abstractions: contents, checksums and sizes are opaque and related by the
functions `Size` and `Crc`; the content type, `updated_at` and wording are left
out; slug, name and visibility share one set of values; validation of inputs
(protovalidate) happens before the first action, so inputs are valid.

### FileHistory

`torn` is the set of files whose last replacement was *disturbed*: another one
was between its two writes at the same time, or it ended between them, or its
Put failed and still changed the bytes. `RowDescribesBytes` says that these are
the only ways a row can stop describing its bytes, and that one undisturbed
replacement repairs it.

### UploadStream

`handler` and `worker` are the two goroutines, `offer` the unread data of the
`Write` in progress, `closed` what the reader finds behind it. Data are numbered
in the order the client sends them, so loss, repetition and reordering show.
`Prepare` to `Drain` are `putFile` or `replaceFile` as seen from the pipe; `err` is
what the goroutine's result says. `Record` is the INSERT or UPDATE, which may be
committed and reported as failed, and `Reread` the `GetFile` of `replaceFile`
(`service.go:130`), which may fail when the content is recorded already. The
branches for an error of `pw.Write` are left out because they cannot run: the
reader's end is never closed.

`Upload` is the same upload without pipe and goroutine: data come in until the
stream ends or breaks, the file appears in one step with all of them, and the answer
comes last and says whether it did. The exception is `doubt`: the file was recorded
and the database reported an error about it, and the answer is then an error. `sent`
and `stream` are its own; its file is what the store recorded, its reply the client's,
and its doubt a recorded file beside an `err` (`Abstract` in `UploadStream`).

### Listing

`Stamp` and `Insert` are the two halves of `db.CreateFile` (the time is taken
first). `walk` is a reader on their way through the pages, by the API (the cursor
is a file id, looked up by `Resolve`) or the dashboard (the cursor is a
position). `kept` is the set of files that were there during the whole walk.
`ListFiles` gives the pages that the query may answer, described by `NewestOf`
rather than computed: sorted, the newest there are, and no longer than asked.
There is always one; if there were none the walk would stop and `WalksEnd` fail.
`ReadFails` is an error of the look-up or the query (`service.go:435-447`,
`web.go:136-140`): the page is an error and the walk over.
Ids are numbers because the database compares them; the text forms of times and
cursors are left out.

### FileReads

`views` gives each download slot its request, the headers it has announced
(`says`, `span`), its status and its body. `readable` and `calm` are history: was
the file readable for this user in some state of the request, and did it exist
undisturbed in every state. A 500 is `unavailable` when the database or the store
failed and `error` when the bytes were not what the row led the handler to
expect. `NoCrashAssumption`: a crash only ends downloads, so it is left out here.

### LocalFiles and LocalHistory

`dir` maps an id to an inode, `disk` an inode to its bytes; an inode lives as long
as it has a name or a descriptor (`Live`). A slot holds its descriptor `fd` and
its offset `at`.

| action | code |
|---|---|
| `Open`, `Write`, `PutReturns`, `PutFails` | `Put` (`local.go:29-43`): `os.Create`, one piece of `io.Copy`, the two ends of the copy |
| `Fetch`, `Copy`, `CopyEnds`, `CopyFails` | `Get` and `GetRange` (`local.go:45-69`), and the copy to the client in `serve.go:141-185` |
| `Erase` | `Delete` (`local.go:71-76`), of `DeleteFile` and of the cleanup after a failed insert |
| `Insert`, `Describe`, `Unlink` | the statements around them, as in `FileService` |

Under `disk_error` every system call may fail: create, write, open, seek, read, and the
`os.Remove` of `PutFails` and `Erase`, whose error nobody acts on (`Remove`): the name
then stays. Under `db_error` every statement may fail, before or after it took effect.
`unseen` records what a request has left behind without an answer that says so: a
`"name"` that was not removed, a `"row"` whose insert was committed.

Only the owner's requests are there, and the row is found or not in one step with
the begin of a request: who may do what is `FileService`'s matter. A hole is what
a place reads as that was truncated by somebody else and never written again.
`torn`, `blurred` and `calm` are history: files whose last replacement was
disturbed, files whose bytes were written by two at once or left behind by a crash or
a failed removal, and downloads beside which nothing was stored under their id. The
properties say exactly what is left of the atomic store: rows describe files that are
not torn, files that are not blurred are one client's whole body, failed creates leave
nothing but what is in `unseen`, and calm downloads are exact up to where the disk
fails them. Content that an in-place replacement loses or two of them mix is in the
excluded sets: that it is lost is what the code does, and no property denies it.

### KeyedService

`keys` is the `api_keys` table and `shown` what users were shown, once. `creds`
is what each request presented. `Arrive`, `Admit` and `Refuse` are
`requireAPIKey` (`routes.go:27-41`), the `verify` of MCP (`mcp.go:35-41`) and
the session check of `upload` (`upload.go:17-21`); from `Admit` on the request is
one of `FileService`, whose steps are `Work`. `Leads` says which operations a
credential reaches; the MCP tools reach some of those a key reaches at `/v1/`. `CreateKey` and `RevokeKey` happen at any time. `late` marks
a request whose key was already gone when it arrived, and `acked` the files whose
upload was acknowledged.

### SignIn and Links

A tab rests, goes somewhere, waits for an answer, or is at Google. It sends a
request with the cookies of that moment (`sees`); the handler's work and the
arrival of its answer are one step, because the server's only state here is the
users table. `Login` is `handleLogin`; `RefuseState`, `RefuseUser` and `SignIn`
are the ways through `handleCallback`; `Dashboard` is `requireUser` before a page.
`fetchGoogleUserInfo` does not look at Google's status (`oauth.go:151-164`), so an
error with a JSON body is read as `Empty`, the account without id and e-mail: it is
refused when domains are configured, and signed in like any other when not. `admits`
is that configuration, chosen once: the accounts of `Allowed`, or everybody.
`Links` adds `PublicFileHandler` for one file and its owner's edits; paths are
model values, and `Cleaned` is what `http.Redirect` does to a path that ends in a
dot segment.

`goal`, `met`, `odd`, `as` and `named` are history: where the user asked to go,
whether the tab's sign-in cookies were touched by somebody else, whether a redirect
was cleaned to another path, and whose session the answer was given to: who signed in
for it, and the account that Google's answer named. Two
consequences of the code are named in the properties: a slug `..` leads to
the dashboard and a slug `.` redirects for ever (`serve.go:67-70`), since
both pass the validation of slugs.

## 3. Runs

| run | instance | shows |
|---|---|---|
| `core_gcs` | 2 requests, 2 ids, 2 users, 2 bodies, GCS; crashes, failing bodies, statements and store calls | `RowsHaveBytes`, `OnlyOwnersWrite`, `RefusedLeavesNoTrace`, `RowDescribesBytes`, and `ImplementsCatalog`: the service implements `FileCatalog` |
| `core_s3` | `KeyedService`: 2 requests, 1 id, 2 users, 2 keys, S3; cancelled contexts, lost answers, If-Match | `LateKeysOpenNothing`, `OnlyOwnersKeysWrite`, `AcknowledgedFilesHaveBytes`, `RefusedLeavesNoTrace`, `RowDescribesBytes`, `DeletedForGood`: what holds while keys come and go and clients leave at any moment |
| `overlap` | memory, no faults | **violated** `ChecksumDescribesContent` |
| `ifmatch` | memory, no faults | **violated** `IfMatchGuardsContent` |
| `orphan` | S3, cancelled contexts | **violated** `FailedInsertLeavesNoBytes` |
| `streams` | create and update, 3 messages of up to 2 pieces, all faults | `RecordedIsWhole`, `AnswerIsTrue`, `StuckOnlyInCreate`, `UpdatesAreAnswered`, and `ImplementsUpload`: handler, goroutine and pipe implement `Upload` |
| `create_hang` | create, store errors | **violated** `CreatesAreAnswered` |
| `listing` | 3 ids, 2 users, pages of 1 or 2, 3 times, failing reads | `NothingIsMissed`, `NothingIsRepeated`, `NewestFirst`, `OnlyOwnFiles`, `WalksEnd` |
| `downloads` | 1 request, 1 download, bodies of 1 and 3 bytes, GCS, failing bodies, statements and store calls | `ServedOnlyToReaders`, `UndisturbedDownloadsAreExact`, `RangesAreNamed` |
| `stale_range` | memory, no faults | **violated** `RangeReadsReturn` |
| `local` | 2 writers, 1 download, 1 id, 3 inodes, an empty body and one of 2 pieces; failing bodies, disks (removals and reads too) and statements, crashes | `RowDescribesFile`, `FilesAreWhole`, `FailedCreatesLeaveNoFile`, `CalmDownloadsAreExact` |
| `visits` | 2 tabs, 3 accounts of which 2 are allowed and 1 owns the file, 4 slugs; one fault of Google, the database, the clock or the owner; with domains and without | `JourneysArrive`, `OnlyInterferenceRefuses`, `OwnersAreServed`, `RedirectsRunOut`, `JourneysEnd` |

### What the violated properties say

Each states what the repository says of itself; the counterexamples are short
and need no faults unless named.

* `ifmatch`: two requests pass the If-Match check before either stores its bytes;
  the second overwrites the first although the README promises a 412
  (`README.md:223-226`).
* `overlap`: A stores, B stores, B describes, A describes. The row has A's
  checksum, the store B's bytes (`README.md:166-167`), and nothing repairs it.
* `orphan`: the client goes away after the Put; the insert and the cleanup run on
  the same cancelled context, so both fail and the bytes stay
  (`service.go:82-84`).
* `create_hang`: the store fails while the client still sends. `CreateFile` does
  not drain the pipe as `UpdateFileContent` does (`service.go:300-304`), so the
  handler waits in `pw.Write` for ever. `StuckOnlyInCreate` shows that this is the
  only way an upload can hang.
* `stale_range`: a range is computed from the row, a replacement makes the content
  shorter, and the memory store slices with start > end (`storage.go:38-39`
  promises a range or an error).

### Bounds

Two requests are enough for every race found and for every pair of handlers,
because no handler waits for another and a check is invalidated by one write of
one other request; a third would only combine such pairs. Two ids are needed
where an id could be used again (`core_gcs`); one file is enough where requests
must meet at the same file. Two users give an owner and a stranger. Two bodies
differ in length and checksum, so that old and new content can be told apart;
`Cut` differs from both. Requests, users and ids are symmetric in the core runs
(no action compares them); ids in `listing` are ordered and have no symmetry.
In `local` an empty body and one of two pieces leave holes and shortened files when
they overlap (the theorems have bodies of any length), and
three inodes are enough for two writers and a reader to be on different ones. In
`visits` two tabs give every interference, six states always leave one that
nobody holds (`StateAssumption`), and `MaxMishaps` bounds the faults of a
behaviour: one is enough to reach every error path, and the proofs need no bound.
In `core_s3` two keys let one be revoked while another is in use, and every
replacement sends an If-Match that names one of the two bodies (`core_gcs` has
the replacements without one).
Three messages with pieces let a failure fall before, inside and between writes.
Three files on pages of one or two put an insertion and a deletion between any two
pages, and pages of two let the order within a page go wrong;
three times allow both equal and different ones. A download asks
for the whole file, a range that crosses the end of a body, one behind the end of
the shorter, the last two bytes, or something that is no range.

### Fairness

Safety needs none. `UploadStream` assumes weak fairness of each goroutine: the Go
scheduler runs both, and a client's stream in the end delivers a message, its end
or its failure (the HTTP server notices a broken connection). No fairness forces
a particular outcome. `Listing` assumes that a reader who has begun goes on.
`Links` assumes weak fairness of `Proceed(t)` for each tab: the browser sends the
requests it was redirected to and the server answers them; users, Google, faults
and the clock are under no obligation.

## 4. Theorems

The eight `*Proofs` modules are checked by `tlapm`. Their theorems hold for every
number of requests, downloads, tabs, ids, users, keys and contents, for streams,
bodies and walks of any length, and for every choice of faults. They rest on the
named assumptions of the modules (`None` is no other value, inputs are of their
sets, a fresh state exists, ids of a listing are finitely many numbers) and, where
it is said, on two assumptions about faults:

* `Durable`: a memory store does not restart; otherwise it has lost the bytes of
  every row.
* `Answered`: no committed write of the database is reported as failed; otherwise
  the cleanup of `putFile` deletes the bytes of a row that was inserted
  (`service.go:99-101`). `AcknowledgedIsStored` is what remains without it.

### The file service

* `TypeCorrect`: `TypeOK`. The inductive `TypeInv` adds that each point of a
  request has the inputs its next call uses (`Filled`).
* `OwnersOnly` (`Durable`): `OnlyOwnersWrite`. A check and the write it allows are
  apart, so the invariant says why the check stays true: `OwnershipInv` states that
  every row's id was drawn, that no two requests hold the same drawn id, and that a
  request past its check either still faces a row of its own user or none, because
  rows are only created under ids drawn by the creating request and owners never
  change.
* `NoRowWithoutBytes` (`Durable`, `Answered`): `RowsHaveBytes`. `BytesInv` adds that
  an id past its Put has bytes, and that a request about to erase bytes works on an
  id that has no row and can never get one.
* `RefusalsAreClean`: `RefusedLeavesNoTrace`. `RefusalInv` adds that a request is
  answered once and has written nothing before its first check (`Clean`). The later
  checks of a replacement and of an update come after writes; they cannot refuse,
  because the request holds its id by then and a row it can still find is its user's.
* `NoIdComesBack`: `DeletedForGood`. `Spent` is the set of drawn ids with no row
  that no upload still holds. `OwnershipInv` says that an insert works on an
  id nobody else has drawn, so a spent id is out of its reach for ever.
* `Implements` (`Durable`, `Answered`): `ImplementsCatalog`. `FileCatalog` is
  instantiated with `Files` (the rows, each with its bytes) for its table and `Spent`
  for its used ids; each step of the service is then a create, replacement, update or
  deletion of the catalog, an id given up, or a stutter. The insert is the create and
  the unlink the deletion. `BytesInv` makes the rest stutter: the Put of a create and
  the two erasures touch bytes that no row shows.
* `RowsDescribeBytes`: `RowDescribesBytes` of `FileHistory`. `HistoryInv` says that
  an insert knows the bytes under its id (`Knows`), and that a file that is not torn
  has at most one request between its two writes, which then knows the bytes; with
  none there, the row does (`Described`).

Three of the violated properties are proved under the conditions whose absence the
counterexamples use, so that the runs and the theorems together say when what the
repository promises is true:

* `FailedInsertsAreClean` (`Answered`, `Erasable`): `FailedInsertLeavesNoBytes`.
  `Erasable`: the store is the memory store, or no context is cancelled and no store
  call fails. `ClearedInv` says that the id of a withdrawn upload has no row, is
  nobody else's, and has no bytes once the client has its answer; other requests and
  other faults cannot bring them back. `orphan` violates it with a cancelled context.
* `SeparateReplacementsAreWhole` (`Undisturbed`, `[]OneAtATime`):
  `ChecksumDescribesContent`, and `SeparateReplacementsAreGuarded`:
  `IfMatchGuardsContent`. `OneAtATime`: no two replacements of one file are past their
  checks and before their description at once; `Undisturbed`: nothing fails but the
  reading of a body, and not that on GCS. `IntactInv` adds to `HistoryInv` that only
  files that are gone are torn, and that the tags a replacement came with still name
  the bytes until it overwrites them (`Matched`). Any number of creates, updates,
  deletions and replacements of other files may run beside them. `overlap` and
  `ifmatch` violate the two with nothing but an overlap: a lock per file around
  `replaceFile` would make the documentation true as long as nothing fails.

Behind API keys:

* `KeysAddNothing`: `KSpec => HSpec`. Each step behind API keys is one of the service
  or leaves its state alone. Everything above therefore holds behind keys, which
  `KeyedRefusalsAreClean`, `KeyedRowsDescribeBytes`, `KeyedIdsNeverComeBack` and
  `KeyedImplements` say of the properties the runs check.
* `KeyTypesCorrect`, `RevokedKeysOpenNothing`: `KTypeOK`, `LateKeysOpenNothing`.
  `KeyInv` says that a key in the table belongs to the user it was shown to, that a
  request carries a key that was shown, and that one past its admission works as that
  key's user.
* `OwnersKeysOnly` (`Durable`): `OnlyOwnersKeysWrite`. `OwnershipInv` ties writes to
  users, `KeyInv` ties users to their keys.
* `AcknowledgedIsStored` (`Durable`): `AcknowledgedFilesHaveBytes`. `AckedInv` says
  that an acknowledged file's upload is over, so that a request about to clean up
  works on another id, and that a request about to erase works on an id without a row
  for good: what lost answers can cost is a file nobody was told of.

### Downloads

`DownloadsChangeNothing` (`RSpec => HSpec`) carries the invariants of the file service
over to `FileReads`. Crashes are left out there (`NoCrashAssumption`), which gives
`Durable`.

* `RangeIsNamed`: for every header and size, the range that is sent is exactly the
  set of bytes the header names, and it is refused exactly when that set is empty.
* `DownloadTypesCorrect`: `ViewsTypeOK`, with what a download has got at each point
  (`Begun`).
* `OnlyReadersAreServed`: `ServedOnlyToReaders`. `Allowed`: a download behind the
  decision was readable once, and a download under way remembers every state in
  which it was. The second is what a decision taken from an earlier read needs.
* `RangesAreRight`: `RangesAreNamed`. `Ranged`: a span and a 416 are those of the
  header for the size that was announced.
* `CalmDownloadsAreRight` (`Answered`): `UndisturbedDownloadsAreExact`. `Exact`: a
  calm download's file is still calm, and from the open on the announced size and
  checksum are those of the bytes in the store. `CalmLemma`, which needs `BytesInv`,
  says that nobody changes the bytes of a calm file.

### The local store

None of these needs an assumption on faults: bodies, system calls and statements fail, and
the process dies, at any moment.

* `TypesCorrect`: `TypeOK`. `Types` gives each point of a slot its fields (`Shape`).
  `Moves` lists what a step does to names, bytes and slots; every further invariant
  is proved against that list and not against the actions.
* `FailedCreatesAreClean`: `FailedCreatesLeaveNoFile`. `NamesInv` says that no inode
  serves two ids (`Named`) and that a create has its id to itself until its row is
  there (`Held`), so that nobody brings back the name it removed. What the create may
  have left without saying so, by a failed removal or a committed insert, is in its
  `unseen`, and the property excludes exactly that.
* `NamedFilesAreWhole`, `LocalRowsDescribeFiles`: `FilesAreWhole`, `RowDescribesFile`.
  `FilesInv`: in a file that is not blurred, one Put at most is under way and the
  inode holds the part of its body written so far; otherwise it holds a whole body
  (`Whole`). In one that is not torn a single request at most stands between its Put
  and its statement; the inode holds that request's body, or else the row's
  (`Described`).
* `LocalDownloadsAreExact`: `CalmDownloadsAreExact`. While a download is calm its
  descriptor's inode holds the body it announced, although the name may be gone, and
  what it delivered is the slice of that body up to its offset (`Exact`).

### Listing

`PagingInv` is the invariant behind all five theorems. `Shown`: what was seen was
inserted, once each, newest first, and is the reader's. `Parts`: a position divides
the files seen from the kept ones still to come. `Progress` says that the walk's
position does this or, for the API, that its cursor is a file seen, whose place
does it as long as it exists. Times and ids never change and a new row has no
seen id, so insertions and deletions keep all that. The order is total because ids
break ties (`OlderLemma`).

* `NoFileIsMissed`, `NoFileIsRepeated`, `PagesAreInOrder`, `PagesShowOwnFiles`:
  `NothingIsMissed`, `NothingIsRepeated`, `NewestFirst`, `OnlyOwnFiles`.
* `WalksGetOn`: each step of a reader lowers `StepsLeft`, three steps for every file
  not yet shown and those to the next page, a failed read ends the walk, and the
  table's steps leave it alone. A
  full page shows a file that was not shown before (`QueryGetsOn`).
* `ListingTypesCorrect`: `TypeOK`. A walk shows no more files than there are ids, as
  an injection into a finite set.

### Streaming uploads

* `OnlyWholeStreams`: `RecordedIsWhole`, and `TrueAnswers`: `AnswerIsTrue`: success
  means that the file was recorded, an error that it was not, except for the two
  errors of the database behind which it may be (`service.go:99`, `130`).
  `StreamInv` says that what the store has read, what the pipe still offers and what
  is not yet written are together what was received, in order; that the pipe is
  closed without an error only after the client's clean end, with everything written;
  and that a goroutine which has read the whole body has read all of that.
* `StreamTypesCorrect`: `TypeOK`. `Bounded`: what was sent is at most `MaxPieces` for
  each message received, and pipe and store hold parts of it.
* `OnlyCreatesGetStuck`: `StuckOnlyInCreate` with `HandlerMoves` and `WorkerMoves`,
  the guards of the steps, in place of `ENABLED`. `WaitInv`: the handler waits only
  behind a pipe it has closed, and the goroutine of an update gives up only behind a
  closed pipe.
* `StreamsImplementUpload`: `ImplementsUpload`. Every step of handler or goroutine is a
  step of `Upload` or changes nothing it shows. `EndInv`: a stream that has ended stays
  ended, and nobody records after the answer. The `Record` of the goroutine is `Store`
  because `StreamInv` says that it has read everything; a `Reread` that fails is
  `LoseSight`.
* `UploadsEnd`: each step lowers `Left`, which bounds the steps that the messages to
  come (`Ahead`), the pieces in the pipe and the two goroutines (`AtHand`) can still
  take. Together with `OnlyCreatesGetStuck` this is the safety half of
  `UpdatesAreAnswered`: an update always has a next step, and not for ever.

### Sign-in and links

`LinksTypeCorrect`, `EveryJourneyArrives`, `RefusalsHaveACause` and
`OwnersNeverMiss`: `TypeOK`, `JourneysArrive`, `OnlyInterferenceRefuses` and
`OwnersAreServed` of `Links`. `LinksInv` says of each tab where its current
request may lead, and that sign-in cookies whose state is the tab's return it to
such a path, whoever set them (`AimInv`); that a tab nobody has met still has its
own state in the cookies (`StateInv`); that a session of the owner names the id
in the file's row, or was made of an error of Google's read as an account, which
only a configuration without domains lets in (`SessionInv`, `UsersInv`); and why it
shows what it shows (`ShownInv`). `AimInv` is what makes a matching state vouch for the path to
return to, although the two are separate cookies.

`NoRedirectLoops`: `RedirectsRunOut`, the measure behind `JourneysEnd`. `Hops` counts
how many requests a tab can still be led to (a callback, the canonical path, the page,
the login) and what a mishap can add; `KnownInv` says that sessions name users that
exist, so that a page with a session never leads back to a login without one of the
mishaps counted. The slug `.` is the exception named in the property.

## 5. What is only model-checked

Every invariant and action property of the passing runs is stated by a theorem
except `StuckOnlyInCreate`, which uses `ENABLED`; `OnlyCreatesGetStuck` proves it
with the guards written out, and that guards and `ENABLED` agree is plain from the
actions but not proved. Liveness under fairness (`UpdatesAreAnswered`, `WalksEnd`,
`JourneysEnd`) is out of the prover's reach; proved are the measures it rests on
(`UploadsEnd`, `WalksGetOn`, `NoRedirectLoops`): every step brings the end nearer, and
that the steps are taken is the fairness. Out of reach too is the existence of a page for
every table and limit, an induction over the table. The violated properties are
counterexamples, found by TLC; three of them have theorems that say when they hold.

## 6. Plan

Done: the core (`FileService`, `FileCatalog`, `FileHistory`), uploads, listing,
downloads, the local store, API keys, sign-in and links, and the theorems of
section 4.

Next, in this order:

1. Timestamps as text: the order of SQLite's strings is the order of the times.
2. The local store below `FileService`: where calm files behave as in an atomic
   store, a refinement could say it once for all of `FileService`'s properties.
3. Migrations: what a restart between two of them leaves.

## 7. Not modelled, and why

* Rendering, templates, OpenAPI, MCP schemas and text results, the list of API
  keys, the command line and wiring (`main.go`): read-only or no state.
* Migrations: run once before the server starts.
* Clients of links that are no browsers: they get a 401 instead of the login
  (`serve.go:76-82`), which ends the request like the 404 that is modelled.
* Signatures, random values and `safeRedirectPath`: sessions cannot be forged, keys,
  ids and states are not guessed or repeated, and paths to return to are paths of
  the site.
* Keys whose creation's answer was lost: nobody knows them. A revocation whose answer
  is lost is the same step as one that is answered: what the client is told of it is
  left out.
* Orphaned bytes: accepted by the code (`service.go:403-404`) when a delete fails;
  the one place where a comment promises otherwise is the `orphan` run.
