----------------------------- MODULE FileReads -----------------------------
(***************************************************************************)
(* Downloads beside the writes of FileService: the public link              *)
(* (PublicFileHandler), GET /v1/files/{id}/content (httpGetFileContent) and *)
(* the GetFileContent procedure.                                            *)
(*                                                                         *)
(* A download reads the row once to decide who may read, the first two read *)
(* it again for the headers (ServeFile), and the bytes are fetched last.    *)
(* Every read is a step of its own, and writes come in between.  Once a     *)
(* store has opened an object, the memory, GCS and S3 stores deliver that   *)
(* object whatever is written later, so opening it is one step.             *)
(***************************************************************************)
EXTENDS FileHistory, ByteRange

CONSTANTS
    Readers,  \* download slots
    Viewers,  \* signed-in users who download
    Asks      \* how they ask: [head, want, have], see Ask

\* A crash only ends the downloads, which keep nothing.
ASSUME NoCrashAssumption == "crash" \notin Faults

VARIABLE views

rvars == <<rows, blobs, minted, reqs, torn, views>>

\* HEAD instead of GET, a Range header or None, the tags of If-None-Match.
Ask == [head: BOOLEAN, want: Header \cup {None}, have: SUBSET ({Crc[c] : c \in Contents} \cup {"*"})]

ASSUME AskAssumption == Asks \subseteq Ask

Sizes == {Size[c] : c \in Contents}

ASSUME SizeAssumption == Sizes \subseteq Nat

\* The spans of bytes within a file of some size, and what of a content is sent.
Spans  == UNION {[start: 0..(n - 1), end: 0..(n - 1)] : n \in Sizes}
Bodies == UNION {[content: {c}, bytes: SUBSET (0..(Size[c] - 1))] : c \in Contents}

\* "unavailable" is a 500 because the database or the store failed, "error" a
\* 500 because the bytes were not what the row led the handler to expect.
Answers ==
    {"ok", "partial", "not_modified", "unsatisfiable", "redirect",
     "login", "denied", "not_found", "unavailable", "error", "panic"}
Statuses == Answers \cup {None}

ASSUME AnswerAssumption == None \notin Answers

Download ==
    [kind: {"link", "content", "rpc", None},
     pc: {"idle", "find", "own", "head", "open", "done"},
     user: Viewers \cup {None}, id: Ids \cup {None},
     slug: Values \cup {None},      \* the slug of the link that was followed
     ask: Asks \cup {None},
     says: Stored \cup {None},      \* the row's size and checksum in the headers
     span: Spans \cup {None}, status: Statuses, body: Bodies \cup {None},
     readable: BOOLEAN, calm: BOOLEAN]

ViewsTypeOK == views \in [Readers -> Download]

Resting ==
    [kind |-> None, pc |-> "idle", user |-> None, id |-> None, slug |-> None,
     ask |-> None, says |-> None, span |-> None, status |-> None, body |-> None,
     readable |-> FALSE, calm |-> FALSE]

RInit == HInit /\ views = [v \in Readers |-> Resting]

----------------------------------------------------------------------------
(* What the properties remember of a download, and no action reads: whether *)
(* its file was readable for its user in some state of it, and whether the  *)
(* file existed and was undisturbed in every one.                           *)

\* Mutant: a private file is treated like an internal one.
MayReadSignedIn(u, row) == row.attrs["visibility"] = "public" \/ u # None

\* Anything but public needs a signed-in user, anything but internal the owner.
MayRead(u, row) ==
    \/ row.attrs["visibility"] = "public"
    \/ u # None /\ (row.attrs["visibility"] = "internal" \/ u = row.owner)

Underway(w) == w.pc \notin {"idle", "done"}

\* Table t lets download w read its file through its interface.
Readable(w, t) ==
    /\ w.id \in DOMAIN t
    /\ \/ w.kind = "link" /\ t[w.id].attrs["visibility"] = "public"
       \/ w.kind = "link" /\ t[w.id].attrs["visibility"] = "internal" /\ w.user # None
       \/ w.user = t[w.id].owner

CalmFiles == {i \in DOMAIN rows : Window(i) = {} /\ i \notin torn}

Remember(w, t, calm) ==
    IF Underway(w)
    THEN [w EXCEPT !.readable = @ \/ Readable(w, t), !.calm = @ /\ w.id \in calm]
    ELSE w

----------------------------------------------------------------------------
(* The handlers                                                             *)

Shown(v, w) == views' = [views EXCEPT ![v] = w]
Continue(v, pc) == Shown(v, [views[v] EXCEPT !.pc = pc])
Finish(v, status) == Shown(v, [views[v] EXCEPT !.pc = "done", !.status = status])

BeginView(v) ==
    /\ views[v].pc = "idle"
    /\ \E k \in {"link", "content", "rpc"}, i \in Ids, a \in Asks,
          u \in Viewers \cup {None}, s \in Values :
        /\ k # "link" => u # None
        /\ Shown(v, Remember([Resting EXCEPT
               !.kind = k, !.user = u, !.id = i, !.ask = a, !.calm = TRUE,
               !.slug = IF k = "link" THEN s ELSE None,
               !.pc = IF k = "link" THEN "find" ELSE "own"], rows, CalmFiles))
    /\ UNCHANGED hvars

EndView(v) == views[v].pc = "done" /\ Shown(v, Resting) /\ UNCHANGED hvars

DbRefuses == "db_error" \in Faults

\* PublicFileHandler: the row, who may read it, and the slug of the link.
Find(v) ==
    LET w == views[v]
        found == w.id \in DOMAIN rows
        row == rows[w.id]
        slug == row.attrs["slug"]
    IN
    /\ w.pc = "find"
    /\ \/ ~found /\ Finish(v, "not_found")
       \/ /\ found /\ ~MayRead(w.user, row)
          /\ Finish(v, IF w.user = None THEN "login" ELSE "not_found")
       \/ found /\ MayRead(w.user, row) /\ w.slug # slug /\ Finish(v, "redirect")
       \/ found /\ MayRead(w.user, row) /\ w.slug = slug /\ Continue(v, "head")
       \/ DbRefuses /\ Finish(v, "unavailable")
    /\ UNCHANGED hvars

\* httpGetFileContent goes on to ServeFile; GetFileContent opens the bytes.
OwnView(v) ==
    LET w == views[v]
        verdict == Ownership(w.id, w.user)
    IN
    /\ w.pc = "own"
    /\ \/ verdict = "ok" /\ Continue(v, IF w.kind = "rpc" THEN "open" ELSE "head")
       \/ verdict # "ok" /\ Finish(v, verdict)
       \/ DbRefuses /\ Finish(v, "unavailable")
    /\ UNCHANGED hvars

\* If-None-Match: weak comparison.
EtagMatchesIfNoneMatch(tags, checksum) == "*" \in tags \/ checksum \in tags

\* ServeFile up to the store: the headers come from the row as it is now.
Head(v) ==
    LET w == views[v]
        stored == rows[w.id].stored
        said == [w EXCEPT !.says = stored]
        span == ParseByteRange(w.ask.want, stored.size)
        done(status) == Shown(v, [said EXCEPT !.pc = "done", !.status = status])
        fresh == stored.checksum # NoChecksum
                 /\ EtagMatchesIfNoneMatch(w.ask.have, stored.checksum)
        ranged == w.ask.want # None
    IN
    /\ w.pc = "head"
    /\ \/ w.id \notin DOMAIN rows /\ Finish(v, "not_found")
       \/ /\ w.id \in DOMAIN rows
          /\ \/ fresh /\ done("not_modified")
             \/ ~fresh /\ ranged /\ span = Unsatisfiable /\ done("unsatisfiable")
             \/ /\ ~fresh /\ ranged /\ span # Unsatisfiable
                /\ Shown(v, [said EXCEPT !.span = span,
                                !.pc = IF w.ask.head THEN "done" ELSE "open",
                                !.status = IF w.ask.head THEN "partial" ELSE None])
             \/ /\ ~fresh /\ ~ranged
                /\ IF w.ask.head THEN done("ok")
                                 ELSE Shown(v, [said EXCEPT !.pc = "open"])
       \/ DbRefuses /\ Finish(v, "unavailable")
    /\ UNCHANGED hvars

\* Mutant: the length of a range is taken for its last byte's distance.
SliceShort(c, span) == {b \in 0..(Size[c] - 1) : span.start <= b /\ b < span.end}

\* The bytes of content c that GetRange delivers for a span.
Slice(c, span) == {b \in 0..(Size[c] - 1) : span.start <= b /\ b <= span.end}

\* What a store does when a span starts behind the end of the content: the
\* memory store slices out of bounds, the remote ones answer an error.
BehindTheEnd(v, c) ==
    IF Backend = "memory" /\ views[v].span.start = Size[c]
    THEN Shown(v, [views[v] EXCEPT !.pc = "done", !.status = "partial",
                                   !.body = [content |-> c, bytes |-> {}]])
    ELSE Finish(v, IF Backend = "memory" THEN "panic" ELSE "error")

\* store.Get, or store.GetRange for a span, and the copy to the client.
Open(v) ==
    LET w == views[v]
        c == blobs[w.id]
    IN
    /\ w.pc = "open"
    /\ \/ /\ w.id \notin DOMAIN blobs
          /\ Finish(v, IF w.kind = "rpc" THEN "not_found" ELSE "error")
       \/ /\ w.id \in DOMAIN blobs /\ w.span = None
          /\ Shown(v, [w EXCEPT !.pc = "done", !.status = "ok",
                                !.body = [content |-> c, bytes |-> 0..(Size[c] - 1)]])
       \/ /\ w.id \in DOMAIN blobs /\ w.span # None /\ w.span.start < Size[c]
          /\ Shown(v, [w EXCEPT !.pc = "done", !.status = "partial",
                                !.body = [content |-> c, bytes |-> Slice(c, w.span)]])
       \/ /\ w.id \in DOMAIN blobs /\ w.span # None /\ w.span.start >= Size[c]
          /\ BehindTheEnd(v, c)
       \/ "store_error" \in Faults /\ Backend # "memory" /\ Finish(v, "unavailable")
    /\ UNCHANGED hvars

----------------------------------------------------------------------------
View(v) ==
    BeginView(v) \/ EndView(v) \/ Find(v) \/ OwnView(v) \/ Head(v) \/ Open(v)

\* A step of the file service, seen by the downloads under way.
Written ==
    /\ HNext
    /\ views' = [v \in Readers |-> Remember(views[v], rows', CalmFiles')]

RNext == Written \/ \E v \in Readers : View(v)

RSpec == RInit /\ [][RNext]_rvars

----------------------------------------------------------------------------
(* Properties                                                               *)

\* Bytes reach only a user who was allowed to read the file, through this
\* interface, at some moment of the request, although the row that decides and
\* the bytes are read at different times (serve.go:47-61, http.go:27).
ServedOnlyToReaders == \A v \in Readers : views[v].body # None => views[v].readable

\* When nobody replaces or deletes the file during a download and its last
\* replacement was not disturbed, the download finds its bytes, and the size and ETag
\* in its headers are those of the very content its bytes come from, in exactly
\* the range announced: the separate reads of row and bytes do not show.
UndisturbedDownloadsAreExact ==
    \A v \in Readers :
        LET w == views[v] IN
        (w.pc = "done" /\ w.calm) =>
            /\ w.status \notin {"error", "panic"}
            /\ (w.body # None /\ w.says # None) => w.says \in Reports(w.body.content)
            /\ (w.body # None /\ w.span # None) =>
                   w.body.bytes = w.span.start .. w.span.end
            /\ (w.body # None /\ w.span = None) =>
                   w.body.bytes = 0..(Size[w.body.content] - 1)

\* A 206 announces exactly the bytes its Range header names, of the size the row
\* gave, and a 416 is answered only when it names none.
RangesAreNamed ==
    \A v \in Readers :
        LET w == views[v] IN
        /\ w.span # None =>
               /\ w.span.start .. w.span.end = Named(w.ask.want, w.says.size)
               /\ Named(w.ask.want, w.says.size) # {}
        /\ w.status = "unsatisfiable" => Named(w.ask.want, w.says.size) = {}

\* storage.go:38: GetRange "retrieves a byte range by ID, or an error".
RangeReadsReturn == \A v \in Readers : views[v].status # "panic"
=============================================================================
