---------------------------- MODULE FileService ----------------------------
(***************************************************************************)
(* The file service of stashy: uploads, content replacements, updates and   *)
(* deletions, run concurrently by the requests of Requests against the      *)
(* database (rows) and a byte store (blobs).                                *)
(*                                                                         *)
(* The two stores are not written in one transaction and no lock is held    *)
(* from one call to the next: every database statement and every store call *)
(* is a step of its own, and the steps of different requests interleave.    *)
(* What fails is chosen by the constant Faults:                             *)
(*   "crash"        the process dies and restarts between any two steps     *)
(*   "cancel"       a request's context is cancelled (the client went away) *)
(*   "bad_body"     reading the request's body fails before its end         *)
(*   "db_error"     a database statement fails and has no effect            *)
(*   "lost_answer"  a database write commits and its answer is lost         *)
(*   "store_error"  a call of a remote store fails, or its answer is lost   *)
(***************************************************************************)
EXTENDS FiniteSets

CONSTANTS
    Requests,    \* request slots: how many requests the server runs at once
    Ids,         \* ids the generator can return
    Users,       \* user ids; every request of this module is authenticated
    Payloads,    \* bodies a client may send
    Cut,         \* what is left of a body whose end was never read
    Size, Crc,   \* the length and the CRC32C of a content
    NoChecksum,  \* the empty checksum, when a backend reports none
    Values,      \* values of a file's slug, name and visibility
    Conditions,  \* If-Match headers requests carry, as sets of tags; {}: none
    Patches,     \* the sets of attributes update requests set
    Backend,     \* the byte store the server was started with
    Faults,      \* what may go wrong
    None         \* no value

Fields   == {"slug", "name", "visibility"}
Contents == Payloads \cup {Cut}
Stored   == [size: {Size[c] : c \in Contents},
             checksum: {Crc[c] : c \in Contents} \cup {NoChecksum}]

ASSUME NoneAssumption ==
    None \notin Ids \cup Users \cup Payloads \cup Values \cup Stored
ASSUME ReplyAssumption ==
    None \notin {"ok", "denied", "not_found", "precondition", "error"}
ASSUME CutAssumption == Cut \notin Payloads
ASSUME SummaryAssumption == DOMAIN Size = Contents /\ DOMAIN Crc = Contents
ASSUME InputAssumption == \A p \in Patches : p \subseteq Fields
ASSUME BackendAssumption == Backend \in {"memory", "s3", "gcs"}

VARIABLES
    rows,    \* the files table: id -> row, for the ids that have one
    blobs,   \* the byte store: id -> content, for the ids that have bytes
    minted,  \* ids the generator has returned
    reqs     \* what each request is doing

vars == <<rows, blobs, minted, reqs>>

----------------------------------------------------------------------------
Row == [owner: Users, attrs: [Fields -> Values], stored: Stored]

\* Where a request is: before which call of its handler.
Points ==
    {"idle", "put", "insert", "cleanup",                    \* create
     "own", "overwrite", "recheck", "describe", "reread",   \* replace
     "check", "set", "show",                                \* update
     "authorize", "unlink", "erase",                        \* delete
     "done"}

Replies == {None, "ok", "denied", "not_found", "precondition", "error"}

Request ==
    [op: {"create", "replace", "update", "delete", None}, pc: Points,
     user: Users \cup {None}, id: Ids \cup {None}, body: Payloads \cup {None},
     cond: Conditions \cup {{}}, todo: SUBSET Fields, value: Values \cup {None},
     stored: Stored \cup {None},  \* what the store reported of its Put
     cancelled: BOOLEAN,          \* the request's context is done
     wrote: BOOLEAN,              \* the request has changed a row or bytes
     reply: Replies]

Idle ==
    [op |-> None, pc |-> "idle", user |-> None, id |-> None, body |-> None,
     cond |-> {}, todo |-> {}, value |-> None, stored |-> None,
     cancelled |-> FALSE, wrote |-> FALSE, reply |-> None]

TypeOK ==
    /\ DOMAIN rows \subseteq Ids /\ \A i \in DOMAIN rows : rows[i] \in Row
    /\ DOMAIN blobs \subseteq Ids /\ \A i \in DOMAIN blobs : blobs[i] \in Contents
    /\ minted \subseteq Ids
    /\ reqs \in [Requests -> Request]

\* A table with x bound to v, and a table without x.
With(f, x, v) == [y \in DOMAIN f \cup {x} |-> IF y = x THEN v ELSE f[y]]
Without(f, x) == [y \in DOMAIN f \ {x} |-> f[y]]

InFlight(q) == q.pc \notin {"idle", "done"}

\* Request r's record becomes q; it goes on at pc; it is answered.
Become(r, q) == reqs' = [reqs EXCEPT ![r] = q]
Goto(r, pc) == Become(r, [reqs[r] EXCEPT !.pc = pc])
Answer(r, reply) == Become(r, [reqs[r] EXCEPT !.pc = "done", !.reply = reply])

Init ==
    /\ rows = [i \in {} |-> None] /\ blobs = [i \in {} |-> None]
    /\ minted = {}
    /\ reqs = [r \in Requests |-> Idle]

----------------------------------------------------------------------------
(* What a database statement and a store call may answer.  A statement on a *)
(* cancelled context fails before it is sent.  The memory store never looks *)
(* at the context; the remote stores do.                                    *)

DbAnswers(q) == ~q.cancelled
DbFails(q)   == q.cancelled \/ "db_error" \in Faults
DbUnheard(q) == ~q.cancelled /\ "lost_answer" \in Faults

StoreAnswers(q) == Backend = "memory" \/ ~q.cancelled
StoreFails(q)   == Backend # "memory" /\ (q.cancelled \/ "store_error" \in Faults)

\* Mutant: any user passes for the owner of a file that exists.
OwnershipOfAnyone(i, u) == IF i \in DOMAIN rows THEN "ok" ELSE "not_found"

\* GetFile with the owner compared (ownedFile), and CheckFileOwner.
Ownership(i, u) ==
    IF i \notin DOMAIN rows THEN "not_found"
    ELSE IF rows[i].owner = u THEN "ok" ELSE "denied"

\* What a store reports of content c once it holds it.
Reports(c) ==
    [size: {Size[c]},
     checksum: {Crc[c]} \cup (IF Backend = "s3" THEN {NoChecksum} ELSE {})]

\* What a Put that answers an error may leave behind: the whole body when only
\* its answer was lost, and on GCS the part of the body that was read, which
\* closing the writer commits.
Remains(q) ==
    {c \in {q.body} : StoreFails(q)}
    \cup {c \in {Cut} : Backend = "gcs" /\ ~q.cancelled /\ "bad_body" \in Faults}

\* The byte store after a Put of request q that answered an error.
AfterFailedPut(q) == {blobs} \cup {With(blobs, q.id, c) : c \in Remains(q)}

PutFails(q) == q.cancelled \/ "bad_body" \in Faults \/ StoreFails(q)

\* The byte store after a Delete call, whose error the callers only log.
AfterErase(q) ==
    {Without(blobs, q.id)} \cup {b \in {blobs} : StoreFails(q)}

\* If-Match uses strong comparison; a file without a checksum matches only "*".
EtagMatchesIfMatch(tags, checksum) ==
    "*" \in tags \/ (checksum # NoChecksum /\ checksum \in tags)

----------------------------------------------------------------------------
(* Requests arrive, lose their client, and are forgotten once answered.     *)

Start(r, q) == reqs[r].pc = "idle" /\ Become(r, q)

\* Mutant: an id is unique only among the files of the moment.
BeginCreateReusingIds(r) ==
    \E u \in Users, i \in Ids \ DOMAIN rows, p \in Payloads, v \in Values :
        /\ Start(r, [Idle EXCEPT !.op = "create", !.pc = "put", !.user = u,
                                 !.id = i, !.body = p, !.value = v])
        /\ minted' = minted \cup {i}
        /\ UNCHANGED <<rows, blobs>>

\* CreateFile, UploadFile: putFile draws the id before it stores anything.
BeginCreate(r) ==
    \E u \in Users, i \in Ids \ minted, p \in Payloads, v \in Values :
        /\ Start(r, [Idle EXCEPT !.op = "create", !.pc = "put", !.user = u,
                                 !.id = i, !.body = p, !.value = v])
        /\ minted' = minted \cup {i}
        /\ UNCHANGED <<rows, blobs>>

\* Mutant: the ownership check before the Put is dropped.
BeginReplaceUnchecked(r) ==
    \E u \in Users, i \in Ids, p \in Payloads, m \in Conditions :
        /\ Start(r, [Idle EXCEPT !.op = "replace", !.pc = "overwrite", !.user = u,
                                 !.id = i, !.body = p, !.cond = m])
        /\ UNCHANGED <<rows, blobs, minted>>

\* UpdateFileContent (no condition) and PUT /v1/files/{id}/content (If-Match).
BeginReplace(r) ==
    \E u \in Users, i \in Ids, p \in Payloads, m \in Conditions :
        /\ Start(r, [Idle EXCEPT !.op = "replace", !.pc = "own", !.user = u,
                                 !.id = i, !.body = p, !.cond = m])
        /\ UNCHANGED <<rows, blobs, minted>>

BeginUpdate(r) ==
    \E u \in Users, i \in Ids, t \in Patches, v \in Values :
        /\ Start(r, [Idle EXCEPT !.op = "update", !.user = u, !.id = i,
                                 !.todo = t, !.value = v,
                                 !.pc = IF t = {} THEN "show" ELSE "check"])
        /\ UNCHANGED <<rows, blobs, minted>>

BeginDelete(r) ==
    \E u \in Users, i \in Ids :
        /\ Start(r, [Idle EXCEPT !.op = "delete", !.pc = "authorize",
                                 !.user = u, !.id = i])
        /\ UNCHANGED <<rows, blobs, minted>>

Cancel(r) ==
    /\ "cancel" \in Faults /\ InFlight(reqs[r]) /\ ~reqs[r].cancelled
    /\ Become(r, [reqs[r] EXCEPT !.cancelled = TRUE])
    /\ UNCHANGED <<rows, blobs, minted>>

Close(r) ==
    /\ reqs[r].pc = "done"
    /\ Become(r, Idle)
    /\ UNCHANGED <<rows, blobs, minted>>

----------------------------------------------------------------------------
(* putFile                                                                  *)

\* store.Put: the bytes go first.
Put(r) ==
    LET q == reqs[r] IN
    /\ q.pc = "put"
    /\ \/ /\ StoreAnswers(q)
          /\ blobs' = With(blobs, q.id, q.body)
          /\ \E s \in Reports(q.body) :
                Become(r, [q EXCEPT !.pc = "insert", !.stored = s])
       \/ /\ PutFails(q)
          /\ blobs' \in AfterFailedPut(q)
          /\ Answer(r, "error")
    /\ UNCHANGED <<rows, minted>>

\* Mutant: the row is inserted without its owner.
NewRowWithoutOwner(q) ==
    [owner |-> None, attrs |-> [f \in Fields |-> q.value], stored |-> q.stored]

NewRow(q) ==
    [owner |-> q.user, attrs |-> [f \in Fields |-> q.value], stored |-> q.stored]

\* db.CreateFile
Insert(r) ==
    LET q == reqs[r] IN
    /\ q.pc = "insert"
    /\ \/ /\ DbAnswers(q)
          /\ rows' = With(rows, q.id, NewRow(q))
          /\ Become(r, [q EXCEPT !.pc = "done", !.reply = "ok", !.wrote = TRUE])
       \/ DbFails(q) /\ UNCHANGED rows /\ Goto(r, "cleanup")
       \/ /\ DbUnheard(q)
          /\ rows' = With(rows, q.id, NewRow(q))
          /\ Become(r, [q EXCEPT !.pc = "cleanup", !.wrote = TRUE])
    /\ UNCHANGED <<blobs, minted>>

\* The insert failed: store.Delete on the same context, its error only logged.
Cleanup(r) ==
    LET q == reqs[r] IN
    /\ q.pc = "cleanup"
    /\ blobs' \in AfterErase(q)
    /\ Answer(r, "error")
    /\ UNCHANGED <<rows, minted>>

----------------------------------------------------------------------------
(* replaceFile                                                              *)

\* ownedFile, then the If-Match check against the row just read.
Own(r) ==
    LET q == reqs[r]
        verdict == Ownership(q.id, q.user)
    IN
    /\ q.pc = "own"
    /\ \/ /\ DbAnswers(q) /\ verdict = "ok"
          /\ IF q.cond # {} /\ ~EtagMatchesIfMatch(q.cond, rows[q.id].stored.checksum)
             THEN Answer(r, "precondition")
             ELSE Goto(r, "overwrite")
       \/ DbAnswers(q) /\ verdict # "ok" /\ Answer(r, verdict)
       \/ DbFails(q) /\ Answer(r, "error")
    /\ UNCHANGED <<rows, blobs, minted>>

\* store.Put over the current bytes.
Overwrite(r) ==
    LET q == reqs[r] IN
    /\ q.pc = "overwrite"
    /\ \/ /\ StoreAnswers(q)
          /\ blobs' = With(blobs, q.id, q.body)
          /\ \E s \in Reports(q.body) :
                Become(r, [q EXCEPT !.pc = "recheck", !.stored = s, !.wrote = TRUE])
       \/ /\ PutFails(q)
          /\ blobs' \in AfterFailedPut(q)
          /\ Become(r, [q EXCEPT !.pc = "done", !.reply = "error",
                                 !.wrote = (blobs' # blobs)])
    /\ UNCHANGED <<rows, minted>>

\* A CheckFileOwner statement of the database layer, before its write.
Authorize(r, from, to) ==
    LET q == reqs[r]
        verdict == Ownership(q.id, q.user)
    IN
    /\ q.pc = from
    /\ \/ DbAnswers(q) /\ verdict = "ok" /\ Goto(r, to)
       \/ DbAnswers(q) /\ verdict # "ok" /\ Answer(r, verdict)
       \/ DbFails(q) /\ Answer(r, "error")
    /\ UNCHANGED <<rows, blobs, minted>>

\* Mutant: the row is not told of the new content.
RecheckOnly(r) == Authorize(r, "recheck", "reread")

Recheck(r) == Authorize(r, "recheck", "describe")

\* An UPDATE ... WHERE id = ?: a missing row is no error and stays missing.
Write(r, new, to) ==
    LET q == reqs[r]
        written == IF q.id \in DOMAIN rows THEN [rows EXCEPT ![q.id] = new] ELSE rows
    IN
    /\ \/ /\ DbAnswers(q)
          /\ rows' = written
          /\ Become(r, to)
       \/ DbFails(q) /\ UNCHANGED rows /\ Answer(r, "error")
       \/ /\ DbUnheard(q)
          /\ rows' = written
          /\ Become(r, [q EXCEPT !.pc = "done", !.reply = "error", !.wrote = TRUE])
    /\ UNCHANGED <<blobs, minted>>

\* db.UpdateFileContent's UPDATE of content_type, size and checksum.
Describe(r) ==
    LET q == reqs[r] IN
    /\ q.pc = "describe"
    /\ Write(r, [rows[q.id] EXCEPT !.stored = q.stored],
                [q EXCEPT !.pc = "reread", !.wrote = TRUE])

\* db.GetFile for the reply.
Reread(r) ==
    LET q == reqs[r] IN
    /\ q.pc = "reread"
    /\ \/ DbAnswers(q) /\ q.id \in DOMAIN rows /\ Answer(r, "ok")
       \/ DbAnswers(q) /\ q.id \notin DOMAIN rows /\ Answer(r, "not_found")
       \/ DbFails(q) /\ Answer(r, "error")
    /\ UNCHANGED <<rows, blobs, minted>>

----------------------------------------------------------------------------
(* UpdateFile: slug, then name, then visibility, each checked and set by two *)
(* statements, then ownedFile for the reply.                                *)

NextField(todo) ==
    CASE "slug" \in todo -> "slug"
      [] "slug" \notin todo /\ "name" \in todo -> "name"
      [] OTHER -> "visibility"

Check(r) == Authorize(r, "check", "set")

Set(r) ==
    LET q == reqs[r]
        f == NextField(q.todo)
        left == q.todo \ {f}
    IN
    /\ q.pc = "set"
    /\ Write(r, [rows[q.id] EXCEPT !.attrs[f] = q.value],
                [q EXCEPT !.todo = left, !.wrote = TRUE,
                          !.pc = IF left = {} THEN "show" ELSE "check"])

Show(r) ==
    LET q == reqs[r]
        verdict == Ownership(q.id, q.user)
    IN
    /\ q.pc = "show"
    /\ \/ DbAnswers(q) /\ Answer(r, verdict)
       \/ DbFails(q) /\ Answer(r, "error")
    /\ UNCHANGED <<rows, blobs, minted>>

----------------------------------------------------------------------------
(* DeleteFile: the row first, then the bytes.                               *)

\* Mutant: the bytes are erased and the row is kept.
AuthorizeErase(r) == Authorize(r, "authorize", "erase")

AuthorizeDelete(r) == Authorize(r, "authorize", "unlink")

Unlink(r) ==
    LET q == reqs[r] IN
    /\ q.pc = "unlink"
    /\ \/ /\ DbAnswers(q)
          /\ rows' = Without(rows, q.id)
          /\ Become(r, [q EXCEPT !.pc = "erase", !.wrote = TRUE])
       \/ DbFails(q) /\ UNCHANGED rows /\ Answer(r, "error")
       \/ /\ DbUnheard(q)
          /\ rows' = Without(rows, q.id)
          /\ Become(r, [q EXCEPT !.pc = "done", !.reply = "error", !.wrote = TRUE])
    /\ UNCHANGED <<blobs, minted>>

\* store.Delete: a failure leaves orphaned bytes and is only logged.
Erase(r) ==
    LET q == reqs[r] IN
    /\ q.pc = "erase"
    /\ blobs' \in AfterErase(q)
    /\ Answer(r, "ok")
    /\ UNCHANGED <<rows, minted>>

----------------------------------------------------------------------------
\* The process dies with its requests and starts again.  The database and the
\* remote stores keep what they hold; the memory store starts empty.
Restart ==
    /\ "crash" \in Faults /\ \E r \in Requests : InFlight(reqs[r])
    /\ reqs' = [r \in Requests |-> IF InFlight(reqs[r]) THEN Idle ELSE reqs[r]]
    /\ blobs' = IF Backend = "memory" THEN [i \in {} |-> None] ELSE blobs
    /\ UNCHANGED <<rows, minted>>

Step(r) ==
    \/ BeginCreate(r) \/ BeginReplace(r) \/ BeginUpdate(r) \/ BeginDelete(r)
    \/ Cancel(r) \/ Close(r)
    \/ Put(r) \/ Insert(r) \/ Cleanup(r)
    \/ Own(r) \/ Overwrite(r) \/ Recheck(r) \/ Describe(r) \/ Reread(r)
    \/ Check(r) \/ Set(r) \/ Show(r)
    \/ AuthorizeDelete(r) \/ Unlink(r) \/ Erase(r)

Next == Restart \/ \E r \in Requests : Step(r)

Spec == Init /\ [][Next]_vars

----------------------------------------------------------------------------
(* Properties                                                               *)

\* Every file a reader can find has bytes to serve: putFile stores them before
\* it inserts the row, DeleteFile removes them after it has removed the row,
\* and no step of another request comes between (service.go, putFile's comment:
\* the database stays the source of truth).  Excluded are a memory store that
\* restarts and a database write whose answer is lost.
RowsHaveBytes == DOMAIN rows \subseteq DOMAIN blobs

\* A step changes the row or the bytes of an existing file only on behalf of
\* its owner, although the ownership check and the write are separate
\* statements and the bytes are written long after the check.
OnlyOwnersWrite ==
    [][\A i \in DOMAIN rows :
          \/ i \in DOMAIN rows' /\ rows'[i] = rows[i]
             /\ (i \in DOMAIN blobs => i \in DOMAIN blobs' /\ blobs'[i] = blobs[i])
          \/ \E r \in Requests : /\ reqs'[r] # reqs[r]
                                 /\ reqs[r].id = i
                                 /\ reqs[r].user = rows[i].owner
      ]_vars

\* A request that is refused (403, or 412 for a failed If-Match) has changed
\* nothing, on whichever of its checks it was refused (replaceFile's comment:
\* "else errPreconditionFailed is returned before anything is written").
RefusedLeavesNoTrace ==
    \A r \in Requests :
        reqs[r].reply \in {"denied", "precondition"} => ~reqs[r].wrote

\* README.md, "Replace a file": the checksum in a file's metadata is the CRC32C
\* of its content.  Claimed of every file no request is working on.
ChecksumDescribesContent ==
    \A i \in DOMAIN rows :
        (\A r \in Requests : InFlight(reqs[r]) => reqs[r].id # i)
            => rows[i].stored \in Reports(blobs[i])

\* README.md, "Replace a file": a PUT with If-Match overwrites only the content
\* the header names.
IfMatchGuardsContent ==
    [][\A r \in Requests :
          LET q == reqs[r] IN
          (q.pc = "overwrite" /\ reqs'[r].pc = "recheck" /\ q.cond # {}
             /\ q.id \in DOMAIN blobs)
            => EtagMatchesIfMatch(q.cond, Crc[blobs[q.id]])
      ]_vars

\* service.go, putFile's comment: "if the insert fails the orphaned bytes are
\* removed".
FailedInsertLeavesNoBytes ==
    \A r \in Requests :
        (reqs[r].op = "create" /\ reqs[r].reply = "error" /\ reqs[r].stored # None)
            => reqs[r].id \notin DOMAIN blobs

----------------------------------------------------------------------------
(* The service implements FileCatalog: a file is a row with its bytes, and  *)
(* an id is spent when it was drawn and neither has a row nor is about to   *)
(* get one.                                                                 *)

\* r holds an id it has drawn and has not given up.
Pending(q) == q.pc \in {"put", "insert", "cleanup"}

\* The ids that name no file and that no upload is about to give one.
Spent == {i \in minted \ DOMAIN rows : \A r \in Requests : Pending(reqs[r]) => reqs[r].id # i}

Catalog == INSTANCE FileCatalog WITH
    files <- [i \in DOMAIN rows |-> [owner |-> rows[i].owner, attrs |-> rows[i].attrs,
                                     content |-> blobs[i]]],
    spent <- Spent

\* Every behaviour of the service is a behaviour of the catalog.
ImplementsCatalog == Catalog!Spec

\* What the catalog says of ids holds of the service even where it is no catalog,
\* when answers are lost or bytes do not outlive a restart: an id whose file was
\* deleted, or whose upload was given up, never names a file again.  Whatever
\* still carries it leads nowhere, never to another file.
DeletedForGood == [][Spent \subseteq Spent' \ DOMAIN rows']_vars
============================================================================
