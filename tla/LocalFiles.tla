----------------------------- MODULE LocalFiles -----------------------------
(***************************************************************************)
(* The file service over the local store, which keeps one file per id in a  *)
(* directory.  Its Put is not atomic: it truncates the named file, writes   *)
(* the body piece by piece where its own descriptor stands, and on a failed *)
(* body tries to remove the name.  A descriptor stays on the file it was    *)
(* opened on, whatever becomes of the name.                                 *)
(*                                                                         *)
(* Contents are sequences of pieces, and a row's size and checksum are the  *)
(* content they were computed from.  Who may do what is FileService's       *)
(* matter: every request here is the owner's, and a handler's check and the *)
(* statement it guards are one step.                                        *)
(***************************************************************************)
EXTENDS Sequences, Naturals, FiniteSets

CONSTANTS
    Writers, Readers,   \* request slots: for changes and for downloads
    Ids,                \* ids the generator can return
    Inodes,             \* files of the file system, named or open
    Bodies,             \* bodies a client may send: sequences of pieces
    Hole,               \* what a place reads as that was never written
    Faults,             \* subset of {"bad_body", "disk_error", "db_error", "crash"};
                        \* a statement that fails may have been committed
    None

ASSUME SlotAssumption == Writers \cap Readers = {}
ASSUME BodyAssumption ==
    \A b \in Bodies : b \in Seq({b[k] : k \in DOMAIN b} \ {Hole})
ASSUME NoneAssumption ==
    /\ None \notin Ids \cup Inodes \cup Bodies
    /\ None \notin {"ok", "error", "create", "replace", "delete", "read", "range"}

VARIABLES
    dir,     \* the directory: id -> inode, for the ids whose data file exists
    disk,    \* inode -> its bytes, for the inodes named or open
    rows,    \* the files table: id -> the content its size and checksum describe
    minted,  \* ids drawn
    slots    \* what each request is doing

lvars == <<dir, disk, rows, minted, slots>>

Clients == Writers \cup Readers

Idle ==
    [op |-> None, pc |-> "idle", id |-> None, body |-> None, fd |-> None, at |-> 0,
     said |-> None, from |-> 0, upto |-> 0, got |-> <<>>, reply |-> None, unseen |-> {}]

InFlight(q) == q.pc \notin {"idle", "done"}

With(f, x, v) == [y \in DOMAIN f \cup {x} |-> IF y = x THEN v ELSE f[y]]
Without(f, x) == [y \in DOMAIN f \ {x} |-> f[y]]

\* The inodes with a name or a descriptor.  The others are gone.
Live == {dir[i] : i \in DOMAIN dir} \cup ({slots[c].fd : c \in Clients} \ {None})

\* The disk becomes d, less what has neither name nor descriptor any more.
DiskIs(d) == disk' = [n \in Live' |-> d[n]]

Become(c, q) == slots' = [slots EXCEPT ![c] = q]
Goto(c, pc) == Become(c, [slots[c] EXCEPT !.pc = pc])

\* A request ends with an answer; what it leaves behind unseen: the "name" of a file
\* that os.Remove failed to take away, or a "row" whose INSERT was committed and
\* reported as failed.
AnswerLeaving(c, reply, left) ==
    Become(c, [slots[c] EXCEPT !.pc = "done", !.reply = reply, !.fd = None,
                               !.body = None, !.at = 0, !.unseen = @ \cup left])
Answer(c, reply) == AnswerLeaving(c, reply, {})

Init ==
    /\ dir = [i \in {} |-> None] /\ disk = [n \in {} |-> None]
    /\ rows = [i \in {} |-> None] /\ minted = {}
    /\ slots = [c \in Clients |-> Idle]

----------------------------------------------------------------------------
(* Requests.  UploadFile and CreateFile draw an id and go to the store;     *)
(* replaceFile, DeleteFile and a download look for the row first.           *)

Start(c, q) == slots[c].pc = "idle" /\ Become(c, q)

BeginCreate(c) ==
    \E i \in Ids \ minted, b \in Bodies :
        /\ Start(c, [Idle EXCEPT !.op = "create", !.pc = "open", !.id = i, !.body = b])
        /\ minted' = minted \cup {i}
        /\ UNCHANGED <<dir, disk, rows>>

\* A request for a file goes on if the file has a row, and is refused otherwise.
Address(c, i, op, q) ==
    /\ \/ i \in DOMAIN rows /\ Start(c, [q EXCEPT !.op = op, !.id = i])
       \/ /\ i \notin DOMAIN rows
          /\ Start(c, [Idle EXCEPT !.op = op, !.pc = "done", !.reply = "not_found"])
       \/ /\ "db_error" \in Faults
          /\ Start(c, [Idle EXCEPT !.op = op, !.pc = "done", !.reply = "error"])
    /\ UNCHANGED <<dir, disk, rows, minted>>

BeginReplace(c) ==
    \E i \in Ids, b \in Bodies :
        Address(c, i, "replace", [Idle EXCEPT !.pc = "open", !.body = b])

BeginDelete(c) ==
    \E i \in Ids : Address(c, i, "delete", [Idle EXCEPT !.pc = "unlink"])

BeginRead(c) ==
    \E i \in Ids :
        Address(c, i, "read", [Idle EXCEPT !.pc = "fetch", !.said = rows[i],
                                           !.upto = Len(rows[i])])

\* A range as ParseByteRange makes one of the row's size.
BeginRange(c) ==
    \E i \in DOMAIN rows : \E from, upto \in 0..Len(rows[i]) :
        /\ from < upto
        /\ Address(c, i, "range", [Idle EXCEPT !.pc = "fetch", !.said = rows[i],
                                            !.from = from, !.upto = upto])

Close(c) ==
    /\ slots[c].pc = "done"
    /\ Become(c, Idle)
    /\ UNCHANGED <<dir, disk, rows, minted>>

----------------------------------------------------------------------------
(* Storage.Put                                                              *)

\* Mutant: an existing file keeps its bytes when it is opened.
CreateUntruncated(d, n) == IF n \in DOMAIN d THEN d ELSE With(d, n, <<>>)

\* os.Create on inode n: the file is there and empty.
Create(d, n) == With(d, n, <<>>)

\* The inode a name opens: its own, or a new one.
Opened(i) == IF i \in DOMAIN dir THEN {dir[i]} ELSE Inodes \ Live

Open(c) ==
    LET q == slots[c] IN
    /\ q.pc = "open"
    /\ \/ \E n \in Opened(q.id) :
             /\ dir' = With(dir, q.id, n)
             /\ Become(c, [q EXCEPT !.pc = "write", !.fd = n])
             /\ DiskIs(Create(disk, n))
       \/ "disk_error" \in Faults /\ Answer(c, "error") /\ UNCHANGED <<dir, disk>>
    /\ UNCHANGED <<rows, minted>>

\* Bytes s after a write of piece x at offset k.
Written(s, k, x) ==
    [j \in DOMAIN s \cup 1..(k + 1) |->
        IF j = k + 1 THEN x ELSE IF j \in DOMAIN s THEN s[j] ELSE Hole]

Write(c) ==
    LET q == slots[c] IN
    /\ q.pc = "write" /\ q.at < Len(q.body)
    /\ Become(c, [q EXCEPT !.at = @ + 1])
    /\ disk' = [disk EXCEPT ![q.fd] = Written(@, q.at, q.body[q.at + 1])]
    /\ UNCHANGED <<dir, rows, minted>>

\* The body ended: its size and checksum are those of what was read.
PutReturns(c) ==
    LET q == slots[c] IN
    /\ q.pc = "write" /\ q.at = Len(q.body)
    /\ Become(c, [q EXCEPT !.fd = None, !.at = 0,
                           !.pc = IF q.op = "create" THEN "insert" ELSE "describe"])
    /\ UNCHANGED <<dir, rows, minted>>
    /\ DiskIs(disk)

\* Mutant: nothing is removed, and nothing is known to be left.
LeaveName(i) == dir

\* os.Remove of an id's name, whichever file has it by now.
RemoveName(i) == Without(dir, i)

\* Nobody looks at what os.Remove returns after a failed body, and what it returns
\* to Storage.Delete is only logged: its failure leaves the name.
Remove(c, reply) ==
    /\ \/ dir' = RemoveName(slots[c].id) /\ Answer(c, reply)
       \/ /\ "disk_error" \in Faults /\ slots[c].id \in DOMAIN dir
          /\ UNCHANGED dir /\ AnswerLeaving(c, reply, {"name"})
    /\ DiskIs(disk)
    /\ UNCHANGED <<rows, minted>>

\* The body could not be read to its end, or a write failed.
PutFails(c) ==
    /\ slots[c].pc = "write" /\ Faults \cap {"bad_body", "disk_error"} # {}
    /\ Remove(c, "error")

----------------------------------------------------------------------------
(* After the Put, and DeleteFile                                            *)

\* Mutant: the size and checksum miss the last piece.
InsertShort(c) ==
    LET q == slots[c] IN
    /\ q.pc = "insert"
    /\ rows' = With(rows, q.id, SubSeq(q.body, 1, Len(q.body) - 1))
    /\ Answer(c, "ok")
    /\ UNCHANGED <<dir, disk, minted>>

\* Mutant: a failed insert is answered without a cleanup.
InsertOrLeave(c) ==
    LET q == slots[c] IN
    /\ q.pc = "insert"
    /\ \/ rows' = With(rows, q.id, q.body) /\ Answer(c, "ok")
       \/ "db_error" \in Faults /\ UNCHANGED rows /\ Answer(c, "error")
    /\ UNCHANGED <<dir, disk, minted>>

Insert(c) ==
    LET q == slots[c] IN
    /\ q.pc = "insert"
    /\ \/ /\ rows' = With(rows, q.id, q.body)
          /\ \/ Answer(c, "ok")
             \/ /\ "db_error" \in Faults
                /\ Become(c, [q EXCEPT !.pc = "cleanup", !.unseen = {"row"}])
       \/ "db_error" \in Faults /\ UNCHANGED rows /\ Goto(c, "cleanup")
    /\ UNCHANGED <<dir, disk, minted>>

\* db.UpdateFileContent and the GetFile for the reply, which may fail when the row
\* is already changed.
Describe(c) ==
    LET q == slots[c] IN
    /\ q.pc = "describe"
    /\ \/ /\ q.id \in DOMAIN rows
          /\ rows' = [rows EXCEPT ![q.id] = q.body]
          /\ Answer(c, "ok") \/ ("db_error" \in Faults /\ Answer(c, "error"))
       \/ q.id \notin DOMAIN rows /\ UNCHANGED rows /\ Answer(c, "not_found")
       \/ "db_error" \in Faults /\ UNCHANGED rows /\ Answer(c, "error")
    /\ UNCHANGED <<dir, disk, minted>>

Unlink(c) ==
    LET q == slots[c] IN
    /\ q.pc = "unlink"
    /\ \/ /\ q.id \in DOMAIN rows
          /\ rows' = Without(rows, q.id)
          /\ Goto(c, "erase") \/ ("db_error" \in Faults /\ Answer(c, "error"))
       \/ q.id \notin DOMAIN rows /\ UNCHANGED rows /\ Answer(c, "not_found")
       \/ "db_error" \in Faults /\ UNCHANGED rows /\ Answer(c, "error")
    /\ UNCHANGED <<dir, disk, minted>>

\* Storage.Delete: of DeleteFile, and of putFile after a failed insert.
Erase(c) ==
    LET q == slots[c] IN
    \/ q.pc = "erase" /\ Remove(c, "ok")
    \/ q.pc = "cleanup" /\ Remove(c, "error")

----------------------------------------------------------------------------
(* Storage.Get, Storage.GetRange and the copy to the client                 *)

\* os.Open, and for a range the seek to its start.  (A file that is not there is
\* answered as any other error is, 500; the replies here tell the two apart.)
Fetch(c) ==
    LET q == slots[c] IN
    /\ q.pc = "fetch"
    /\ \/ /\ q.id \in DOMAIN dir
          /\ Become(c, [q EXCEPT !.pc = "copy", !.fd = dir[q.id], !.at = q.from])
       \/ q.id \notin DOMAIN dir /\ Answer(c, "missing")
       \/ "disk_error" \in Faults /\ Answer(c, "error")
    /\ UNCHANGED <<dir, disk, rows, minted>>

\* Mutant: a range is copied to the end of the file.
GoesOnToTheEnd(q) == q.at < Len(disk[q.fd])

\* GetRange leaves the end of a range to its caller, whose CopyN stops there; a
\* whole download goes on to the end of the file.
GoesOn(q) == q.at < Len(disk[q.fd]) /\ (q.op = "range" => q.at < q.upto)

Copy(c) ==
    LET q == slots[c] IN
    /\ q.pc = "copy" /\ GoesOn(q)
    /\ Become(c, [q EXCEPT !.got = Append(@, disk[q.fd][q.at + 1]), !.at = @ + 1])
    /\ UNCHANGED <<dir, disk, rows, minted>>

\* A range that ends early is an error of CopyN, which the handler only logs.
CopyEnds(c) ==
    LET q == slots[c] IN
    /\ q.pc = "copy" /\ ~GoesOn(q)
    /\ Answer(c, IF q.op = "range" /\ q.at < q.upto THEN "short" ELSE "ok")
    /\ UNCHANGED <<dir, rows, minted>>
    /\ DiskIs(disk)

\* The file cannot be read on: the headers are sent, and the answer is cut off.
CopyFails(c) ==
    /\ slots[c].pc = "copy" /\ "disk_error" \in Faults
    /\ Answer(c, "cut")
    /\ UNCHANGED <<dir, rows, minted>>
    /\ DiskIs(disk)

----------------------------------------------------------------------------
\* The process dies; directory, files and database stay.
Restart ==
    /\ "crash" \in Faults /\ \E c \in Clients : InFlight(slots[c])
    /\ slots' = [c \in Clients |-> IF InFlight(slots[c]) THEN Idle ELSE slots[c]]
    /\ UNCHANGED <<dir, rows, minted>>
    /\ DiskIs(disk)

WriterStep(c) ==
    \/ BeginCreate(c) \/ BeginReplace(c) \/ BeginDelete(c) \/ Close(c)
    \/ Open(c) \/ Write(c) \/ PutReturns(c) \/ PutFails(c)
    \/ Insert(c) \/ Describe(c) \/ Unlink(c) \/ Erase(c)

ReaderStep(c) ==
    \/ BeginRead(c) \/ BeginRange(c) \/ Close(c)
    \/ Fetch(c) \/ Copy(c) \/ CopyEnds(c) \/ CopyFails(c)

LNext ==
    \/ Restart
    \/ \E c \in Writers : WriterStep(c)
    \/ \E c \in Readers : ReaderStep(c)
=============================================================================
