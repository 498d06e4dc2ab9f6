---------------------------- MODULE LocalHistory ----------------------------
(***************************************************************************)
(* LocalFiles with what its properties remember and no action reads:        *)
(*   torn    files whose last replacement was disturbed: another one was    *)
(*           between its truncation and its description or removal at the   *)
(*           same time, or it ended without success                         *)
(*   blurred files whose last bytes were written by two at once, whose      *)
(*           writer died with the process, or of which a failed body could  *)
(*           not be removed                                                 *)
(*   calm    downloads during which nothing was stored under their id       *)
(***************************************************************************)
EXTENDS LocalFiles

VARIABLES torn, blurred, calm

vars == <<dir, disk, rows, minted, slots, torn, blurred, calm>>

\* The requests that have truncated file i and neither described nor removed it yet.
Window(i) ==
    {c \in Writers : /\ slots[c].id = i
                     /\ slots[c].pc \in {"write", "insert", "describe", "cleanup"}}

\* The requests that hold a descriptor to store bytes under id i.
Storing(i) == {c \in Window(i) : slots[c].pc = "write"}

Init1 == Init /\ torn = {} /\ blurred = {} /\ calm = {}

Truncated(i) == Window(i)' \ Window(i) # {}

Disturbed(i) ==
    \/ \E c, d \in Window(i)' : c # d
    \/ \E c \in Window(i) \ Window(i)' : slots'[c].reply # "ok"

Blurs(i) ==
    \/ \E c, d \in Storing(i)' : c # d
    \/ \E c \in Storing(i) : slots'[c].pc = "idle" \/ "name" \in slots'[c].unseen

\* The files nobody is storing, and whose last replacement was not disturbed.
Calm == {i \in Ids : Window(i) = {} /\ i \notin torn}

Next ==
    /\ LNext
    /\ torn' = {i \in Ids : Disturbed(i) \/ (i \in torn /\ ~Truncated(i))}
    /\ blurred' = {i \in Ids : Blurs(i) \/ (i \in blurred /\ ~Truncated(i))}
    /\ calm' = {c \in Readers :
                   /\ slots'[c].id # None
                   /\ slots[c].pc = "idle" \/ c \in calm
                   /\ slots[c].pc # "done" => slots'[c].id \in Calm \cap Calm'}

Spec == Init1 /\ [][Next]_vars

----------------------------------------------------------------------------
\* What a place in a file may hold, and what a file may.
Places == {Hole} \cup UNION {{b[k] : k \in DOMAIN b} : b \in Bodies}
Bytes  == Seq(Places)

Slot ==
    [op: {"create", "replace", "delete", "read", "range", None},
     pc: {"idle", "open", "write", "insert", "describe", "cleanup", "unlink", "erase",
          "fetch", "copy", "done"},
     id: Ids \cup {None}, body: Bodies \cup {None}, fd: Inodes \cup {None}, at: Nat,
     said: Bodies \cup {None}, from: Nat, upto: Nat,
     got: Bytes,
     reply: {"ok", "error", "not_found", "missing", "short", "cut", None},
     unseen: SUBSET {"name", "row"}]

TypeOK ==
    /\ DOMAIN dir \subseteq Ids /\ DOMAIN disk = Live /\ Live \subseteq Inodes
    /\ DOMAIN rows \subseteq Ids /\ \A i \in DOMAIN rows : rows[i] \in Bodies
    /\ minted \subseteq Ids
    /\ \A c \in Clients : slots[c] \in Slot

\* The row of a file describes the bytes under its name whenever no replacement
\* is under way and the last one was not disturbed, although a replacement
\* truncates and rewrites in place and reports the body it read, not the file
\* (local.go:29-43): a delete, a failed create or a crash never parts the two,
\* and one undisturbed replacement repairs what others have left.
RowDescribesFile ==
    \A i \in DOMAIN rows \cap Calm : i \in DOMAIN dir /\ disk[dir[i]] = rows[i]

\* What is found under a name that nobody is writing is one client's body from
\* its first piece to its last: a Put that fails takes its part of a body away
\* (local.go:39), so only two Puts at once, a crash, or an os.Remove that fails
\* too, whose error nobody looks at, leave something else.
FilesAreWhole ==
    \A i \in DOMAIN dir :
        (Storing(i) = {} /\ i \notin blurred) => disk[dir[i]] \in Bodies

\* A create that is answered an error has left neither file nor row, whether its
\* body, its Put or its insert failed, unless the removal failed as well or the
\* insert was committed after all: unlike the remote stores' cleanup, this one
\* does not depend on the context that made the insert fail (service.go:101).
FailedCreatesLeaveNoFile ==
    \A c \in Writers :
        (slots[c].op = "create" /\ slots[c].reply = "error" /\ slots[c].unseen = {}) =>
            slots[c].id \notin DOMAIN dir \cup DOMAIN rows

\* A download during which nothing is stored under its id delivers the bytes
\* the row described when it began, all that were asked for and no others, or is
\* cut off in the middle of them by a disk that cannot be read on, or fails before
\* the first; a delete at the same time makes it find no file or changes nothing,
\* since its descriptor outlives the name.  It never ends early as if complete.
CalmDownloadsAreExact ==
    \A c \in calm :
        LET q == slots[c] IN
        q.pc = "done" =>
            \/ q.reply = "ok" /\ q.got = SubSeq(q.said, q.from + 1, q.upto)
            \/ q.reply = "cut" /\ \E k \in q.from..q.upto : q.got = SubSeq(q.said, q.from + 1, k)
            \/ q.reply = "error" /\ q.got = <<>>
            \/ q.reply = "missing" /\ q.id \notin DOMAIN rows
=============================================================================
