------------------------- MODULE FileHistoryProofs -------------------------
(* When the row of a file describes its bytes, for any number of requests. *)
EXTENDS FileHistory, FileServiceProofs

----------------------------------------------------------------------------
(* How the bytes, their description and the requests between the two move.   *)

\* Once request q's Put is done, it knows what the store reported of the bytes.
Knows(q, b) == q.id \in DOMAIN b => q.stored \in Reports(b[q.id])

\* Who stands between a Put and the row that is to describe it.
Replacing(q) == q.pc \in {"recheck", "describe"}

\* The request of a step stands where it stood, knowing what it knew, or it has
\* just stored the bytes itself.
LEMMA KnowsLemma ==
    ASSUME TypeInv, NEW r \in Requests, Step(r)
    PROVE  LET q == reqs[r]
               q2 == reqs'[r]
           IN
           /\ q2.pc = "insert" =>
                 \/ q.pc = "insert" /\ q2.id = q.id /\ q2.stored = q.stored
                 \/ Knows(q2, blobs')
           /\ Replacing(q2) =>
                 \/ Replacing(q) /\ q2.id = q.id /\ q2.stored = q.stored
                 \/ q.pc = "overwrite" /\ q2.id = q.id /\ Knows(q2, blobs')
<1>. DEFINE q == reqs[r]
            q2 == reqs'[r]
            Elsewhere == q2.pc \notin {"insert", "recheck", "describe"}
<1>a. q \in Request /\ Filled(q)
  BY DEF TypeInv, TypeOK
<1>b. \A x : Become(r, x) => reqs'[r] = x
  BY DEF TypeInv, TypeOK, Become
<1>d. \A reply : Answer(r, reply) => Elsewhere
  BY <1>a, <1>b DEF Answer, Request
<1>e. \A pc : Goto(r, pc) => q2.pc = pc /\ q2.id = q.id /\ q2.stored = q.stored
  BY <1>a, <1>b DEF Goto, Request
<1>. USE DEF Replacing
<1>1. CASE Put(r)
  <2>1. \A s : Become(r, [q EXCEPT !.pc = "insert", !.stored = s]) =>
                   q2.pc = "insert" /\ q2.id = q.id /\ q2.stored = s
    BY <1>a, <1>b DEF Request
  <2>2. blobs' = With(blobs, q.id, q.body) => blobs'[q.id] = q.body
    BY DEF With
  <2>. QED
    BY <1>1, <1>d, <2>1, <2>2 DEF Put, Knows
<1>2. CASE Overwrite(r)
  <2>1. \A s : Become(r, [q EXCEPT !.pc = "recheck", !.stored = s, !.wrote = TRUE]) =>
                   q2.pc = "recheck" /\ q2.id = q.id /\ q2.stored = s
    BY <1>a, <1>b DEF Request
  <2>2. \A w : Become(r, [q EXCEPT !.pc = "done", !.reply = "error", !.wrote = w]) =>
                   Elsewhere
    BY <1>a, <1>b DEF Request
  <2>3. blobs' = With(blobs, q.id, q.body) => blobs'[q.id] = q.body
    BY DEF With
  <2>. QED
    BY <1>2, <2>1, <2>2, <2>3 DEF Overwrite, Knows
<1>3. CASE Insert(r)
  <2>1. /\ Become(r, [q EXCEPT !.pc = "done", !.reply = "ok", !.wrote = TRUE]) => Elsewhere
        /\ Become(r, [q EXCEPT !.pc = "cleanup", !.wrote = TRUE]) => Elsewhere
    BY <1>a, <1>b, ZenonT(40) DEF Request
  <2>. QED
    BY <1>3, <1>e, <2>1 DEF Insert
<1>4. CASE Describe(r)
  <2>1. /\ Become(r, [q EXCEPT !.pc = "reread", !.wrote = TRUE]) => Elsewhere
        /\ Become(r, [q EXCEPT !.pc = "done", !.reply = "error", !.wrote = TRUE]) => Elsewhere
    BY <1>a, <1>b, ZenonT(40) DEF Request
  <2>. QED
    BY <1>4, <1>d, <2>1 DEF Describe, Write
<1>5. CASE Set(r)
  <2>. DEFINE left == q.todo \ {NextField(q.todo)}
              point == IF left = {} THEN "show" ELSE "check"
  <2>1. Become(r, [q EXCEPT !.todo = left, !.wrote = TRUE, !.pc = point]) => q2.pc = point
    BY <1>a, <1>b DEF Request
  <2>2. Become(r, [q EXCEPT !.pc = "done", !.reply = "error", !.wrote = TRUE]) => Elsewhere
    BY <1>a, <1>b DEF Request
  <2>3. point \in {"show", "check"}
    OBVIOUS
  <2>. QED
    BY <1>5, <1>d, <2>1, <2>2, <2>3 DEF Set, Write
<1>6. CASE Unlink(r)
  <2>1. /\ Become(r, [q EXCEPT !.pc = "erase", !.wrote = TRUE]) => Elsewhere
        /\ Become(r, [q EXCEPT !.pc = "done", !.reply = "error", !.wrote = TRUE]) => Elsewhere
    BY <1>a, <1>b, ZenonT(40) DEF Request
  <2>. QED
    BY <1>6, <1>d, <2>1 DEF Unlink
<1>7. CASE Recheck(r)
  BY <1>7, <1>d, <1>e DEF Recheck, Authorize
<1>8. CASE Cancel(r)
  BY <1>8, <1>a, <1>b DEF Cancel, Request
<1>9. CASE Close(r)
  BY <1>9, <1>b DEF Close, Idle
<1>10. CASE BeginCreate(r) \/ BeginReplace(r) \/ BeginUpdate(r) \/ BeginDelete(r)
  <2>1. CASE BeginCreate(r)
    BY <2>1, <1>b, ZenonT(40) DEF BeginCreate, Start, Idle
  <2>2. CASE BeginReplace(r)
    BY <2>2, <1>b, ZenonT(40) DEF BeginReplace, Start, Idle
  <2>3. CASE BeginUpdate(r)
    <3>1. q2.pc \in {"show", "check"}
      BY <2>3, <1>b, ZenonT(40) DEF BeginUpdate, Start, Idle
    <3>. QED
      BY <3>1
  <2>4. CASE BeginDelete(r)
    BY <2>4, <1>b DEF BeginDelete, Start, Idle
  <2>. QED
    BY <1>10, <2>1, <2>2, <2>3, <2>4
<1>11. CASE \/ Cleanup(r) \/ Erase(r) \/ Own(r) \/ Reread(r) \/ Check(r) \/ Show(r)
            \/ AuthorizeDelete(r)
  <2>1. Elsewhere
    BY <1>11, <1>d, <1>e DEF Cleanup, Erase, Own, Reread, Check, Show, AuthorizeDelete,
                             Authorize
  <2>. QED
    BY <2>1
<1>. QED
  BY <1>1, <1>2, <1>3, <1>4, <1>5, <1>6, <1>7, <1>8, <1>9, <1>10, <1>11 DEF Step

\* A row keeps its description, or gets what its request was told by the store.
LEMMA DescriptionLemma ==
    ASSUME TypeInv, NEW r \in Requests, Step(r)
    PROVE  \A i \in DOMAIN rows' :
              \/ i \in DOMAIN rows /\ rows'[i].stored = rows[i].stored
              \/ /\ reqs[r].id = i /\ rows'[i].stored = reqs[r].stored
                 /\ \/ reqs[r].pc = "insert"
                    \/ reqs[r].pc = "describe" /\ i \in DOMAIN rows
<1>. DEFINE q == reqs[r]
<1>a. q \in Request /\ \A i \in DOMAIN rows : rows[i] \in Row
  BY DEF TypeInv, TypeOK
<1>1. CASE Insert(r)
  <2>1. rows' = rows \/ rows' = With(rows, q.id, NewRow(q))
    BY <1>1 DEF Insert
  <2>. QED
    BY <1>1, <2>1 DEF Insert, With, NewRow
<1>2. CASE Describe(r)
  BY <1>2, <1>a DEF Describe, Write, Row
<1>3. CASE Set(r)
  BY <1>3, <1>a DEF Set, Write, Row
<1>4. CASE Unlink(r)
  BY <1>4 DEF Unlink, Without
<1>5. CASE UNCHANGED rows
  BY <1>5
<1>. QED
  BY <1>1, <1>2, <1>3, <1>4, <1>5
  DEF Step, BeginCreate, BeginReplace, BeginUpdate, BeginDelete, Cancel, Close, Put,
      Cleanup, Own, Overwrite, Recheck, Reread, Check, Show, AuthorizeDelete,
      Authorize, Erase

\* A request that goes from between its two writes on to the reply has described
\* the file, if there is one.
LEMMA DescribeLemma ==
    ASSUME TypeInv, NEW r \in Requests, Step(r), Replacing(reqs[r]),
           reqs'[r].pc = "reread", reqs[r].id \in DOMAIN rows
    PROVE  reqs[r].id \in DOMAIN rows' => rows'[reqs[r].id].stored = reqs[r].stored
<1>. DEFINE q == reqs[r]
            q2 == reqs'[r]
<1>a. q \in Request /\ \A i \in DOMAIN rows : rows[i] \in Row
  BY DEF TypeInv, TypeOK
<1>b. \A x : Become(r, x) => reqs'[r] = x
  BY DEF TypeInv, TypeOK, Become
<1>d. \A reply : ~Answer(r, reply)
  BY <1>a, <1>b DEF Answer, Request
<1>1. CASE Describe(r)
  <2>1. ~Become(r, [q EXCEPT !.pc = "done", !.reply = "error", !.wrote = TRUE])
    BY <1>a, <1>b DEF Request
  <2>. QED
    BY <1>1, <1>a, <1>d, <2>1 DEF Describe, Write, Row
<1>2. CASE Recheck(r)
  BY <1>2, <1>a, <1>b, <1>d DEF Recheck, Authorize, Goto, Request
<1>3. CASE Cancel(r)
  BY <1>3, <1>a, <1>b DEF Cancel, Request, Replacing
<1>. QED
  BY <1>1, <1>2, <1>3
  DEF Step, Replacing, BeginCreate, BeginReplace, BeginUpdate, BeginDelete, Start, Close,
      Put, Insert, Cleanup, Own, Overwrite, Reread, Check, Authorize, Set, Show,
      AuthorizeDelete, Unlink, Erase

----------------------------------------------------------------------------
(* The inductive invariant.                                                 *)

\* While file i is not torn, at most one request is between its two writes; the
\* bytes are known to that request, and else to the row.
Described(i) ==
    /\ \A r, s \in Window(i) : r = s
    /\ i \in DOMAIN rows =>
          /\ \A r \in Window(i) : Knows(reqs[r], blobs)
          /\ (Window(i) = {} /\ i \in DOMAIN blobs) => rows[i].stored \in Reports(blobs[i])

HistoryInv ==
    /\ OwnershipInv
    /\ torn \subseteq Ids
    /\ \A r \in Requests : reqs[r].pc = "insert" => Knows(reqs[r], blobs)
    /\ \A i \in Ids \ torn : Described(i)

LEMMA HistoryInit == HInit => HistoryInv
<1>. SUFFICES ASSUME HInit PROVE HistoryInv
  OBVIOUS
<1>1. OwnershipInv
  BY OwnershipInit DEF HInit
<1>. QED
  BY <1>1 DEF HInit, Init, HistoryInv, Described, Window, Idle

\* An undisturbed step of request r leaves file i described.
LEMMA DescribedLemma ==
    ASSUME HistoryInv, NEW r \in Requests, Step(r), NEW i \in Ids,
           ~Disturbed(i), i \notin torn \/ Restored(i)
    PROVE  Described(i)'
<1>. DEFINE q == reqs[r]
            q2 == reqs'[r]
<1>a. TypeInv /\ OwnershipInv /\ Held(q)
  BY DEF HistoryInv, OwnershipInv
<1>b. \A s \in Requests : s # r => reqs'[s] = reqs[s]
  BY <1>a, HolderLemma
<1>c. \A s \in Requests : s # r => (s \in Window(i)' <=> s \in Window(i))
  BY <1>b DEF Window
<1>d. /\ r \in Window(i) <=> Replacing(q) /\ q.id = i
      /\ r \in Window(i)' <=> Replacing(q2) /\ q2.id = i
  BY DEF Window, Replacing
<1>e. Replacing(q2) =>
         \/ Replacing(q) /\ q2.id = q.id /\ q2.stored = q.stored
         \/ q.pc = "overwrite" /\ q2.id = q.id /\ Knows(q2, blobs')
  BY <1>a, KnowsLemma
<1>1. \A s, t \in Window(i)' : s = t
  BY DEF Disturbed
<1>2. CASE Restored(i)
  <2>1. r \in Window(i)' /\ r \notin Window(i)
    BY <1>2, <1>c DEF Restored, Window
  <2>2. Knows(q2, blobs')
    BY <2>1, <1>d, <1>e
  <2>. QED
    BY <2>1, <2>2, <1>1 DEF Described, Window
<1>3. CASE ~Restored(i)
  <2>1. Described(i) /\ Window(i)' \subseteq Window(i)
    BY <1>3 DEF Restored, HistoryInv
  <2>2. ~Overwritten(i) /\ (r \in Window(i) /\ r \notin Window(i)' => q2.pc = "reread")
    BY <2>1 DEF Disturbed
  <2>3. CASE i \in DOMAIN rows
    <3>1. i \in DOMAIN blobs' => i \in DOMAIN blobs /\ blobs'[i] = blobs[i]
      BY <2>2, <2>3 DEF Overwritten
    <3>2. \A s \in Window(i)' : Knows(reqs[s], blobs)
      BY <2>1, <2>3 DEF Described
    <3>3. ASSUME NEW s \in Window(i)' PROVE Knows(reqs'[s], blobs')
      <4>1. s \in Window(i) /\ s \in Requests /\ reqs[s].id = i
        BY <2>1, <3>3 DEF Window
      <4>2. reqs'[s].stored = reqs[s].stored /\ reqs'[s].id = reqs[s].id
        BY <4>1, <1>b, <1>d, <1>e, <3>3 DEF Replacing
      <4>. QED
        BY <4>1, <4>2, <3>1, <3>2 DEF Knows
    <3>4. ASSUME Window(i)' = {}, i \in DOMAIN rows', i \in DOMAIN blobs'
          PROVE  rows'[i].stored \in Reports(blobs'[i])
      <4>1. CASE Window(i) = {}
        <5>1. rows[i].stored \in Reports(blobs[i])
          BY <4>1, <2>1, <2>3, <3>1, <3>4 DEF Described
        <5>2. ~(q.id = i /\ q.pc \in {"insert", "describe"})
          BY <4>1, <2>3, <1>a, <1>d DEF Held, Drawn, Replacing
        <5>3. rows'[i].stored = rows[i].stored
          BY <5>2, <3>4, <1>a, DescriptionLemma
        <5>. QED
          BY <5>1, <5>3, <3>1, <3>4
      <4>2. CASE Window(i) # {}
        <5>1. r \in Window(i) /\ r \notin Window(i)'
          BY <4>2, <3>4, <1>c DEF Window
        <5>2. Replacing(q) /\ q.id = i /\ q2.pc = "reread" /\ Knows(q, blobs)
          BY <5>1, <2>1, <2>2, <2>3, <1>d DEF Described
        <5>3. rows'[i].stored = q.stored
          BY <5>2, <2>3, <3>4, <1>a, DescribeLemma
        <5>. QED
          BY <5>2, <5>3, <3>1, <3>4 DEF Knows
      <4>. QED
        BY <4>1, <4>2
    <3>. QED
      BY <1>1, <3>3, <3>4 DEF Described
  <2>4. CASE i \notin DOMAIN rows /\ i \in DOMAIN rows'
    <3>1. q.pc = "insert" /\ q.id = i /\ rows'[i].stored = q.stored
      BY <2>4, <1>a, DescriptionLemma
    <3>2. Knows(q, blobs)
      BY <3>1 DEF HistoryInv
    <3>3. i \in DOMAIN blobs' => i \in DOMAIN blobs /\ blobs'[i] = blobs[i]
      BY <3>1, <1>a, StoresLemma
    <3>4. r \notin Window(i)'
      BY <3>1, <2>1, <1>d DEF Replacing
    <3>5. ASSUME NEW s \in Window(i)', s # r PROVE FALSE
      <4>1. s \in Requests /\ Holder(reqs[s]) /\ reqs[s].id = i
        BY <3>5, <2>1 DEF Window, Holder
      <4>. QED
        BY <4>1, <3>1, <3>5, <1>a DEF OwnershipInv, Drawn
    <3>. QED
      BY <1>1, <3>1, <3>2, <3>3, <3>4, <3>5 DEF Described, Knows
  <2>5. CASE i \notin DOMAIN rows'
    BY <1>1, <2>5 DEF Described
  <2>. QED
    BY <2>3, <2>4, <2>5
<1>. QED
  BY <1>2, <1>3

LEMMA HistoryNext == HistoryInv /\ [HNext]_hvars => HistoryInv'
<1>. SUFFICES ASSUME HistoryInv, [HNext]_hvars PROVE HistoryInv'
  OBVIOUS
<1>0. OwnershipInv'
  BY OwnershipNext DEF HistoryInv, HNext, hvars, vars
<1>1. CASE HNext
  <2>1. /\ torn' \subseteq Ids
        /\ \A i \in Ids \ torn' : ~Disturbed(i) /\ (i \notin torn \/ Restored(i))
    BY <1>1 DEF HNext, Remembered
  <2>2. CASE Restart
    <3>1. \A r \in Requests : reqs'[r].pc \in {"idle", "done"}
      BY <2>2 DEF Restart, InFlight, Idle
    <3>2. \A i : Window(i)' = {}
      BY <3>1 DEF Window
    <3>3. ASSUME NEW i \in Ids \ torn' PROVE Described(i)'
      <4>1. Window(i) = {}
        <5>1. \A r \in Window(i) : reqs'[r].pc = "reread"
          BY <2>1, <3>2, <3>3 DEF Disturbed
        <5>. QED
          BY <5>1, <3>1 DEF Window
      <4>2. Described(i)
        BY <2>1, <3>2, <3>3 DEF Restored, HistoryInv
      <4>3. rows' = rows /\ \A j \in DOMAIN blobs' : j \in DOMAIN blobs /\ blobs'[j] = blobs[j]
        BY <2>2 DEF Restart
      <4>. QED
        BY <3>2, <4>1, <4>2, <4>3 DEF Described
    <3>. QED
      BY <1>0, <2>1, <3>1, <3>3 DEF HistoryInv
  <2>3. ASSUME NEW r \in Requests, Step(r) PROVE HistoryInv'
    <3>. DEFINE q == reqs[r]
                q2 == reqs'[r]
    <3>a. TypeInv /\ OwnershipInv
      BY DEF HistoryInv, OwnershipInv
    <3>1. \A s \in Requests : s # r => reqs'[s] = reqs[s]
      BY <2>3, <3>a, HolderLemma
    <3>2. \A i \in DOMAIN blobs' :
             \/ i \in DOMAIN blobs /\ blobs'[i] = blobs[i]
             \/ q.id = i /\ q.pc \in {"put", "overwrite"}
      BY <2>3, <3>a, StoresLemma
    <3>3. q2.pc = "insert" => Knows(q2, blobs')
      <4>1. q2.pc = "insert" =>
               \/ q.pc = "insert" /\ q2.id = q.id /\ q2.stored = q.stored
               \/ Knows(q2, blobs')
        BY <2>3, <3>a, KnowsLemma
      <4>. QED
        BY <4>1, <3>2 DEF HistoryInv, Knows
    <3>4. ASSUME NEW s \in Requests, s # r, reqs'[s].pc = "insert"
          PROVE  Knows(reqs'[s], blobs')
      <4>1. reqs'[s] = reqs[s] /\ Knows(reqs[s], blobs)
        BY <3>1, <3>4 DEF HistoryInv
      <4>2. q.pc \in {"put", "overwrite"} => q.id # reqs[s].id
        BY <3>4, <3>a, <4>1 DEF OwnershipInv, Drawn, Holder
      <4>. QED
        BY <4>1, <4>2, <3>2 DEF Knows
    <3>5. \A i \in Ids \ torn' : Described(i)'
      BY <2>1, <2>3, DescribedLemma
    <3>. QED
      BY <1>0, <2>1, <3>3, <3>4, <3>5 DEF HistoryInv
  <2>. QED
    BY <1>1, <2>2, <2>3 DEF HNext, Next
<1>2. CASE UNCHANGED hvars
  BY <1>0, <1>2 DEF hvars, HistoryInv, Described, Window, Knows
<1>. QED
  BY <1>1, <1>2

LEMMA HistoryDescribes == HistoryInv => RowDescribesBytes
BY DEF HistoryInv, OwnershipInv, TypeInv, TypeOK, Described, RowDescribesBytes

\* The row of a file describes its bytes unless a replacement is between its two
\* writes or the last one was disturbed, whatever fails and whoever else works
\* on the file: no other interleaving of any number of requests parts the two.
THEOREM RowsDescribeBytes == HSpec => []RowDescribesBytes
BY HistoryInit, HistoryNext, HistoryDescribes, PTL DEF HSpec

----------------------------------------------------------------------------
(* When the row always describes the bytes, and If-Match guards them: when    *)
(* replacements of one file do not overlap and none is interrupted.           *)

\* Nothing fails but the reading of a body, and that leaves the bytes alone.
Undisturbed ==
    /\ Faults \subseteq {"bad_body"}
    /\ Backend = "gcs" => "bad_body" \notin Faults

\* A replacement that has passed its checks and has not yet described its bytes.
UnderWay(q) == q.pc \in {"overwrite", "recheck", "describe"}

OneAtATime ==
    \A r, s \in Requests :
        (UnderWay(reqs[r]) /\ UnderWay(reqs[s]) /\ reqs[r].id = reqs[s].id) => r = s

\* The tags of an If-Match header name the bytes they were sent to guard.
Matched(q, b) ==
    (q.cond # {} /\ q.id \in DOMAIN b) => EtagMatchesIfMatch(q.cond, Crc[b[q.id]])

\* A file is torn only once it is gone for good.
IntactInv ==
    /\ HistoryInv
    /\ \A r \in Requests : ~reqs[r].cancelled
    /\ torn \subseteq minted \ DOMAIN rows
    /\ \A r \in Requests : Drawn(reqs[r]) => reqs[r].id \notin torn
    /\ \A r \in Requests : reqs[r].pc = "overwrite" => Matched(reqs[r], blobs)

LEMMA IntactInit == HInit => IntactInv
<1>. SUFFICES ASSUME HInit PROVE IntactInv
  OBVIOUS
<1>1. HistoryInv
  BY HistoryInit
<1>. QED
  BY <1>1 DEF HInit, Init, IntactInv, Drawn, Idle

\* How a request comes to overwrite: its If-Match named the checksum of the row.
LEMMA PassLemma ==
    ASSUME TypeInv, NEW r \in Requests, Step(r), reqs'[r].pc = "overwrite"
    PROVE  LET q == reqs[r]
               q2 == reqs'[r]
           IN
           /\ q2.id = q.id /\ q2.cond = q.cond
           /\ \/ q.pc = "overwrite"
              \/ /\ q.pc = "own" /\ q.id \in DOMAIN rows /\ UNCHANGED <<rows, blobs>>
                 /\ q.cond = {} \/ EtagMatchesIfMatch(q.cond, rows[q.id].stored.checksum)
<1>. DEFINE q == reqs[r]
            q2 == reqs'[r]
<1>a. q \in Request
  BY DEF TypeInv, TypeOK
<1>b. \A x : Become(r, x) => reqs'[r] = x
  BY DEF TypeInv, TypeOK, Become
<1>c. \A reply : ~Answer(r, reply)
  BY <1>a, <1>b DEF Answer, Request
<1>d. \A pc : Goto(r, pc) => q2.pc = pc /\ q2.id = q.id /\ q2.cond = q.cond
  BY <1>a, <1>b DEF Goto, Request
<1>1. CASE Own(r)
  <2>1. DbAnswers(q) /\ Ownership(q.id, q.user) = "ok" /\ Goto(r, "overwrite")
        /\ (q.cond = {} \/ EtagMatchesIfMatch(q.cond, rows[q.id].stored.checksum))
    BY <1>1, <1>c DEF Own
  <2>. QED
    BY <1>1, <1>d, <2>1 DEF Own, Ownership
<1>2. CASE Cancel(r)
  BY <1>2, <1>a, <1>b DEF Cancel, Request
<1>3. CASE Put(r)
  <2>1. \A s : ~Become(r, [q EXCEPT !.pc = "insert", !.stored = s])
    BY <1>a, <1>b DEF Request
  <2>. QED
    BY <1>3, <1>c, <2>1 DEF Put
<1>4. CASE Overwrite(r)
  <2>1. /\ \A s : ~Become(r, [q EXCEPT !.pc = "recheck", !.stored = s, !.wrote = TRUE])
        /\ \A w : ~Become(r, [q EXCEPT !.pc = "done", !.reply = "error", !.wrote = w])
    BY <1>a, <1>b DEF Request
  <2>. QED
    BY <1>4, <2>1, Zenon DEF Overwrite
<1>5. CASE Insert(r)
  <2>1. /\ ~Become(r, [q EXCEPT !.pc = "done", !.reply = "ok", !.wrote = TRUE])
        /\ ~Become(r, [q EXCEPT !.pc = "cleanup", !.wrote = TRUE])
    BY <1>a, <1>b, ZenonT(40) DEF Request
  <2>. QED
    BY <1>5, <1>d, <2>1 DEF Insert
<1>6. CASE Describe(r) \/ Set(r)
  <2>. DEFINE left == q.todo \ {NextField(q.todo)}
              point == IF left = {} THEN "show" ELSE "check"
  <2>1. ~Become(r, [q EXCEPT !.pc = "reread", !.wrote = TRUE])
    BY <1>a, <1>b DEF Request
  <2>2. ~Become(r, [q EXCEPT !.pc = "done", !.reply = "error", !.wrote = TRUE])
    BY <1>a, <1>b DEF Request
  <2>3. Become(r, [q EXCEPT !.todo = left, !.wrote = TRUE, !.pc = point]) => q2.pc = point
    BY <1>a, <1>b DEF Request
  <2>4. point # "overwrite"
    OBVIOUS
  <2>. QED
    BY <1>6, <1>c, <2>1, <2>2, <2>3, <2>4 DEF Describe, Set, Write
<1>7. CASE Unlink(r)
  <2>1. /\ ~Become(r, [q EXCEPT !.pc = "erase", !.wrote = TRUE])
        /\ ~Become(r, [q EXCEPT !.pc = "done", !.reply = "error", !.wrote = TRUE])
    BY <1>a, <1>b, ZenonT(40) DEF Request
  <2>. QED
    BY <1>7, <1>c, <2>1 DEF Unlink
<1>8. CASE Close(r)
  BY <1>8, <1>b DEF Close, Idle
<1>9. CASE BeginCreate(r) \/ BeginReplace(r) \/ BeginUpdate(r) \/ BeginDelete(r)
  <2>1. CASE BeginCreate(r)
    BY <2>1, <1>b, ZenonT(40) DEF BeginCreate, Start, Idle
  <2>2. CASE BeginReplace(r)
    BY <2>2, <1>b, ZenonT(40) DEF BeginReplace, Start, Idle
  <2>3. CASE BeginUpdate(r)
    <3>1. q2.pc \in {"show", "check"}
      BY <2>3, <1>b, ZenonT(40) DEF BeginUpdate, Start, Idle
    <3>. QED
      BY <3>1
  <2>4. CASE BeginDelete(r)
    BY <2>4, <1>b DEF BeginDelete, Start, Idle
  <2>. QED
    BY <1>9, <2>1, <2>2, <2>3, <2>4
<1>10. CASE \/ Cleanup(r) \/ Erase(r) \/ Reread(r) \/ Recheck(r) \/ Check(r) \/ Show(r)
            \/ AuthorizeDelete(r)
  <2>1. FALSE
    BY <1>10, <1>c, <1>d DEF Cleanup, Erase, Reread, Recheck, Check, Show, AuthorizeDelete,
                             Authorize
  <2>. QED
    BY <2>1
<1>. QED
  BY <1>1, <1>2, <1>3, <1>4, <1>5, <1>6, <1>7, <1>8, <1>9, <1>10 DEF Step

\* Undisturbed, a Put over a file's bytes replaces them or leaves them alone ...
LEMMA WholeLemma ==
    ASSUME Undisturbed, TypeInv, NEW r \in Requests, Step(r), reqs[r].pc = "overwrite",
           ~reqs[r].cancelled
    PROVE  UNCHANGED blobs \/ (reqs'[r].pc = "recheck" /\ reqs'[r].id = reqs[r].id)
<1>. DEFINE q == reqs[r]
<1>a. q \in Request
  BY DEF TypeInv, TypeOK
<1>b. \A x : Become(r, x) => reqs'[r] = x
  BY DEF TypeInv, TypeOK, Become
<1>1. CASE Overwrite(r)
  <2>1. AfterFailedPut(q) = {blobs}
    <3>1. Remains(q) = {}
      BY DEF Remains, StoreFails, Undisturbed
    <3>. QED
      BY <3>1 DEF AfterFailedPut
  <2>2. \A s : Become(r, [q EXCEPT !.pc = "recheck", !.stored = s, !.wrote = TRUE]) =>
                   reqs'[r].pc = "recheck" /\ reqs'[r].id = q.id
    BY <1>a, <1>b DEF Request
  <2>3. \/ \E s \in Reports(q.body) :
              Become(r, [q EXCEPT !.pc = "recheck", !.stored = s, !.wrote = TRUE])
        \/ blobs' \in AfterFailedPut(q)
    BY <1>1 DEF Overwrite
  <2>. QED
    BY <2>1, <2>2, <2>3
<1>2. CASE UNCHANGED blobs
  BY <1>2
<1>. QED
  BY <1>1, <1>2
  DEF Step, BeginCreate, BeginReplace, BeginUpdate, BeginDelete, Start, Cancel, Close, Put,
      Insert, Cleanup, Own, Recheck, Describe, Reread, Check, Set, Write, Show,
      AuthorizeDelete, Authorize, Unlink, Erase

\* ... and goes on to describe them, or finds the file deleted.
LEMMA DescribedOrGone ==
    ASSUME Undisturbed, TypeInv, NEW r \in Requests, Step(r), Held(reqs[r]),
           Replacing(reqs[r]), ~reqs[r].cancelled
    PROVE  \/ Replacing(reqs'[r]) /\ reqs'[r].id = reqs[r].id
           \/ reqs'[r].pc = "reread"
           \/ reqs'[r].pc = "done" /\ reqs[r].id \notin DOMAIN rows /\ UNCHANGED rows
<1>. DEFINE q == reqs[r]
            q2 == reqs'[r]
<1>a. q \in Request
  BY DEF TypeInv, TypeOK
<1>b. \A x : Become(r, x) => reqs'[r] = x
  BY DEF TypeInv, TypeOK, Become
<1>c. DbAnswers(q) /\ ~DbFails(q) /\ ~DbUnheard(q)
  BY DEF DbAnswers, DbFails, DbUnheard, Undisturbed
<1>1. CASE Recheck(r)
  <2>1. Goto(r, "describe") => q2.pc = "describe" /\ q2.id = q.id
    BY <1>a, <1>b DEF Goto, Request
  <2>2. \A reply : Answer(r, reply) => q2.pc = "done"
    BY <1>a, <1>b DEF Answer, Request
  <2>3. q.id \in DOMAIN rows => Ownership(q.id, q.user) = "ok"
    BY DEF Ownership, Held, Holder, Replacing
  <2>. QED
    BY <1>1, <1>c, <2>1, <2>2, <2>3 DEF Recheck, Authorize, Replacing
<1>2. CASE Describe(r)
  <2>1. Become(r, [q EXCEPT !.pc = "reread", !.wrote = TRUE]) => q2.pc = "reread"
    BY <1>a, <1>b DEF Request
  <2>. QED
    BY <1>2, <1>c, <2>1 DEF Describe, Write
<1>3. ~Cancel(r)
  BY DEF Cancel, Undisturbed
<1>. QED
  BY <1>1, <1>2, <1>3
  DEF Step, Replacing, BeginCreate, BeginReplace, BeginUpdate, BeginDelete, Start, Close,
      Put, Insert, Cleanup, Own, Overwrite, Reread, Check, Authorize, Set, Show,
      AuthorizeDelete, Unlink, Erase

\* A step tears a file only while it goes.
LEMMA TearLemma ==
    ASSUME Undisturbed, IntactInv, OneAtATime', NEW r \in Requests, Step(r),
           NEW i \in Ids, Disturbed(i)
    PROVE  /\ i \in minted /\ i \notin DOMAIN rows'
           /\ \A s \in Requests : Drawn(reqs'[s]) => reqs'[s].id # i
<1>. DEFINE q == reqs[r]
            q2 == reqs'[r]
<1>a. OwnershipInv /\ TypeInv /\ Held(q) /\ ~q.cancelled
  BY DEF IntactInv, HistoryInv, OwnershipInv
<1>b. \A s \in Requests : s # r => reqs'[s] = reqs[s]
  BY <1>a, HolderLemma
<1>1. \A s, t \in Window(i)' : s = t
  BY DEF OneAtATime, UnderWay, Window
<1>2. ~(Overwritten(i) /\ Window(i)' \subseteq Window(i))
  <2>. SUFFICES ASSUME Overwritten(i), Window(i)' \subseteq Window(i) PROVE FALSE
    OBVIOUS
  <2>1. i \in DOMAIN rows /\ q.id = i /\ q.pc \in {"put", "overwrite"} /\ ~UNCHANGED blobs
    BY <1>a, StoresLemma DEF Overwritten
  <2>2. q.pc = "overwrite"
    BY <1>a, <2>1 DEF Held, Drawn
  <2>3. q2.pc = "recheck" /\ q2.id = i
    BY <1>a, <2>1, <2>2, WholeLemma
  <2>. QED
    BY <2>2, <2>3 DEF Window
<1>3. PICK s \in Window(i) \ Window(i)' : reqs'[s].pc # "reread"
  BY <1>1, <1>2 DEF Disturbed
<1>4. s = r /\ Replacing(q) /\ q.id = i
  BY <1>3, <1>b DEF Window, Replacing
<1>5. q2.pc = "done" /\ i \notin DOMAIN rows /\ UNCHANGED rows
  BY <1>a, <1>3, <1>4, DescribedOrGone DEF Window, Replacing
<1>6. Holder(q) /\ i \in minted
  BY <1>a, <1>4 DEF Replacing, Holder, Held
<1>7. \A t \in Requests : t # r /\ Drawn(reqs[t]) => reqs[t].id # i
  BY <1>4, <1>6 DEF IntactInv, HistoryInv, OwnershipInv
<1>. QED
  BY <1>b, <1>5, <1>6, <1>7 DEF Drawn

\* A file that is whole and that no one is working on is as its row describes it.
LEMMA WholeRow ==
    ASSUME IntactInv, NEW i \in DOMAIN rows \cap DOMAIN blobs, Window(i) = {}
    PROVE  rows[i].stored \in Reports(blobs[i])
BY DEF IntactInv, HistoryInv, OwnershipInv, TypeInv, TypeOK, Described

\* The request that is about to overwrite stays the one whose header was checked.
LEMMA MatchedLemma ==
    ASSUME IntactInv, OneAtATime, OneAtATime', NEW r \in Requests, Step(r),
           NEW s \in Requests, reqs'[s].pc = "overwrite"
    PROVE  Matched(reqs'[s], blobs')
<1>. DEFINE q == reqs[r]
            p == reqs[s]
<1>a. OwnershipInv /\ TypeInv
  BY DEF IntactInv, HistoryInv, OwnershipInv
<1>b. \A t \in Requests : t # r => reqs'[t] = reqs[t]
  BY <1>a, HolderLemma
<1>c. \A i \in DOMAIN blobs' :
          \/ i \in DOMAIN blobs /\ blobs'[i] = blobs[i]
          \/ q.id = i /\ q.pc \in {"put", "overwrite"}
  BY <1>a, StoresLemma
<1>1. CASE s # r
  <2>1. reqs'[s] = p /\ Matched(p, blobs) /\ Holder(p) /\ UnderWay(p)
    BY <1>1, <1>b DEF IntactInv, Holder, UnderWay
  <2>2. q.pc = "put" => q.id # p.id
    BY <1>1, <1>a, <2>1 DEF OwnershipInv, Drawn
  <2>3. q.pc = "overwrite" => q.id # p.id
    BY <1>1, <2>1 DEF OneAtATime, UnderWay
  <2>. QED
    BY <1>c, <2>1, <2>2, <2>3 DEF Matched
<1>2. CASE s = r
  <2>1. /\ reqs'[r].id = q.id /\ reqs'[r].cond = q.cond
        /\ \/ q.pc = "overwrite"
           \/ /\ q.pc = "own" /\ q.id \in DOMAIN rows /\ UNCHANGED <<rows, blobs>>
              /\ q.cond = {} \/ EtagMatchesIfMatch(q.cond, rows[q.id].stored.checksum)
    BY <1>2, <1>a, PassLemma
  <2>2. CASE q.pc = "overwrite"
    <3>1. UNCHANGED blobs
      <4>1. ~Overwrite(r)
        <5>. SUFFICES ASSUME Overwrite(r) PROVE FALSE
          OBVIOUS
        <5>1. /\ \A x : Become(r, x) => reqs'[r] = x
              /\ q \in Request
          BY <1>a DEF TypeInv, TypeOK, Become
        <5>2. /\ \A w : ~Become(r, [q EXCEPT !.pc = "recheck", !.stored = w, !.wrote = TRUE])
              /\ \A w : ~Become(r, [q EXCEPT !.pc = "done", !.reply = "error", !.wrote = w])
          BY <1>2, <5>1 DEF Request
        <5>. QED
          BY <5>2 DEF Overwrite
      <4>. QED
        BY <2>2, <4>1
        DEF Step, BeginCreate, BeginReplace, BeginUpdate, BeginDelete, Start, Cancel, Close,
            Put, Insert, Cleanup, Own, Recheck, Describe, Reread, Check, Set, Write, Show,
            AuthorizeDelete, Authorize, Unlink, Erase
    <3>. QED
      BY <1>2, <2>1, <2>2, <3>1 DEF IntactInv, Matched
  <2>3. CASE q.pc # "overwrite"
    <3>. SUFFICES ASSUME q.cond # {}, q.id \in DOMAIN blobs
                  PROVE  EtagMatchesIfMatch(q.cond, Crc[blobs[q.id]])
      BY <1>2, <2>1, <2>3 DEF Matched
    <3>1. Window(q.id) = {}
      <4>. SUFFICES ASSUME NEW t \in Window(q.id) PROVE FALSE
        OBVIOUS
      <4>1. CASE t = r
        BY <2>1, <2>3, <4>1 DEF Window
      <4>2. CASE t # r
        <5>1. reqs'[t] = reqs[t] /\ t \in Requests /\ reqs[t].id = q.id
          BY <4>2, <1>b DEF Window
        <5>. QED
          BY <1>2, <2>1, <4>2, <5>1 DEF OneAtATime, UnderWay, Window
      <4>. QED
        BY <4>1, <4>2
    <3>2. rows[q.id].stored \in Reports(blobs[q.id])
      BY <2>1, <2>3, <3>1, WholeRow
    <3>3. /\ rows[q.id].stored.checksum \in {Crc[blobs[q.id]], NoChecksum}
          /\ EtagMatchesIfMatch(q.cond, rows[q.id].stored.checksum)
      BY <2>1, <2>3, <3>2 DEF Reports
    <3>. QED
      BY <3>3 DEF EtagMatchesIfMatch
  <2>. QED
    BY <2>2, <2>3
<1>. QED
  BY <1>1, <1>2

LEMMA IntactNext ==
    ASSUME Undisturbed
    PROVE  IntactInv /\ OneAtATime /\ OneAtATime' /\ [HNext]_hvars => IntactInv'
<1>. SUFFICES ASSUME IntactInv, OneAtATime, OneAtATime', [HNext]_hvars PROVE IntactInv'
  OBVIOUS
<1>0. HistoryInv'
  BY HistoryNext DEF IntactInv
<1>1. CASE HNext
  <2>1. PICK r \in Requests : Step(r)
    BY <1>1 DEF HNext, Next, Restart, Undisturbed
  <2>. DEFINE q == reqs[r]
              q2 == reqs'[r]
  <2>a. TypeInv /\ Held(q) /\ ~q.cancelled
    BY DEF IntactInv, HistoryInv, OwnershipInv
  <2>b. \A s \in Requests : s # r => reqs'[s] = reqs[s]
    BY <2>1, <2>a, HolderLemma
  <2>c. minted \subseteq minted' /\ (Drawn(q2) => (Drawn(q) /\ q2.id = q.id) \/ q2.id \notin minted)
    BY <2>1, <2>a, HolderLemma
  <2>d. \A i \in DOMAIN rows' : i \in DOMAIN rows \/ (q.pc = "insert" /\ q.id = i)
    BY <2>1, <2>a, RowsLemma
  <2>2. \A s \in Requests : ~reqs'[s].cancelled
    <3>1. ~q2.cancelled
      BY <2>1, <2>a, FrameLemma DEF Undisturbed, Idle
    <3>. QED
      BY <2>b, <3>1 DEF IntactInv
  <2>3. ASSUME NEW i \in torn'
        PROVE  /\ i \in minted' /\ i \notin DOMAIN rows'
               /\ \A s \in Requests : Drawn(reqs'[s]) => reqs'[s].id # i
    <3>1. i \in Ids /\ (Disturbed(i) \/ i \in torn)
      BY <1>1, <2>3 DEF HNext, Remembered
    <3>2. CASE Disturbed(i)
      BY <2>1, <2>c, <3>1, <3>2, TearLemma
    <3>3. CASE i \in torn
      <4>1. i \in minted /\ i \notin DOMAIN rows
            /\ \A s \in Requests : Drawn(reqs[s]) => reqs[s].id # i
        BY <3>3 DEF IntactInv
      <4>2. i \notin DOMAIN rows'
        BY <2>d, <4>1 DEF Drawn
      <4>. QED
        BY <2>b, <2>c, <4>1, <4>2
    <3>. QED
      BY <3>1, <3>2, <3>3
  <2>4. \A s \in Requests : reqs'[s].pc = "overwrite" => Matched(reqs'[s], blobs')
    BY <2>1, MatchedLemma
  <2>. QED
    BY <1>0, <2>2, <2>3, <2>4 DEF IntactInv
<1>2. CASE UNCHANGED hvars
  BY <1>0, <1>2 DEF hvars, IntactInv
<1>. QED
  BY <1>1, <1>2

LEMMA IntactHolds ==
    ASSUME Undisturbed
    PROVE  HSpec /\ []OneAtATime => []IntactInv
BY IntactInit, IntactNext, PTL DEF HSpec

\* What README.md says of a file's checksum is true when replacements of one file do
\* not overlap and none is interrupted: then no other order of the two writes of any
\* number of requests, deletions and updates between them included, leaves a row
\* beside bytes it does not describe.  The run overlap shows that they may overlap
\* (service.go replaceFile, which holds no lock).
THEOREM SeparateReplacementsAreWhole ==
    ASSUME Undisturbed
    PROVE  HSpec /\ []OneAtATime => []ChecksumDescribesContent
<1>1. IntactInv /\ BytesInv => ChecksumDescribesContent
  <2>. SUFFICES ASSUME IntactInv, BytesInv, NEW i \in DOMAIN rows,
                       \A r \in Requests : InFlight(reqs[r]) => reqs[r].id # i
                PROVE  rows[i].stored \in Reports(blobs[i])
    BY DEF ChecksumDescribesContent
  <2>1. i \in DOMAIN blobs
    BY DEF BytesInv, RowsHaveBytes
  <2>2. Window(i) = {}
    BY DEF Window, InFlight
  <2>. QED
    BY <2>1, <2>2, WholeRow
<1>2. HInit => BytesInv
  BY BytesInit DEF HInit
<1>3. BytesInv /\ [HNext]_hvars => BytesInv'
  <2>1. Answered /\ Durable
    BY DEF Undisturbed, Answered, Durable
  <2>2. [HNext]_hvars => [Next]_vars
    BY DEF HNext, hvars, vars
  <2>. QED
    BY <2>1, <2>2, BytesNext
<1>. QED
  BY <1>1, <1>2, <1>3, IntactHolds, PTL DEF HSpec

\* Nor does If-Match then let a PUT overwrite bytes its header does not name: the row
\* it was compared with described the bytes, and does so until they are overwritten.
\* The run ifmatch shows two that pass the check together (service.go replaceFile).
THEOREM SeparateReplacementsAreGuarded ==
    ASSUME Undisturbed
    PROVE  HSpec /\ []OneAtATime => IfMatchGuardsContent
<1>1. IntactInv => [\A r \in Requests :
          LET q == reqs[r] IN
          (q.pc = "overwrite" /\ reqs'[r].pc = "recheck" /\ q.cond # {}
             /\ q.id \in DOMAIN blobs)
            => EtagMatchesIfMatch(q.cond, Crc[blobs[q.id]])]_vars
  BY DEF IntactInv, Matched
<1>. QED
  BY <1>1, IntactHolds, PTL DEF IfMatchGuardsContent
============================================================================
