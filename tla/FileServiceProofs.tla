------------------------- MODULE FileServiceProofs -------------------------
(***************************************************************************)
(* What holds of FileService for every set of requests, ids, users and      *)
(* contents, every backend and every choice of faults its theorems allow.   *)
(***************************************************************************)
EXTENDS FileService, TLAPS

\* What a request carries while it still needs it: an id and a user from its
\* start, a body and attribute values until they are written, a report of the
\* store between the Put and the row.
Filled(q) ==
    /\ q.pc # "idle" => q.id \in Ids /\ q.user \in Users
    /\ q.pc \in {"put", "insert", "own", "overwrite"} => q.body \in Payloads
    /\ q.pc \in {"put", "insert", "check", "set"} => q.value \in Values
    /\ q.pc \in {"insert", "recheck", "describe"} => q.stored \in Stored

TypeInv == TypeOK /\ \A r \in Requests : Filled(reqs[r])

----------------------------------------------------------------------------
(* Lemmas on the operators of the service.                                  *)

\* A store reports a size and a checksum of what it holds.
LEMMA ReportsLemma ==
    ASSUME NEW c \in Contents
    PROVE  Reports(c) \subseteq Stored
BY DEF Reports, Stored

\* The next field to set is a field.
LEMMA NextFieldLemma ==
    ASSUME NEW todo
    PROVE  NextField(todo) \in Fields
BY DEF NextField, Fields

\* The byte store stays a table of contents under a Put that answers an error.
LEMMA FailedPutLemma ==
    ASSUME TypeOK, NEW r \in Requests, reqs[r].id \in Ids, reqs[r].body \in Payloads,
           blobs' \in AfterFailedPut(reqs[r])
    PROVE  /\ DOMAIN blobs' \subseteq Ids
           /\ \A i \in DOMAIN blobs' : blobs'[i] \in Contents
           /\ DOMAIN blobs \subseteq DOMAIN blobs'
           /\ \A i \in DOMAIN blobs : i # reqs[r].id => blobs'[i] = blobs[i]
<1>1. CASE blobs' = blobs
  BY <1>1 DEF TypeOK
<1>2. CASE \E c \in Remains(reqs[r]) : blobs' = With(blobs, reqs[r].id, c)
  <2>1. PICK c \in Remains(reqs[r]) : blobs' = With(blobs, reqs[r].id, c)
    BY <1>2
  <2>2. c \in Contents
    BY DEF Remains, Contents
  <2>3. /\ DOMAIN blobs' = DOMAIN blobs \cup {reqs[r].id}
        /\ blobs'[reqs[r].id] = c
        /\ \A y \in DOMAIN blobs : y # reqs[r].id => blobs'[y] = blobs[y]
    BY <2>1 DEF With
  <2>. QED
    BY <2>2, <2>3 DEF TypeOK
<1>. QED
  BY <1>1, <1>2 DEF AfterFailedPut

\* The byte store under a Delete call, whatever it answers.
LEMMA EraseLemma ==
    ASSUME NEW r \in Requests, blobs' \in AfterErase(reqs[r])
    PROVE  /\ DOMAIN blobs' \subseteq DOMAIN blobs
           /\ DOMAIN blobs \subseteq DOMAIN blobs' \cup {reqs[r].id}
           /\ \A i \in DOMAIN blobs' : blobs'[i] = blobs[i]
BY DEF AfterErase, Without

----------------------------------------------------------------------------
(* Type correctness.                                                        *)

\* Filled is an inductive strengthening of the type invariant.
LEMMA TypeInit == Init => TypeInv
BY DEF Init, TypeInv, TypeOK, Filled, Idle, Request, Points, Replies

\* A slot given a well-formed request.
LEMMA BecomeLemma ==
    ASSUME TypeInv, NEW r \in Requests, NEW q \in Request, Filled(q), Become(r, q)
    PROVE  reqs' \in [Requests -> Request] /\ \A s \in Requests : Filled(reqs'[s])
BY DEF TypeInv, TypeOK, Become

\* Every step gives its request a well-formed record.
LEMMA RecordLemma ==
    ASSUME TypeInv, NEW r \in Requests, Step(r)
    PROVE  \E q2 \in Request : Filled(q2) /\ Become(r, q2)
<1>. DEFINE q == reqs[r]
<1>a. q \in Request /\ Filled(q)
  BY DEF TypeInv, TypeOK
<1>1. CASE BeginCreate(r)
  <2>1. PICK u \in Users, i \in Ids \ minted, p \in Payloads, v \in Values :
            Start(r, [Idle EXCEPT !.op = "create", !.pc = "put", !.user = u,
                                  !.id = i, !.body = p, !.value = v])
    BY <1>1 DEF BeginCreate
  <2>. QED
    BY <2>1 DEF Start, Filled, Idle, Request, Points, Replies
<1>2. CASE BeginReplace(r)
  <2>1. PICK u \in Users, i \in Ids, p \in Payloads, m \in Conditions :
            Start(r, [Idle EXCEPT !.op = "replace", !.pc = "own", !.user = u,
                                  !.id = i, !.body = p, !.cond = m])
    BY <1>2 DEF BeginReplace
  <2>. QED
    BY <2>1 DEF Start, Filled, Idle, Request, Points, Replies
<1>3. CASE BeginUpdate(r)
  <2>1. PICK u \in Users, i \in Ids, t \in Patches, v \in Values :
            Start(r, [Idle EXCEPT !.op = "update", !.user = u, !.id = i,
                                  !.todo = t, !.value = v,
                                  !.pc = IF t = {} THEN "show" ELSE "check"])
    BY <1>3 DEF BeginUpdate
  <2>2. t \subseteq Fields
    BY InputAssumption
  <2>. QED
    BY <2>1, <2>2 DEF Start, Filled, Idle, Request, Points, Replies
<1>4. CASE BeginDelete(r)
  BY <1>4 DEF BeginDelete, Start, Filled, Idle, Request, Points, Replies
<1>5. CASE Cancel(r)
  BY <1>5, <1>a DEF Cancel, Filled, Request
<1>6. CASE Close(r)
  BY <1>6 DEF Close, Idle, Filled, Request, Points, Replies
<1>. USE <1>a DEF Filled, Request, Points, Replies, Goto, Answer
<1>7. CASE Put(r)
  <2>1. Reports(q.body) \subseteq Stored
    BY <1>7, ReportsLemma DEF Put, Contents
  <2>. QED
    BY <1>7, <2>1 DEF Put
<1>8. CASE Insert(r)
  BY <1>8 DEF Insert
<1>9. CASE Cleanup(r)
  BY <1>9 DEF Cleanup
<1>10. CASE Own(r)
  BY <1>10, ZenonT(40) DEF Own, Ownership
<1>11. CASE Overwrite(r)
  <2>1. Reports(q.body) \subseteq Stored
    BY <1>11, ReportsLemma DEF Overwrite, Contents
  <2>. QED
    BY <1>11, <2>1, ZenonT(40) DEF Overwrite
<1>12. CASE Recheck(r)
  BY <1>12, ZenonT(40) DEF Recheck, Authorize, Ownership
<1>13. CASE Describe(r)
  BY <1>13 DEF Describe, Write
<1>14. CASE Reread(r)
  BY <1>14, ZenonT(40) DEF Reread
<1>15. CASE Check(r)
  BY <1>15, ZenonT(40) DEF Check, Authorize, Ownership
<1>16. CASE Set(r)
  BY <1>16, ZenonT(40) DEF Set, Write
<1>17. CASE Show(r)
  BY <1>17, ZenonT(40) DEF Show, Ownership
<1>18. CASE AuthorizeDelete(r)
  BY <1>18, ZenonT(40) DEF AuthorizeDelete, Authorize, Ownership
<1>19. CASE Unlink(r)
  BY <1>19, ZenonT(40) DEF Unlink
<1>20. CASE Erase(r)
  BY <1>20 DEF Erase
<1>. QED
  BY <1>1, <1>2, <1>3, <1>4, <1>5, <1>6, <1>7, <1>8, <1>9, <1>10, <1>11, <1>12,
     <1>13, <1>14, <1>15, <1>16, <1>17, <1>18, <1>19, <1>20 DEF Step

\* The tables stay tables of rows and of contents.
LEMMA TablesLemma ==
    ASSUME TypeInv, NEW r \in Requests, Step(r)
    PROVE  /\ DOMAIN rows' \subseteq Ids /\ \A i \in DOMAIN rows' : rows'[i] \in Row
           /\ DOMAIN blobs' \subseteq Ids /\ \A i \in DOMAIN blobs' : blobs'[i] \in Contents
           /\ minted' \subseteq Ids
<1>. DEFINE q == reqs[r]
            Tables == /\ DOMAIN rows \subseteq Ids
                      /\ \A i \in DOMAIN rows : rows[i] \in Row
                      /\ DOMAIN blobs \subseteq Ids
                      /\ \A i \in DOMAIN blobs : blobs[i] \in Contents
                      /\ minted \subseteq Ids
<1>a. Tables /\ q \in Request /\ Filled(q)
  BY DEF TypeInv, TypeOK
<1>1. CASE BeginCreate(r)
  BY <1>1, <1>a DEF BeginCreate
<1>2. CASE Put(r)
  <2>1. q.id \in Ids /\ q.body \in Payloads
    BY <1>2, <1>a DEF Put, Filled
  <2>. QED
    BY <1>2, <1>a, <2>1, FailedPutLemma DEF Put, With, Contents, TypeInv
<1>3. CASE Insert(r)
  <2>1. q.id \in Ids /\ NewRow(q) \in Row
    BY <1>3, <1>a DEF Insert, Filled, NewRow, Row
  <2>. QED
    BY <1>3, <1>a, <2>1 DEF Insert, With
<1>4. CASE Cleanup(r)
  BY <1>4, <1>a, EraseLemma DEF Cleanup
<1>5. CASE Overwrite(r)
  <2>1. q.id \in Ids /\ q.body \in Payloads
    BY <1>5, <1>a DEF Overwrite, Filled
  <2>. QED
    BY <1>5, <1>a, <2>1, FailedPutLemma DEF Overwrite, With, Contents, TypeInv
<1>6. CASE Describe(r)
  BY <1>6, <1>a DEF Describe, Write, Row, Filled
<1>7. CASE Set(r)
  <2>1. q.id \in Ids /\ q.value \in Values /\ NextField(q.todo) \in Fields
    BY <1>7, <1>a, NextFieldLemma DEF Set, Filled
  <2>. QED
    BY <1>7, <1>a, <2>1 DEF Set, Write, Row
<1>8. CASE Unlink(r)
  BY <1>8, <1>a DEF Unlink, Without
<1>9. CASE Erase(r)
  BY <1>9, <1>a, EraseLemma DEF Erase
<1>10. CASE UNCHANGED <<rows, blobs, minted>>
  BY <1>10, <1>a
<1>. QED
  BY <1>1, <1>2, <1>3, <1>4, <1>5, <1>6, <1>7, <1>8, <1>9, <1>10
  DEF Step, BeginReplace, BeginUpdate, BeginDelete, Cancel, Close, Own, Recheck,
      Reread, Check, Show, AuthorizeDelete, Authorize

LEMMA TypeNext == TypeInv /\ [Next]_vars => TypeInv'
<1>. SUFFICES ASSUME TypeInv, [Next]_vars PROVE TypeInv'
  OBVIOUS
<1>1. CASE Restart
  <2>1. Idle \in Request /\ Filled(Idle)
    BY DEF Idle, Request, Points, Replies, Filled
  <2>2. blobs' = [i \in {} |-> None] \/ blobs' = blobs
    BY <1>1 DEF Restart
  <2>. QED
    BY <1>1, <2>1, <2>2 DEF Restart, TypeInv, TypeOK
<1>2. ASSUME NEW r \in Requests, Step(r) PROVE TypeInv'
  <2>1. PICK q2 \in Request : Filled(q2) /\ Become(r, q2)
    BY <1>2, RecordLemma
  <2>2. reqs' \in [Requests -> Request] /\ \A s \in Requests : Filled(reqs'[s])
    BY <2>1, BecomeLemma
  <2>. QED
    BY <1>2, <2>2, TablesLemma DEF TypeInv, TypeOK
<1>3. CASE UNCHANGED vars
  BY <1>3 DEF vars, TypeInv, TypeOK
<1>. QED
  BY <1>1, <1>2, <1>3 DEF Next

\* The type invariant holds of every behaviour of the service.
THEOREM TypeCorrect == Spec => []TypeOK
<1>1. TypeInv => TypeOK
  BY DEF TypeInv
<1>. QED
  BY <1>1, TypeInit, TypeNext, PTL DEF Spec

----------------------------------------------------------------------------
(* Ownership.  A request that holds an id drew it, or passed an ownership    *)
(* check on it: whatever row the id has from then on, it is the request's    *)
(* user's.  This is what makes it safe to write long after the check.        *)

\* The id is drawn and has no row yet.
Drawn(q) == q.pc \in {"put", "insert"}

Holder(q) ==
    \/ q.pc \in {"put", "insert", "cleanup", "overwrite", "recheck", "describe",
                 "reread", "set", "unlink", "erase"}
    \/ q.pc \in {"check", "show"} /\ q.wrote

Held(q) ==
    /\ Holder(q) => /\ q.id \in minted
                    /\ q.id \in DOMAIN rows => rows[q.id].owner = q.user
    /\ Drawn(q) => q.id \notin DOMAIN rows

OwnershipInv ==
    /\ TypeInv
    /\ DOMAIN rows \subseteq minted
    /\ \A r \in Requests : Held(reqs[r])
    /\ \A r, s \in Requests :
           r # s /\ Drawn(reqs[r]) /\ Holder(reqs[s]) => reqs[r].id # reqs[s].id

LEMMA OwnershipInit == Init => OwnershipInv
BY TypeInit DEF Init, OwnershipInv, Held, Holder, Drawn, Idle

\* How a step comes to hold an id: it held it before, it has just read a row
\* of its user, or it has just drawn the id.
LEMMA HolderLemma ==
    ASSUME TypeInv, NEW r \in Requests, Step(r)
    PROVE  LET q == reqs[r]
               q2 == reqs'[r]
           IN
           /\ \A s \in Requests : s # r => reqs'[s] = reqs[s]
           /\ Holder(q2) =>
                 \/ Holder(q) /\ q2.id = q.id /\ q2.user = q.user
                 \/ /\ q2.id \in DOMAIN rows /\ rows[q2.id].owner = q2.user
                    /\ ~Drawn(q2)
                 \/ q2.id \notin minted /\ q2.id \in minted'
           /\ Drawn(q2) =>
                 \/ Drawn(q) /\ q2.id = q.id
                 \/ q2.id \notin minted /\ q2.id \in minted'
           /\ minted \subseteq minted'
<1>. DEFINE q == reqs[r]
            q2 == reqs'[r]
<1>a. q \in Request
  BY DEF TypeInv, TypeOK
<1>b. \A x : Become(r, x) => reqs'[r] = x
  BY DEF TypeInv, TypeOK, Become
<1>c. \A s \in Requests : s # r => reqs'[s] = reqs[s]
  <2>1. PICK x \in Request : Become(r, x)
    BY RecordLemma
  <2>. QED
    BY <2>1 DEF TypeInv, TypeOK, Become
<1>d. \A reply : Answer(r, reply) => q2.pc = "done"
  BY <1>a, <1>b DEF Answer, Request
<1>e. \A pc : Goto(r, pc) => /\ q2.pc = pc /\ q2.id = q.id /\ q2.user = q.user
                             /\ q2.wrote = q.wrote
  BY <1>a, <1>b DEF Goto, Request
<1>f. Ownership(q.id, q.user) = "ok" =>
          q.id \in DOMAIN rows /\ rows[q.id].owner = q.user
  BY DEF Ownership
<1>. USE DEF Drawn, Holder
<1>1. CASE BeginCreate(r)
  <2>1. PICK u \in Users, i \in Ids \ minted, p \in Payloads, v \in Values :
            Start(r, [Idle EXCEPT !.op = "create", !.pc = "put", !.user = u,
                                  !.id = i, !.body = p, !.value = v])
    BY <1>1 DEF BeginCreate
  <2>2. q2.id = reqs'[r].id /\ minted' = minted \cup {q2.id} /\ q2.id \notin minted
    BY <1>1, <1>b, ZenonT(40) DEF BeginCreate, Start, Idle
  <2>. QED
    BY <1>c, <2>2
<1>2. CASE BeginReplace(r)
  <2>1. q2.pc = "own"
    BY <1>2, <1>b DEF BeginReplace, Start, Idle
  <2>. QED
    BY <1>2, <1>c, <2>1 DEF BeginReplace
<1>3. CASE BeginUpdate(r)
  <2>1. q2.pc \in {"show", "check"} /\ q2.wrote = FALSE
    BY <1>3, <1>b, ZenonT(40) DEF BeginUpdate, Start, Idle
  <2>. QED
    BY <1>3, <1>c, <2>1 DEF BeginUpdate
<1>4. CASE BeginDelete(r)
  <2>1. q2.pc = "authorize"
    BY <1>4, <1>b DEF BeginDelete, Start, Idle
  <2>. QED
    BY <1>4, <1>c, <2>1 DEF BeginDelete
<1>5. CASE Cancel(r)
  BY <1>5, <1>a, <1>b, <1>c DEF Cancel, Request
<1>6. CASE Close(r)
  BY <1>6, <1>b, <1>c DEF Close, Idle
<1>7. CASE Put(r)
  BY <1>7, <1>a, <1>b, <1>c, <1>d DEF Put, Request
<1>8. CASE Insert(r)
  BY <1>8, <1>a, <1>b, <1>c, <1>e, ZenonT(40) DEF Insert, Request
<1>9. CASE Cleanup(r)
  BY <1>9, <1>c, <1>d DEF Cleanup
<1>10. CASE Own(r)
  BY <1>10, <1>c, <1>d, <1>e, <1>f DEF Own
<1>11. CASE Overwrite(r)
  <2>1. q.pc = "overwrite"
    BY <1>11 DEF Overwrite
  <2>2. q2.pc \in {"recheck", "done"} /\ q2.id = q.id /\ q2.user = q.user
    <3>1. \A s : Become(r, [q EXCEPT !.pc = "recheck", !.stored = s, !.wrote = TRUE])
              => q2.pc = "recheck" /\ q2.id = q.id /\ q2.user = q.user
      BY <1>a, <1>b DEF Request
    <3>2. \A w : Become(r, [q EXCEPT !.pc = "done", !.reply = "error", !.wrote = w])
              => q2.pc = "done" /\ q2.id = q.id /\ q2.user = q.user
      BY <1>a, <1>b DEF Request
    <3>. QED
      BY <1>11, <3>1, <3>2 DEF Overwrite
  <2>. QED
    BY <1>11, <1>c, <2>1, <2>2 DEF Overwrite
<1>12. CASE Recheck(r)
  BY <1>12, <1>c, <1>d, <1>e DEF Recheck, Authorize
<1>13. CASE Describe(r)
  <2>1. q2.pc \in {"reread", "done"} /\ q2.id = q.id /\ q2.user = q.user
    <3>1. Become(r, [q EXCEPT !.pc = "reread", !.wrote = TRUE])
              => q2.pc = "reread" /\ q2.id = q.id /\ q2.user = q.user
      BY <1>a, <1>b DEF Request
    <3>2. Become(r, [q EXCEPT !.pc = "done", !.reply = "error", !.wrote = TRUE])
              => q2.pc = "done" /\ q2.id = q.id /\ q2.user = q.user
      BY <1>a, <1>b DEF Request
    <3>3. Answer(r, "error") => q2.pc = "done" /\ q2.id = q.id /\ q2.user = q.user
      BY <1>a, <1>b DEF Request, Answer
    <3>. QED
      BY <1>13, <3>1, <3>2, <3>3 DEF Describe, Write
  <2>. QED
    BY <1>13, <1>c, <2>1 DEF Describe, Write
<1>14. CASE Reread(r)
  BY <1>14, <1>c, <1>d DEF Reread
<1>15. CASE Check(r)
  BY <1>15, <1>c, <1>d, <1>e, <1>f DEF Check, Authorize
<1>16. CASE Set(r)
  <2>1. /\ q2.pc \in {"check", "show", "done"}
        /\ q2.id = q.id /\ q2.user = q.user
    <3>. DEFINE left == q.todo \ {NextField(q.todo)}
                point == IF left = {} THEN "show" ELSE "check"
    <3>1. Become(r, [q EXCEPT !.todo = left, !.wrote = TRUE, !.pc = point])
              => q2.pc = point /\ q2.id = q.id /\ q2.user = q.user
      BY <1>a, <1>b DEF Request
    <3>2. Become(r, [q EXCEPT !.pc = "done", !.reply = "error", !.wrote = TRUE])
              => q2.pc = "done" /\ q2.id = q.id /\ q2.user = q.user
      BY <1>a, <1>b DEF Request
    <3>3. Answer(r, "error") => q2.pc = "done" /\ q2.id = q.id /\ q2.user = q.user
      BY <1>a, <1>b DEF Request, Answer
    <3>4. point \in {"show", "check"}
      OBVIOUS
    <3>. QED
      BY <1>16, <3>1, <3>2, <3>3, <3>4 DEF Set, Write
  <2>. QED
    BY <1>16, <1>c, <2>1 DEF Set, Write
<1>17. CASE Show(r)
  BY <1>17, <1>c, <1>d DEF Show
<1>18. CASE AuthorizeDelete(r)
  BY <1>18, <1>c, <1>d, <1>e, <1>f DEF AuthorizeDelete, Authorize
<1>19. CASE Unlink(r)
  BY <1>19, <1>a, <1>b, <1>c, <1>d, ZenonT(40) DEF Unlink, Request
<1>20. CASE Erase(r)
  BY <1>20, <1>c, <1>d DEF Erase
<1>. QED
  BY <1>1, <1>2, <1>3, <1>4, <1>5, <1>6, <1>7, <1>8, <1>9, <1>10, <1>11, <1>12,
     <1>13, <1>14, <1>15, <1>16, <1>17, <1>18, <1>19, <1>20 DEF Step

\* What a step does to the files table: rows keep their owner, and the one row
\* that appears is that of a drawn id, inserted by its request for its user.
LEMMA RowsLemma ==
    ASSUME TypeInv, NEW r \in Requests, Step(r)
    PROVE  \A i \in DOMAIN rows' :
              \/ i \in DOMAIN rows /\ rows'[i].owner = rows[i].owner
              \/ /\ reqs[r].pc = "insert" /\ reqs[r].id = i
                 /\ rows'[i].owner = reqs[r].user /\ ~Drawn(reqs'[r])
<1>. DEFINE q == reqs[r]
<1>a. q \in Request /\ r \in DOMAIN reqs /\ \A i \in DOMAIN rows : rows[i] \in Row
  BY DEF TypeInv, TypeOK
<1>1. CASE Insert(r)
  <2>1. Drawn(reqs'[r]) => UNCHANGED rows
    <3>1. \A x : Become(r, x) => reqs'[r] = x
      BY DEF TypeInv, TypeOK, Become
    <3>. QED
      BY <1>1, <1>a, <3>1, ZenonT(40) DEF Insert, Drawn, Request
  <2>2. rows' = rows \/ rows' = With(rows, q.id, NewRow(q))
    BY <1>1 DEF Insert
  <2>. QED
    BY <1>1, <2>1, <2>2 DEF Insert, With, NewRow
<1>2. CASE Describe(r)
  BY <1>2, <1>a DEF Describe, Write, Row
<1>3. CASE Set(r)
  BY <1>3, <1>a DEF Set, Write, Row
<1>4. CASE Unlink(r)
  BY <1>4 DEF Unlink, Without
<1>5. CASE UNCHANGED rows
  BY <1>5
<1>. QED
  BY <1>1, <1>2, <1>3, <1>4, <1>5
  DEF Step, BeginCreate, BeginReplace, BeginUpdate, BeginDelete, Cancel, Close, Put,
      Cleanup, Own, Overwrite, Recheck, Reread, Check, Show, AuthorizeDelete,
      Authorize, Erase

LEMMA OwnershipNext == OwnershipInv /\ [Next]_vars => OwnershipInv'
<1>. SUFFICES ASSUME OwnershipInv, [Next]_vars PROVE OwnershipInv'
  OBVIOUS
<1>0. TypeInv'
  BY TypeNext DEF OwnershipInv
<1>1. CASE Restart
  BY <1>0, <1>1 DEF Restart, OwnershipInv, Held, Holder, Drawn, Idle, TypeInv, TypeOK
<1>2. ASSUME NEW r \in Requests, Step(r) PROVE OwnershipInv'
  <2>. DEFINE q == reqs[r]
              q2 == reqs'[r]
  <2>a. TypeInv /\ Held(q)
    BY DEF OwnershipInv
  <2>b. \A s \in Requests : s # r => reqs'[s] = reqs[s]
    BY <1>2, <2>a, HolderLemma
  <2>c. Holder(q2) =>
           \/ Holder(q) /\ q2.id = q.id /\ q2.user = q.user
           \/ q2.id \in DOMAIN rows /\ rows[q2.id].owner = q2.user /\ ~Drawn(q2)
           \/ q2.id \notin minted /\ q2.id \in minted'
    BY <1>2, <2>a, HolderLemma
  <2>d. Drawn(q2) =>
           (Drawn(q) /\ q2.id = q.id) \/ (q2.id \notin minted /\ q2.id \in minted')
    BY <1>2, <2>a, HolderLemma
  <2>e. minted \subseteq minted'
    BY <1>2, <2>a, HolderLemma
  <2>f. \A i \in DOMAIN rows' :
           \/ i \in DOMAIN rows /\ rows'[i].owner = rows[i].owner
           \/ q.pc = "insert" /\ q.id = i /\ rows'[i].owner = q.user /\ ~Drawn(q2)
    BY <1>2, <2>a, RowsLemma
  <2>g. q.pc = "insert" => Drawn(q) /\ Holder(q)
    BY DEF Drawn, Holder
  <2>h. \A s \in Requests : Drawn(reqs[s]) => Holder(reqs[s])
    BY DEF Drawn, Holder
  <2>1. (DOMAIN rows \subseteq minted)'
    BY <2>a, <2>e, <2>f, <2>g DEF OwnershipInv, Held
  <2>2. Held(q)'
    BY <2>a, <2>c, <2>d, <2>e, <2>f, <2>g DEF OwnershipInv, Held
  <2>3. ASSUME NEW s \in Requests, s # r PROVE Held(reqs[s])'
    <3>1. Held(reqs[s]) /\ reqs'[s] = reqs[s]
      BY <2>3, <2>b DEF OwnershipInv
    <3>2. q.pc = "insert" /\ Holder(reqs[s]) => q.id # reqs[s].id
      BY <2>3, <2>g DEF OwnershipInv
    <3>. QED
      BY <3>1, <3>2, <2>e, <2>f, <2>h DEF Held
  <2>4. ASSUME NEW s \in Requests, NEW t \in Requests, s # t,
               Drawn(reqs'[s]), Holder(reqs'[t])
        PROVE  reqs'[s].id # reqs'[t].id
    <3>1. CASE s # r /\ t # r
      BY <3>1, <2>4, <2>b DEF OwnershipInv
    <3>2. CASE s = r
      BY <3>2, <2>4, <2>b, <2>d DEF OwnershipInv, Held
    <3>3. CASE t = r
      BY <3>3, <2>4, <2>b, <2>c, <2>h DEF OwnershipInv, Held
    <3>. QED
      BY <3>1, <3>2, <3>3
  <2>. QED
    BY <1>0, <2>1, <2>2, <2>3, <2>4 DEF OwnershipInv
<1>3. CASE UNCHANGED vars
  BY <1>0, <1>3 DEF vars, OwnershipInv, Held
<1>. QED
  BY <1>1, <1>2, <1>3 DEF Next

----------------------------------------------------------------------------
(* Only the owner's requests write.                                         *)

\* Bytes disappear only under a clean-up or an erasure of their id.
LEMMA BytesKeptLemma ==
    ASSUME TypeInv, NEW r \in Requests, Step(r), NEW i \in DOMAIN blobs
    PROVE  i \in DOMAIN blobs' \/ (reqs[r].pc \in {"cleanup", "erase"} /\ reqs[r].id = i)
<1>. DEFINE q == reqs[r]
<1>a. q \in Request /\ Filled(q)
  BY DEF TypeInv, TypeOK
<1>1. CASE Put(r)
  <2>1. q.id \in Ids /\ q.body \in Payloads
    BY <1>1, <1>a DEF Put, Filled
  <2>2. CASE blobs' \in AfterFailedPut(q)
    BY <2>1, <2>2, FailedPutLemma DEF TypeInv
  <2>3. CASE blobs' = With(blobs, q.id, q.body)
    BY <2>3 DEF With
  <2>. QED
    BY <1>1, <2>2, <2>3 DEF Put
<1>2. CASE Overwrite(r)
  <2>1. q.id \in Ids /\ q.body \in Payloads
    BY <1>2, <1>a DEF Overwrite, Filled
  <2>2. CASE blobs' \in AfterFailedPut(q)
    BY <2>1, <2>2, FailedPutLemma DEF TypeInv
  <2>3. CASE blobs' = With(blobs, q.id, q.body)
    BY <2>3 DEF With
  <2>. QED
    BY <1>2, <2>2, <2>3 DEF Overwrite
<1>3. CASE Cleanup(r)
  BY <1>3, EraseLemma DEF Cleanup
<1>4. CASE Erase(r)
  BY <1>4, EraseLemma DEF Erase
<1>5. CASE UNCHANGED blobs
  BY <1>5
<1>. QED
  BY <1>1, <1>2, <1>3, <1>4, <1>5
  DEF Step, BeginCreate, BeginReplace, BeginUpdate, BeginDelete, Cancel, Close, Insert,
      Own, Recheck, Describe, Reread, Check, Set, Write, Show, AuthorizeDelete,
      Authorize, Unlink

\* Bytes are new or others only where a Put of the step's request stores them.
LEMMA StoresLemma ==
    ASSUME TypeInv, NEW r \in Requests, Step(r)
    PROVE  \A i \in DOMAIN blobs' :
              \/ i \in DOMAIN blobs /\ blobs'[i] = blobs[i]
              \/ reqs[r].id = i /\ reqs[r].pc \in {"put", "overwrite"}
<1>. DEFINE q == reqs[r]
<1>1. CASE Put(r) \/ Overwrite(r)
  <2>1. q.pc \in {"put", "overwrite"}
    BY <1>1 DEF Put, Overwrite
  <2>2. blobs' = blobs \/ \E c : blobs' = With(blobs, q.id, c)
    BY <1>1 DEF Put, Overwrite, AfterFailedPut
  <2>. QED
    BY <2>1, <2>2 DEF With
<1>2. CASE Cleanup(r) \/ Erase(r)
  BY <1>2, EraseLemma DEF Cleanup, Erase
<1>3. CASE UNCHANGED blobs
  BY <1>3
<1>. QED
  BY <1>1, <1>2, <1>3
  DEF Step, BeginCreate, BeginReplace, BeginUpdate, BeginDelete, Cancel, Close, Insert,
      Own, Recheck, Describe, Reread, Check, Set, Write, Show, AuthorizeDelete,
      Authorize, Unlink

\* The bytes a step may change are those of the id its request holds.
LEMMA BlobsLemma ==
    ASSUME TypeInv, NEW r \in Requests, Step(r), NEW i \in DOMAIN blobs
    PROVE  \/ i \in DOMAIN blobs' /\ blobs'[i] = blobs[i]
           \/ Holder(reqs[r]) /\ reqs[r].id = i
<1>. DEFINE q == reqs[r]
<1>a. q \in Request /\ Filled(q)
  BY DEF TypeInv, TypeOK
<1>1. CASE Put(r) \/ Overwrite(r)
  <2>1. q.id \in Ids /\ q.body \in Payloads /\ Holder(q)
    BY <1>1, <1>a DEF Put, Overwrite, Filled, Holder
  <2>2. CASE blobs' \in AfterFailedPut(q)
    BY <2>1, <2>2, FailedPutLemma DEF TypeInv
  <2>3. CASE blobs' = With(blobs, q.id, q.body)
    BY <2>1, <2>3 DEF With
  <2>. QED
    BY <1>1, <2>2, <2>3 DEF Put, Overwrite
<1>2. CASE Cleanup(r) \/ Erase(r)
  <2>1. Holder(q) /\ blobs' \in AfterErase(q)
    BY <1>2 DEF Cleanup, Erase, Holder
  <2>. QED
    BY <2>1, EraseLemma
<1>3. CASE UNCHANGED blobs
  BY <1>3
<1>. QED
  BY <1>1, <1>2, <1>3
  DEF Step, BeginCreate, BeginReplace, BeginUpdate, BeginDelete, Cancel, Close, Insert,
      Own, Recheck, Describe, Reread, Check, Set, Write, Show, AuthorizeDelete,
      Authorize, Unlink

\* The row a step may change or remove is that of the id its request holds.
LEMMA RowLemma ==
    ASSUME TypeInv, NEW r \in Requests, Step(r)
    PROVE  \A i \in DOMAIN rows :
              \/ i \in DOMAIN rows' /\ rows'[i] = rows[i]
              \/ Holder(reqs[r]) /\ reqs[r].id = i
<1>. DEFINE q == reqs[r]
<1>1. CASE Insert(r)
  BY <1>1 DEF Insert, With, Holder
<1>2. CASE Describe(r)
  BY <1>2 DEF Describe, Write, Holder
<1>3. CASE Set(r)
  BY <1>3 DEF Set, Write, Holder
<1>4. CASE Unlink(r)
  BY <1>4 DEF Unlink, Without, Holder
<1>5. CASE UNCHANGED rows
  BY <1>5
<1>. QED
  BY <1>1, <1>2, <1>3, <1>4, <1>5
  DEF Step, BeginCreate, BeginReplace, BeginUpdate, BeginDelete, Cancel, Close, Put,
      Cleanup, Own, Overwrite, Recheck, Reread, Check, Show, AuthorizeDelete,
      Authorize, Erase

\* A step that writes moves its request on.
LEMMA MovesLemma ==
    ASSUME TypeInv, NEW r \in Requests, Step(r)
    PROVE  reqs'[r] # reqs[r] \/ UNCHANGED <<rows, blobs>>
<1>. DEFINE q == reqs[r]
<1>a. q \in Request
  BY DEF TypeInv, TypeOK
<1>b. \A x : Become(r, x) => reqs'[r] = x
  BY DEF TypeInv, TypeOK, Become
<1>. USE <1>a, <1>b DEF Request, Goto, Answer
<1>1. CASE Put(r)
  BY <1>1, ZenonT(40) DEF Put
<1>2. CASE Insert(r)
  BY <1>2, ZenonT(40) DEF Insert
<1>3. CASE Cleanup(r)
  BY <1>3 DEF Cleanup
<1>4. CASE Overwrite(r)
  <2>1. \A s : Become(r, [q EXCEPT !.pc = "recheck", !.stored = s, !.wrote = TRUE])
            => reqs'[r].pc = "recheck"
    OBVIOUS
  <2>2. \A w : Become(r, [q EXCEPT !.pc = "done", !.reply = "error", !.wrote = w])
            => reqs'[r].pc = "done"
    OBVIOUS
  <2>. QED
    BY <1>4, <2>1, <2>2 DEF Overwrite
<1>5. CASE Describe(r)
  BY <1>5, ZenonT(40) DEF Describe, Write
<1>6. CASE Set(r)
  BY <1>6, ZenonT(40) DEF Set, Write
<1>7. CASE Unlink(r)
  BY <1>7, ZenonT(40) DEF Unlink
<1>8. CASE Erase(r)
  BY <1>8 DEF Erase
<1>9. CASE UNCHANGED <<rows, blobs>>
  BY <1>9
<1>. QED
  BY <1>1, <1>2, <1>3, <1>4, <1>5, <1>6, <1>7, <1>8, <1>9
  DEF Step, BeginCreate, BeginReplace, BeginUpdate, BeginDelete, Cancel, Close,
      Own, Recheck, Reread, Check, Show, AuthorizeDelete, Authorize

\* The bytes outlive the process: not so in the memory store.
Durable == Backend = "memory" => "crash" \notin Faults

\* A step changes the row or the bytes of an existing file only on behalf of
\* its owner, whatever fails, as long as the bytes outlive the process.
THEOREM OwnersOnly ==
    ASSUME Durable
    PROVE  Spec => OnlyOwnersWrite
<1>. DEFINE Owned(i) ==
        \/ i \in DOMAIN rows' /\ rows'[i] = rows[i]
           /\ (i \in DOMAIN blobs => i \in DOMAIN blobs' /\ blobs'[i] = blobs[i])
        \/ \E r \in Requests : /\ reqs'[r] # reqs[r]
                               /\ reqs[r].id = i
                               /\ reqs[r].user = rows[i].owner
<1>1. OwnershipInv /\ [Next]_vars => [\A i \in DOMAIN rows : Owned(i)]_vars
  <2>. SUFFICES ASSUME OwnershipInv, [Next]_vars, vars' # vars, NEW i \in DOMAIN rows
                PROVE  Owned(i)
    OBVIOUS
  <2>1. CASE Restart
    BY <2>1 DEF Restart, Durable
  <2>2. ASSUME NEW r \in Requests, Step(r) PROVE Owned(i)
    <3>1. TypeInv /\ Held(reqs[r])
      BY DEF OwnershipInv
    <3>2. CASE Holder(reqs[r]) /\ reqs[r].id = i
      <4>1. reqs[r].user = rows[i].owner
        BY <3>1, <3>2 DEF Held
      <4>2. reqs'[r] # reqs[r] \/ UNCHANGED <<rows, blobs>>
        BY <2>2, <3>1, MovesLemma
      <4>. QED
        BY <3>2, <4>1, <4>2
    <3>3. CASE ~(Holder(reqs[r]) /\ reqs[r].id = i)
      BY <2>2, <3>1, <3>3, RowLemma, BlobsLemma
    <3>. QED
      BY <3>2, <3>3
  <2>. QED
    BY <2>1, <2>2 DEF Next
<1>. QED
  BY <1>1, OwnershipInit, OwnershipNext, PTL DEF Spec, OnlyOwnersWrite

----------------------------------------------------------------------------
(* Every row has bytes.                                                     *)

\* The answer of a database write arrives, or the write has not happened.
Answered == "lost_answer" \notin Faults

\* A drawn id has its bytes before its row; an id whose bytes are about to be
\* erased has no row, and will have none because its request holds it.
BytesInv ==
    /\ OwnershipInv
    /\ RowsHaveBytes
    /\ \A r \in Requests :
          /\ reqs[r].pc = "insert" => reqs[r].id \in DOMAIN blobs
          /\ reqs[r].pc \in {"cleanup", "erase"} => reqs[r].id \notin DOMAIN rows

LEMMA BytesInit == Init => BytesInv
BY OwnershipInit DEF Init, BytesInv, RowsHaveBytes, Idle

\* Where the request of a step stands: about to insert with its bytes stored,
\* about to erase with its row gone, about to clean up after its insert, or where
\* it stood.
LEMMA StandLemma ==
    ASSUME TypeInv, NEW r \in Requests, Step(r), Held(reqs[r])
    PROVE  LET q == reqs[r]
               q2 == reqs'[r]
           IN
           /\ q2.pc = "insert" => q2.id \in DOMAIN blobs' \/ (q.pc = "insert" /\ q2.id = q.id)
           /\ q2.pc = "erase" =>
                 q2.id \notin DOMAIN rows' \/ (q.pc = "erase" /\ q2.id = q.id)
           /\ q2.pc = "cleanup" =>
                 /\ q2.id = q.id
                 /\ \/ q.pc = "cleanup"
                    \/ q.pc = "insert" /\ (Answered => q2.id \notin DOMAIN rows')
<1>. DEFINE q == reqs[r]
            q2 == reqs'[r]
            Settled == q2.pc \notin {"insert", "cleanup", "erase"}
<1>a. q \in Request
  BY DEF TypeInv, TypeOK
<1>b. \A x : Become(r, x) => reqs'[r] = x
  BY DEF TypeInv, TypeOK, Become
<1>d. \A reply : Answer(r, reply) => Settled
  BY <1>a, <1>b DEF Answer, Request
<1>e. \A pc : Goto(r, pc) => q2.pc = pc /\ q2.id = q.id
  BY <1>a, <1>b DEF Goto, Request
<1>1. CASE Put(r)
  <2>1. \A s : Become(r, [q EXCEPT !.pc = "insert", !.stored = s]) =>
                   q2.pc = "insert" /\ q2.id = q.id
    BY <1>a, <1>b DEF Request
  <2>. QED
    BY <1>1, <1>d, <2>1 DEF Put, With
<1>2. CASE Insert(r)
  <2>1. Become(r, [q EXCEPT !.pc = "done", !.reply = "ok", !.wrote = TRUE]) => Settled
    BY <1>a, <1>b DEF Request
  <2>2. q.id \notin DOMAIN rows
    BY <1>2 DEF Insert, Held, Drawn
  <2>3. Become(r, [q EXCEPT !.pc = "cleanup", !.wrote = TRUE]) =>
            q2.pc = "cleanup" /\ q2.id = q.id
    BY <1>a, <1>b DEF Request
  <2>. QED
    BY <1>2, <1>e, <2>1, <2>2, <2>3 DEF Insert, Answered, DbUnheard
<1>3. CASE Unlink(r)
  <2>1. /\ Become(r, [q EXCEPT !.pc = "erase", !.wrote = TRUE]) => q2.pc = "erase" /\ q2.id = q.id
        /\ Become(r, [q EXCEPT !.pc = "done", !.reply = "error", !.wrote = TRUE]) => Settled
    BY <1>a, <1>b DEF Request
  <2>. QED
    BY <1>3, <1>d, <2>1 DEF Unlink, Without
<1>4. CASE Cancel(r)
  BY <1>4, <1>a, <1>b DEF Cancel, Request
<1>5. CASE Overwrite(r)
  <2>1. \A s : Become(r, [q EXCEPT !.pc = "recheck", !.stored = s, !.wrote = TRUE]) => Settled
    BY <1>a, <1>b DEF Request
  <2>2. \A w : Become(r, [q EXCEPT !.pc = "done", !.reply = "error", !.wrote = w]) => Settled
    BY <1>a, <1>b DEF Request
  <2>. QED
    BY <1>5, <2>1, <2>2 DEF Overwrite
<1>6. CASE Describe(r)
  <2>1. /\ Become(r, [q EXCEPT !.pc = "reread", !.wrote = TRUE]) => Settled
        /\ Become(r, [q EXCEPT !.pc = "done", !.reply = "error", !.wrote = TRUE]) => Settled
    BY <1>a, <1>b, ZenonT(40) DEF Request
  <2>. QED
    BY <1>6, <1>d, <2>1 DEF Describe, Write
<1>7. CASE Set(r)
  <2>. DEFINE left == q.todo \ {NextField(q.todo)}
              point == IF left = {} THEN "show" ELSE "check"
  <2>1. Become(r, [q EXCEPT !.todo = left, !.wrote = TRUE, !.pc = point]) => q2.pc = point
    BY <1>a, <1>b DEF Request
  <2>2. Become(r, [q EXCEPT !.pc = "done", !.reply = "error", !.wrote = TRUE]) => Settled
    BY <1>a, <1>b DEF Request
  <2>3. point \in {"show", "check"}
    OBVIOUS
  <2>. QED
    BY <1>7, <1>d, <2>1, <2>2, <2>3 DEF Set, Write
<1>8. CASE BeginCreate(r)
  <2>1. q2.pc = "put"
    BY <1>8, <1>b DEF BeginCreate, Start, Idle
  <2>. QED
    BY <2>1
<1>9. CASE BeginReplace(r)
  <2>1. q2.pc = "own"
    BY <1>9, <1>b DEF BeginReplace, Start, Idle
  <2>. QED
    BY <2>1
<1>10. CASE BeginUpdate(r)
  <2>1. q2.pc \in {"show", "check"}
    BY <1>10, <1>b, ZenonT(40) DEF BeginUpdate, Start, Idle
  <2>. QED
    BY <2>1
<1>11. CASE BeginDelete(r)
  <2>1. q2.pc = "authorize"
    BY <1>11, <1>b DEF BeginDelete, Start, Idle
  <2>. QED
    BY <2>1
<1>12. CASE Close(r)
  BY <1>12, <1>b DEF Close, Idle
<1>13. CASE Cleanup(r) \/ Erase(r) \/ Own(r) \/ Recheck(r) \/ Reread(r)
            \/ Check(r) \/ Show(r) \/ AuthorizeDelete(r)
  BY <1>13, <1>d, <1>e DEF Cleanup, Erase, Own, Recheck, Reread, Check, Show,
                           AuthorizeDelete, Authorize
<1>. QED
  BY <1>1, <1>2, <1>3, <1>4, <1>5, <1>6, <1>7, <1>8, <1>9, <1>10, <1>11, <1>12, <1>13
  DEF Step

LEMMA BytesNext ==
    ASSUME Answered, Durable
    PROVE  BytesInv /\ [Next]_vars => BytesInv'
<1>. SUFFICES ASSUME BytesInv, [Next]_vars PROVE BytesInv'
  OBVIOUS
<1>0. OwnershipInv'
  BY OwnershipNext DEF BytesInv
<1>1. CASE Restart
  BY <1>0, <1>1 DEF Restart, Durable, BytesInv, RowsHaveBytes, OwnershipInv, TypeInv,
                    TypeOK, Idle
<1>2. ASSUME NEW r \in Requests, Step(r) PROVE BytesInv'
  <2>. DEFINE q == reqs[r]
              q2 == reqs'[r]
  <2>a. TypeInv /\ Held(q)
    BY DEF BytesInv, OwnershipInv
  <2>b. \A s \in Requests : s # r => reqs'[s] = reqs[s]
    BY <1>2, <2>a, HolderLemma
  <2>c. \A i \in DOMAIN blobs :
            i \in DOMAIN blobs' \/ (q.pc \in {"cleanup", "erase"} /\ q.id = i)
    BY <1>2, <2>a, BytesKeptLemma
  <2>d. \A i \in DOMAIN rows' : i \in DOMAIN rows \/ (q.pc = "insert" /\ q.id = i)
    BY <1>2, <2>a, RowsLemma
  <2>e. \A s \in Requests : s # r =>
            /\ q.pc = "insert" /\ Holder(reqs[s]) => q.id # reqs[s].id
            /\ reqs[s].pc = "insert" /\ Holder(q) => q.id # reqs[s].id
    BY DEF BytesInv, OwnershipInv, Drawn
  <2>f. \A s \in Requests : reqs[s].pc \in {"insert", "cleanup", "erase"} => Holder(reqs[s])
    BY DEF Holder
  <2>1. RowsHaveBytes'
    BY <2>c, <2>d DEF BytesInv, RowsHaveBytes
  <2>2. /\ q2.pc = "insert" => q2.id \in DOMAIN blobs'
        /\ q2.pc \in {"cleanup", "erase"} => q2.id \notin DOMAIN rows'
    <3>1. /\ q2.pc = "insert" => q2.id \in DOMAIN blobs' \/ (q.pc = "insert" /\ q2.id = q.id)
          /\ q2.pc \in {"cleanup", "erase"} =>
                \/ q2.id \notin DOMAIN rows'
                \/ q.pc \in {"cleanup", "erase"} /\ q2.id = q.id
      BY <1>2, <2>a, StandLemma, Zenon
    <3>. QED
      BY <2>c, <2>d, <3>1 DEF BytesInv
  <2>3. ASSUME NEW s \in Requests, s # r
        PROVE  /\ reqs'[s].pc = "insert" => reqs'[s].id \in DOMAIN blobs'
               /\ reqs'[s].pc \in {"cleanup", "erase"} => reqs'[s].id \notin DOMAIN rows'
    BY <2>3, <2>b, <2>c, <2>d, <2>e, <2>f DEF BytesInv
  <2>. QED
    BY <1>0, <2>1, <2>2, <2>3 DEF BytesInv
<1>3. CASE UNCHANGED vars
  BY <1>0, <1>3 DEF vars, BytesInv, RowsHaveBytes
<1>. QED
  BY <1>1, <1>2, <1>3 DEF Next

\* Every row a reader finds has bytes, whatever fails and in whatever order the
\* requests step, as long as the bytes outlive the process and no answer of a
\* database write is lost.
THEOREM NoRowWithoutBytes ==
    ASSUME Answered, Durable
    PROVE  Spec => []RowsHaveBytes
<1>1. BytesInv => RowsHaveBytes
  BY DEF BytesInv
<1>. QED
  BY <1>1, BytesInit, BytesNext, PTL DEF Spec

----------------------------------------------------------------------------
(* A refused request has changed nothing.                                   *)

\* A request is answered once, at its end; it has written nothing before its
\* first ownership check, nor when it was refused.
Clean(q) ==
    /\ q.pc # "done" => q.reply = None
    /\ q.pc \in {"own", "authorize"} => ~q.wrote
    /\ q.reply \in {"denied", "precondition"} => ~q.wrote

RefusalInv == OwnershipInv /\ \A r \in Requests : Clean(reqs[r])

LEMMA RefusalInit == Init => RefusalInv
BY OwnershipInit, ReplyAssumption DEF Init, RefusalInv, Clean, Idle

\* Once it has written, a request holds its id and is not refused any more.
LEMMA CleanLemma ==
    ASSUME TypeInv, NEW r \in Requests, Step(r), Held(reqs[r]), Clean(reqs[r])
    PROVE  Clean(reqs'[r])
<1>. DEFINE q == reqs[r]
            q2 == reqs'[r]
            verdict == Ownership(q.id, q.user)
            Unrefused == q2.pc = "done" /\ q2.reply \in {"ok", "error", "not_found"}
            Onward == q2.pc \notin {"own", "authorize", "done"} /\ q2.reply = None
<1>a. q \in Request
  BY DEF TypeInv, TypeOK
<1>b. \A x : Become(r, x) => reqs'[r] = x
  BY DEF TypeInv, TypeOK, Become
<1>c. (Unrefused => Clean(q2)) /\ (Onward => Clean(q2))
  BY ReplyAssumption DEF Clean
<1>d. \A reply : Answer(r, reply) =>
          q2.pc = "done" /\ q2.reply = reply /\ q2.wrote = q.wrote
  BY <1>a, <1>b DEF Answer, Request
<1>e. \A pc : Goto(r, pc) => q2.pc = pc /\ q2.reply = q.reply
  BY <1>a, <1>b DEF Goto, Request
<1>f. verdict \in {"ok", "denied", "not_found"}
  BY DEF Ownership
<1>g. Holder(q) => verdict # "denied"
  BY DEF Held, Ownership
<1>h. q.pc # "done" => q.reply = None
  BY DEF Clean
<1>1. CASE BeginCreate(r)
  <2>1. q2.pc = "put" /\ q2.reply = None
    BY <1>1, <1>b DEF BeginCreate, Start, Idle
  <2>. QED
    BY <1>c, <2>1
<1>2. CASE BeginReplace(r)
  <2>1. q2.pc = "own" /\ q2.reply = None /\ q2.wrote = FALSE
    BY <1>2, <1>b, ZenonT(40) DEF BeginReplace, Start, Idle
  <2>. QED
    BY <2>1, ReplyAssumption DEF Clean
<1>3. CASE BeginDelete(r)
  <2>1. q2.pc = "authorize" /\ q2.reply = None /\ q2.wrote = FALSE
    BY <1>3, <1>b DEF BeginDelete, Start, Idle
  <2>. QED
    BY <2>1, ReplyAssumption DEF Clean
<1>4. CASE Close(r)
  BY <1>4, <1>b, ReplyAssumption DEF Close, Idle, Clean
<1>5. CASE Cancel(r)
  <2>1. q2.pc = q.pc /\ q2.reply = q.reply /\ q2.wrote = q.wrote
    BY <1>5, <1>a, <1>b DEF Cancel, Request
  <2>. QED
    BY <2>1, ReplyAssumption DEF Clean
<1>6. CASE Put(r)
  <2>1. \A s : Become(r, [q EXCEPT !.pc = "insert", !.stored = s]) =>
                   q2.pc = "insert" /\ q2.reply = q.reply
    BY <1>a, <1>b DEF Request
  <2>. QED
    BY <1>6, <1>c, <1>d, <1>h, <2>1 DEF Put
<1>7. CASE Insert(r)
  <2>1. /\ Become(r, [q EXCEPT !.pc = "done", !.reply = "ok", !.wrote = TRUE]) => Unrefused
        /\ Become(r, [q EXCEPT !.pc = "cleanup", !.wrote = TRUE]) =>
              q2.pc = "cleanup" /\ q2.reply = q.reply
    BY <1>a, <1>b DEF Request
  <2>. QED
    BY <1>7, <1>c, <1>e, <1>h, <2>1 DEF Insert
<1>8. CASE Cleanup(r) \/ Erase(r) \/ Reread(r)
  BY <1>8, <1>c, <1>d DEF Cleanup, Erase, Reread
<1>9. CASE Own(r)
  <2>1. ~q.wrote /\ q.pc = "own"
    BY <1>9 DEF Own, Clean
  <2>. QED
    BY <1>9, <1>c, <1>d, <1>e, <1>h, <2>1 DEF Own, Clean
<1>10. CASE Overwrite(r)
  <2>1. \A s : Become(r, [q EXCEPT !.pc = "recheck", !.stored = s, !.wrote = TRUE]) =>
                   q2.pc = "recheck" /\ q2.reply = q.reply
    BY <1>a, <1>b DEF Request
  <2>2. \A w : Become(r, [q EXCEPT !.pc = "done", !.reply = "error", !.wrote = w])
                   => Unrefused
    BY <1>a, <1>b DEF Request
  <2>. QED
    BY <1>10, <1>c, <1>h, <2>1, <2>2 DEF Overwrite
<1>11. CASE Recheck(r)
  <2>1. q.pc = "recheck" /\ Holder(q)
    BY <1>11 DEF Recheck, Authorize, Holder
  <2>. QED
    BY <1>11, <1>c, <1>d, <1>e, <1>f, <1>g, <1>h, <2>1 DEF Recheck, Authorize
<1>12. CASE Describe(r)
  <2>1. /\ Become(r, [q EXCEPT !.pc = "reread", !.wrote = TRUE]) =>
              q2.pc = "reread" /\ q2.reply = q.reply
        /\ Become(r, [q EXCEPT !.pc = "done", !.reply = "error", !.wrote = TRUE])
              => Unrefused
    BY <1>a, <1>b DEF Request
  <2>. QED
    BY <1>12, <1>c, <1>d, <1>h, <2>1 DEF Describe, Write
<1>13. CASE Check(r)
  <2>1. q.pc = "check" /\ (q.wrote => Holder(q))
    BY <1>13 DEF Check, Authorize, Holder
  <2>. QED
    BY <1>13, <1>c, <1>d, <1>e, <1>f, <1>g, <1>h, <2>1 DEF Check, Authorize, Clean
<1>14. CASE Set(r)
  <2>. DEFINE left == q.todo \ {NextField(q.todo)}
              point == IF left = {} THEN "show" ELSE "check"
  <2>1. Become(r, [q EXCEPT !.todo = left, !.wrote = TRUE, !.pc = point]) =>
            q2.pc = point /\ q2.reply = q.reply
    BY <1>a, <1>b DEF Request
  <2>2. Become(r, [q EXCEPT !.pc = "done", !.reply = "error", !.wrote = TRUE]) => Unrefused
    BY <1>a, <1>b DEF Request
  <2>3. point \in {"show", "check"}
    OBVIOUS
  <2>. QED
    BY <1>14, <1>c, <1>d, <1>h, <2>1, <2>2, <2>3 DEF Set, Write
<1>15. CASE Show(r)
  <2>1. q.wrote /\ q.pc = "show" => verdict # "denied"
    BY <1>g DEF Holder
  <2>. QED
    BY <1>15, <1>c, <1>d, <1>f, <2>1 DEF Show, Clean
<1>16. CASE AuthorizeDelete(r)
  <2>1. ~q.wrote /\ q.pc = "authorize"
    BY <1>16 DEF AuthorizeDelete, Authorize, Clean
  <2>. QED
    BY <1>16, <1>c, <1>d, <1>e, <1>f, <1>h, <2>1 DEF AuthorizeDelete, Authorize, Clean
<1>17. CASE Unlink(r)
  <2>1. /\ Become(r, [q EXCEPT !.pc = "erase", !.wrote = TRUE]) =>
              q2.pc = "erase" /\ q2.reply = q.reply
        /\ Become(r, [q EXCEPT !.pc = "done", !.reply = "error", !.wrote = TRUE])
              => Unrefused
    BY <1>a, <1>b DEF Request
  <2>. QED
    BY <1>17, <1>c, <1>d, <1>h, <2>1 DEF Unlink
<1>18. CASE BeginUpdate(r)
  <2>1. q2.pc \in {"check", "show"} /\ q2.reply = None
    <3>1. PICK u \in Users, i \in Ids, t \in Patches, v \in Values :
              Start(r, [Idle EXCEPT !.op = "update", !.user = u, !.id = i,
                                    !.todo = t, !.value = v,
                                    !.pc = IF t = {} THEN "show" ELSE "check"])
      BY <1>18 DEF BeginUpdate
    <3>. QED
      BY <3>1, <1>b, ZenonT(40) DEF Start, Idle
  <2>. QED
    BY <1>c, <2>1
<1>. QED
  BY <1>1, <1>2, <1>3, <1>4, <1>5, <1>6, <1>7, <1>8, <1>9, <1>10, <1>11, <1>12,
     <1>13, <1>14, <1>15, <1>16, <1>17, <1>18 DEF Step

LEMMA RefusalNext == RefusalInv /\ [Next]_vars => RefusalInv'
<1>. SUFFICES ASSUME RefusalInv, [Next]_vars PROVE RefusalInv'
  OBVIOUS
<1>0. OwnershipInv'
  BY OwnershipNext DEF RefusalInv
<1>1. CASE Restart
  <2>1. Clean(Idle)
    BY ReplyAssumption DEF Clean, Idle
  <2>. QED
    BY <1>0, <1>1, <2>1 DEF Restart, RefusalInv
<1>2. ASSUME NEW r \in Requests, Step(r) PROVE RefusalInv'
  <2>1. TypeInv /\ Held(reqs[r]) /\ Clean(reqs[r])
    BY DEF RefusalInv, OwnershipInv
  <2>2. Clean(reqs'[r])
    BY <1>2, <2>1, CleanLemma
  <2>3. \A s \in Requests : s # r => reqs'[s] = reqs[s]
    BY <1>2, <2>1, HolderLemma
  <2>. QED
    BY <1>0, <2>2, <2>3 DEF RefusalInv
<1>3. CASE UNCHANGED vars
  BY <1>0, <1>3 DEF vars, RefusalInv
<1>. QED
  BY <1>1, <1>2, <1>3 DEF Next

\* A request answered 403 or 412 has changed nothing, although a replacement
\* and an update check the owner again after they have begun to write: whatever
\* fails, and a restart that loses the bytes included.
THEOREM RefusalsAreClean == Spec => []RefusedLeavesNoTrace
<1>1. RefusalInv => RefusedLeavesNoTrace
  BY DEF RefusalInv, Clean, RefusedLeavesNoTrace
<1>. QED
  BY <1>1, RefusalInit, RefusalNext, PTL DEF Spec

----------------------------------------------------------------------------
(* The service implements FileCatalog.                                      *)

\* What the catalog sees of a file.
Seen(i) == [owner |-> rows[i].owner, attrs |-> rows[i].attrs, content |-> blobs[i]]

Files == [i \in DOMAIN rows |-> Seen(i)]

\* The catalog's actions, said of the service's state.
LEMMA FreshLemma == Catalog!Fresh = Ids \ (DOMAIN rows \cup Spent)
BY DEF Catalog!Fresh, Spent

LEMMA CreateLemma ==
    ASSUME NEW i \in Catalog!Fresh, NEW f \in Catalog!File, UNCHANGED Spent,
           Files' = [j \in DOMAIN Files \cup {i} |-> IF j = i THEN f ELSE Files[j]]
    PROVE  Catalog!Next
<1>1. \E j \in Catalog!Fresh, g \in Catalog!File :
         /\ Files' = [k \in DOMAIN Files \cup {j} |-> IF k = j THEN g ELSE Files[k]]
         /\ UNCHANGED Spent
  BY Zenon
<1>2. Catalog!Create
  BY <1>1 DEF Catalog!Create, Files, Seen, Spent
<1>. QED
  BY <1>2 DEF Catalog!Next

LEMMA ReplaceLemma ==
    ASSUME NEW i \in DOMAIN Files, NEW c \in Contents, UNCHANGED Spent,
           Files' = [Files EXCEPT ![i].content = c]
    PROVE  Catalog!Next
BY DEF Catalog!Next, Catalog!Replace, Files, Seen, Spent

LEMMA SetAttributeLemma ==
    ASSUME NEW i \in DOMAIN Files, NEW f \in Fields, NEW v \in Values, UNCHANGED Spent,
           Files' = [Files EXCEPT ![i].attrs[f] = v]
    PROVE  Catalog!Next
<1>1. \E j \in DOMAIN Files, g \in Fields, w \in Values :
         Files' = [Files EXCEPT ![j].attrs[g] = w] /\ UNCHANGED Spent
  BY Zenon
<1>2. Catalog!SetAttribute
  BY <1>1 DEF Catalog!SetAttribute, Files, Seen, Spent
<1>. QED
  BY <1>2 DEF Catalog!Next

LEMMA DeleteLemma ==
    ASSUME NEW i \in DOMAIN Files, Spent' = Spent \cup {i},
           Files' = [j \in DOMAIN Files \ {i} |-> Files[j]]
    PROVE  Catalog!Next
BY DEF Catalog!Next, Catalog!Delete, Files, Seen, Spent

LEMMA FilesLemma ==
    /\ DOMAIN Files = DOMAIN rows /\ \A i \in DOMAIN rows : Files[i] = Seen(i)
    /\ DOMAIN Files' = DOMAIN rows' /\ \A i \in DOMAIN rows' : Files'[i] = Seen(i)'
BY DEF Files

\* One file changes.
LEMMA FileLemma ==
    ASSUME NEW i \in DOMAIN rows, DOMAIN rows' = DOMAIN rows,
           \A j \in DOMAIN rows : j # i => Seen(j)' = Seen(j)
    PROVE  Files' = [Files EXCEPT ![i] = Seen(i)']
<1>1. \A j \in DOMAIN rows : Files'[j] = [Files EXCEPT ![i] = Seen(i)'][j]
  BY FilesLemma
<1>. QED
  BY <1>1, FilesLemma DEF Files

\* One attribute of one row changes, and so of one file.
RowSet(i, f, v) == rows' = [rows EXCEPT ![i] = [rows[i] EXCEPT !.attrs[f] = v]]
FileSet(i, f, v) == Files' = [Files EXCEPT ![i].attrs[f] = v]

LEMMA SetLemma ==
    ASSUME NEW i \in DOMAIN rows, NEW f \in Fields, NEW v \in Values, rows[i] \in Row,
           RowSet(i, f, v), blobs' = blobs
    PROVE  FileSet(i, f, v)
<1>. USE DEF RowSet, FileSet
<1>1. \A j \in DOMAIN rows : j # i => rows'[j] = rows[j]
  OBVIOUS
<1>2. rows'[i].owner = rows[i].owner /\ rows'[i].attrs = [rows[i].attrs EXCEPT ![f] = v]
  BY DEF Row
<1>3. DOMAIN rows' = DOMAIN rows
  OBVIOUS
<1>4. Files' = [j \in DOMAIN rows |->
                   IF j = i THEN [Seen(j) EXCEPT !.attrs[f] = v] ELSE Seen(j)]
  BY <1>1, <1>2, <1>3 DEF Files, Seen
<1>. QED
  BY <1>4 DEF Files

\* A request holds an id it has not given up from the moment it draws it.
LEMMA PendingLemma ==
    ASSUME OwnershipInv, NEW r \in Requests, Step(r), Pending(reqs'[r])
    PROVE  \/ Pending(reqs[r]) /\ reqs'[r].id = reqs[r].id
           \/ reqs'[r].id \notin minted
<1>1. TypeInv /\ Held(reqs[r])
  BY DEF OwnershipInv
<1>2. CASE reqs'[r].pc = "cleanup"
  <2>1. reqs'[r].id = reqs[r].id /\ reqs[r].pc \in {"cleanup", "insert"}
    BY <1>1, <1>2, StandLemma
  <2>. QED
    BY <2>1 DEF Pending
<1>3. CASE Drawn(reqs'[r])
  <2>1. \/ Drawn(reqs[r]) /\ reqs'[r].id = reqs[r].id
        \/ reqs'[r].id \notin minted
    BY <1>1, <1>3, HolderLemma
  <2>. QED
    BY <2>1 DEF Drawn, Pending
<1>. QED
  BY <1>2, <1>3 DEF Pending, Drawn

\* An id that is spent stays spent: only an upload that holds an id gives it a row.
LEMMA SpentLemma ==
    ASSUME OwnershipInv, NEW r \in Requests, Step(r)
    PROVE  Spent \subseteq Spent'
<1>1. TypeInv
  BY DEF OwnershipInv
<1>2. minted \subseteq minted' /\ \A s \in Requests : s # r => reqs'[s] = reqs[s]
  BY <1>1, HolderLemma
<1>3. \A i \in DOMAIN rows' : i \in DOMAIN rows \/ (Pending(reqs[r]) /\ reqs[r].id = i)
  BY <1>1, RowsLemma DEF Pending
<1>. QED
  BY <1>2, <1>3, PendingLemma DEF Spent

\* A step that changes no file, and takes back no id, is one of the catalog's: it
\* may give ids up.
LEMMA GiveUpLemma ==
    ASSUME TypeInv, TypeInv', DOMAIN rows' = DOMAIN rows, Spent \subseteq Spent',
           \A i \in DOMAIN rows : Seen(i)' = Seen(i)
    PROVE  Catalog!Next
<1>. DEFINE S == Spent' \ Spent
<1>1. S \in SUBSET Catalog!Fresh
  BY FreshLemma DEF Spent, TypeInv, TypeOK
<1>2. Spent' = Spent \cup S /\ UNCHANGED Files
  BY DEF Files
<1>. HIDE DEF S
<1>. QED
  BY <1>1, <1>2 DEF Catalog!Next, Catalog!GiveUp, Spent, Files, Seen

\* Every step of a request is a step of the catalog.
LEMMA CatalogLemma ==
    ASSUME Answered, BytesInv, BytesInv', NEW r \in Requests, Step(r)
    PROVE  Catalog!Next
<1>. DEFINE q == reqs[r]
            q2 == reqs'[r]
            i == q.id
<1>a. TypeInv /\ TypeInv' /\ OwnershipInv /\ Held(q) /\ q \in Request /\ Filled(q)
  BY DEF BytesInv, OwnershipInv, TypeInv, TypeOK
<1>b. \A x : Become(r, x) => reqs'[r] = x
  BY <1>a DEF TypeInv, TypeOK, Become
<1>c. \A s \in Requests : s # r => reqs'[s] = reqs[s]
  BY <1>a, HolderLemma
<1>d. \A j \in DOMAIN rows : j \in DOMAIN blobs /\ rows[j] \in Row
  BY <1>a DEF BytesInv, RowsHaveBytes, TypeInv, TypeOK
<1>e. ASSUME DOMAIN rows' = DOMAIN rows, \A j \in DOMAIN rows : Seen(j)' = Seen(j)
      PROVE  Catalog!Next
  BY <1>a, <1>e, SpentLemma, GiveUpLemma
<1>f. \A j \in DOMAIN rows :
          (j \in DOMAIN blobs' /\ blobs'[j] = blobs[j]) \/ (Holder(q) /\ i = j)
  BY <1>a, <1>d, BlobsLemma
<1>g. ASSUME ~Pending(q), ~Pending(q2), minted' = minted, DOMAIN rows' = DOMAIN rows
      PROVE  UNCHANGED Spent
  BY <1>c, <1>g DEF Spent
<1>1. CASE UNCHANGED <<rows, blobs>>
  BY <1>1, <1>e DEF Seen
<1>2. CASE Put(r) \/ Cleanup(r) \/ Erase(r)
  <2>1. i \notin DOMAIN rows /\ rows' = rows
    BY <1>2, <1>a DEF Put, Cleanup, Erase, BytesInv, Held, Drawn
  <2>. QED
    BY <2>1, <1>e, <1>f DEF Seen
<1>3. CASE Insert(r)
  <2>1. CASE rows' = rows
    BY <1>3, <1>1, <2>1 DEF Insert
  <2>2. CASE rows' = With(rows, i, NewRow(q)) /\ q2.pc = "done"
    <3>. DEFINE f == [owner |-> q.user, attrs |-> [a \in Fields |-> q.value],
                      content |-> blobs[i]]
    <3>1. /\ i \in Ids /\ i \in DOMAIN blobs /\ q.user \in Users /\ q.value \in Values
          /\ i \notin DOMAIN rows /\ Pending(q) /\ ~Pending(q2)
          /\ UNCHANGED <<blobs, minted>>
      BY <1>3, <1>a, <2>2 DEF Insert, Filled, Held, Drawn, Pending, BytesInv
    <3>2. f \in Catalog!File
      BY <1>a, <3>1 DEF Catalog!File, TypeInv, TypeOK
    <3>3. i \in Catalog!Fresh
      BY <3>1, FreshLemma DEF Spent
    <3>4. DOMAIN rows' = DOMAIN rows \cup {i} /\ rows'[i] = NewRow(q)
          /\ \A j \in DOMAIN rows : rows'[j] = rows[j]
      BY <2>2, <3>1 DEF With
    <3>5. UNCHANGED Spent
      BY <1>c, <3>1, <3>4 DEF Spent
    <3>6. Files' = [j \in DOMAIN Files \cup {i} |-> IF j = i THEN f ELSE Files[j]]
      BY <3>1, <3>4 DEF Files, Seen, NewRow
    <3>. HIDE DEF f
    <3>. QED
      BY <3>2, <3>3, <3>5, <3>6, CreateLemma
  <2>3. Become(r, [q EXCEPT !.pc = "done", !.reply = "ok", !.wrote = TRUE]) => q2.pc = "done"
    BY <1>a, <1>b DEF Request
  <2>. QED
    BY <1>3, <2>1, <2>2, <2>3 DEF Insert, DbUnheard, Answered
<1>4. CASE Overwrite(r)
  <2>1. /\ q.pc = "overwrite" /\ UNCHANGED <<rows, minted>> /\ i \in Ids
    BY <1>4, <1>a DEF Overwrite, Filled
  <2>2. CASE i \notin DOMAIN rows
    BY <2>1, <2>2, <1>e, <1>f DEF Seen
  <2>3. CASE i \in DOMAIN rows
    <3>1. ~Pending(q) /\ ~Pending(q2)
      <4>1. \A x : Become(r, [q EXCEPT !.pc = "recheck", !.stored = x, !.wrote = TRUE]) =>
                       q2.pc = "recheck"
        BY <1>a, <1>b DEF Request
      <4>2. \A w : Become(r, [q EXCEPT !.pc = "done", !.reply = "error", !.wrote = w]) =>
                       q2.pc = "done"
        BY <1>a, <1>b DEF Request
      <4>. QED
        BY <1>4, <2>1, <4>1, <4>2 DEF Overwrite, Pending
    <3>2. UNCHANGED Spent
      BY <1>g, <2>1, <3>1
    <3>3. i \in DOMAIN blobs' /\ blobs'[i] \in Contents
      BY <2>1, <2>3 DEF BytesInv, RowsHaveBytes, OwnershipInv, TypeInv, TypeOK
    <3>4. Files' = [Files EXCEPT ![i].content = blobs'[i]]
      BY <2>1, <2>3, <1>f DEF Files, Seen
    <3>. QED
      BY <2>3, <3>2, <3>3, <3>4, FilesLemma, ReplaceLemma
  <2>. QED
    BY <2>2, <2>3
<1>5. CASE Describe(r)
  BY <1>5, <1>d, <1>e DEF Describe, Write, Seen, Row
<1>6. CASE Set(r)
  <2>. DEFINE f == NextField(q.todo)
              left == q.todo \ {f}
              point == IF left = {} THEN "show" ELSE "check"
  <2>1. f \in Fields /\ q.value \in Values /\ ~Pending(q) /\ minted' = minted
    BY <1>6, <1>a, NextFieldLemma DEF Set, Write, Filled, Pending
  <2>2. CASE rows' = rows
    BY <1>6, <1>1, <2>2 DEF Set, Write
  <2>3. CASE i \in DOMAIN rows /\ rows' = [rows EXCEPT ![i] = [rows[i] EXCEPT !.attrs[f] = q.value]]
    <3>1. ~Pending(q2)
      <4>1. Become(r, [q EXCEPT !.todo = left, !.wrote = TRUE, !.pc = point]) => q2.pc = point
        BY <1>a, <1>b DEF Request
      <4>2. Become(r, [q EXCEPT !.pc = "done", !.reply = "error", !.wrote = TRUE]) =>
                q2.pc = "done"
        BY <1>a, <1>b DEF Request
      <4>3. Answer(r, "error") => q2.pc = "done"
        BY <1>a, <1>b DEF Request, Answer
      <4>4. point \in {"show", "check"}
        OBVIOUS
      <4>. QED
        BY <1>6, <4>1, <4>2, <4>3, <4>4 DEF Set, Write, Pending
    <3>2. UNCHANGED Spent
      BY <1>g, <2>1, <2>3, <3>1
    <3>3. Files' = [Files EXCEPT ![i].attrs[f] = q.value]
      <4>1. rows[i] \in Row /\ blobs' = blobs
        BY <1>6, <1>d, <2>3 DEF Set, Write
      <4>2. RowSet(i, f, q.value)
        BY <2>3 DEF RowSet
      <4>. HIDE DEF f
      <4>3. FileSet(i, f, q.value)
        BY <2>1, <2>3, <4>1, <4>2, SetLemma
      <4>. QED
        BY <4>3 DEF FileSet
    <3>. HIDE DEF f
    <3>. QED
      BY <2>1, <2>3, <3>2, <3>3, FilesLemma, SetAttributeLemma
  <2>. QED
    BY <1>6, <2>2, <2>3 DEF Set, Write
<1>7. CASE Unlink(r)
  <2>1. UNCHANGED <<blobs, minted>> /\ ~Pending(q)
    BY <1>7 DEF Unlink, Pending
  <2>2. CASE rows' = rows
    BY <1>1, <2>1, <2>2
  <2>3. CASE rows' = Without(rows, i) /\ i \notin DOMAIN rows
    <3>1. DOMAIN rows' = DOMAIN rows /\ \A j \in DOMAIN rows : rows'[j] = rows[j]
      BY <2>3 DEF Without
    <3>. QED
      BY <1>e, <2>1, <3>1 DEF Seen
  <2>4. CASE rows' = Without(rows, i) /\ i \in DOMAIN rows
    <3>1. DOMAIN rows' = DOMAIN rows \ {i} /\ \A j \in DOMAIN rows' : rows'[j] = rows[j]
      BY <2>4 DEF Without
    <3>2. ~Pending(q2)
      <4>1. /\ Become(r, [q EXCEPT !.pc = "erase", !.wrote = TRUE]) => q2.pc = "erase"
            /\ Become(r, [q EXCEPT !.pc = "done", !.reply = "error", !.wrote = TRUE]) =>
                  q2.pc = "done"
        BY <1>a, <1>b DEF Request
      <4>2. Answer(r, "error") => q2.pc = "done"
        BY <1>a, <1>b DEF Request, Answer
      <4>. QED
        BY <1>7, <4>1, <4>2 DEF Unlink, Pending
    <3>3. i \in minted /\ \A s \in Requests : Pending(reqs[s]) => reqs[s].id # i
      BY <1>a, <2>4 DEF OwnershipInv, BytesInv, Held, Drawn, Pending
    <3>4. Spent' = Spent \cup {i}
      BY <1>c, <2>1, <3>1, <3>2, <3>3 DEF Spent
    <3>5. Files' = [j \in DOMAIN Files \ {i} |-> Files[j]]
      BY <2>1, <3>1 DEF Files, Seen
    <3>. QED
      BY <2>4, <3>4, <3>5, FilesLemma, DeleteLemma
  <2>. QED
    BY <1>7, <2>2, <2>3, <2>4 DEF Unlink
<1>. QED
  BY <1>1, <1>2, <1>3, <1>4, <1>5, <1>6, <1>7
  DEF Step, BeginCreate, BeginReplace, BeginUpdate, BeginDelete, Cancel, Close, Own,
      Recheck, Reread, Check, Show, AuthorizeDelete, Authorize

\* Every behaviour of the service is one of the catalog, whatever else fails: row
\* and bytes, written by separate calls of many requests, look like one file that
\* appears at once, keeps its owner, and never comes back once it is deleted.
THEOREM Implements ==
    ASSUME Answered, Durable
    PROVE  Spec => ImplementsCatalog
<1>1. Init => Catalog!Init
  BY DEF Init, Catalog!Init, Spent
<1>2. BytesInv /\ BytesInv' /\ [Next]_vars => [Catalog!Next]_(Catalog!vars)
  <2>. SUFFICES ASSUME BytesInv, BytesInv', [Next]_vars
                PROVE  Catalog!Next \/ UNCHANGED Catalog!vars
    OBVIOUS
  <2>1. CASE Restart
    <3>1. UNCHANGED <<rows, blobs, minted>> /\ \A r \in Requests : Pending(reqs'[r]) => Pending(reqs[r]) /\ reqs'[r] = reqs[r]
      BY <2>1 DEF Restart, Durable, Pending, Idle
    <3>2. Spent \subseteq Spent' /\ \A i \in DOMAIN rows : Seen(i)' = Seen(i)
      BY <3>1 DEF Spent, Seen
    <3>. QED
      BY <3>1, <3>2, GiveUpLemma DEF BytesInv, OwnershipInv
  <2>2. CASE \E r \in Requests : Step(r)
    BY <2>2, CatalogLemma
  <2>3. CASE UNCHANGED vars
    BY <2>3 DEF vars, Catalog!vars, Spent, Pending
  <2>. QED
    BY <2>1, <2>2, <2>3 DEF Next
<1>. QED
  BY <1>1, <1>2, BytesInit, BytesNext, PTL DEF Spec, ImplementsCatalog, Catalog!Spec

\* No id comes back, whatever fails and whatever is lost: not after a deletion, not
\* after a failed upload, not after a restart (storage.NewID in putFile, DeleteFile).
THEOREM NoIdComesBack == Spec => DeletedForGood
<1>1. OwnershipInv /\ [Next]_vars => [Spent \subseteq Spent' \ DOMAIN rows']_vars
  <2>. SUFFICES ASSUME OwnershipInv, [Next]_vars, ~UNCHANGED vars
                PROVE  Spent \subseteq Spent'
    BY DEF Spent
  <2>1. CASE Restart
    <3>1. /\ UNCHANGED <<rows, minted>>
          /\ \A r \in Requests : Pending(reqs'[r]) => reqs'[r] = reqs[r]
      BY <2>1 DEF Restart, Pending, Idle
    <3>. QED
      BY <3>1 DEF Spent
  <2>2. CASE \E r \in Requests : Step(r)
    BY <2>2, SpentLemma
  <2>. QED
    BY <2>1, <2>2 DEF Next
<1>. QED
  BY <1>1, OwnershipInit, OwnershipNext, PTL DEF Spec, DeletedForGood

----------------------------------------------------------------------------
(* An upload that fails cleans up after itself, where it can.               *)

\* A request is begun, goes on as what it is, or is forgotten.
LEMMA FrameLemma ==
    ASSUME TypeInv, NEW r \in Requests, Step(r)
    PROVE  LET q == reqs[r]
               q2 == reqs'[r]
           IN
           \/ /\ q2.op = q.op /\ q2.id = q.id /\ q.pc # "idle"
              /\ q2.cancelled => q.cancelled \/ "cancel" \in Faults
           \/ /\ q.pc = "idle" /\ ~q2.cancelled /\ q2.stored = None
              /\ q2.op = "create" => q2.pc = "put"
           \/ q2 = Idle
<1>. DEFINE q == reqs[r]
            q2 == reqs'[r]
            Same == q2.op = q.op /\ q2.id = q.id /\ q2.cancelled = q.cancelled
<1>a. q \in Request
  BY DEF TypeInv, TypeOK
<1>b. \A x : Become(r, x) => reqs'[r] = x
  BY DEF TypeInv, TypeOK, Become
<1>c. /\ \A reply : Answer(r, reply) => Same
      /\ \A pc : Goto(r, pc) => Same
  BY <1>a, <1>b DEF Answer, Goto, Request
<1>1. CASE BeginCreate(r) \/ BeginReplace(r) \/ BeginUpdate(r) \/ BeginDelete(r)
  <2>1. CASE BeginCreate(r)
    BY <2>1, <1>b, ZenonT(40) DEF BeginCreate, Start, Idle
  <2>2. CASE BeginReplace(r)
    BY <2>2, <1>b, ZenonT(40) DEF BeginReplace, Start, Idle
  <2>3. CASE BeginUpdate(r)
    <3>1. q.pc = "idle" /\ ~q2.cancelled /\ q2.stored = None /\ q2.op = "update"
      BY <2>3, <1>b, ZenonT(40) DEF BeginUpdate, Start, Idle
    <3>. QED
      BY <3>1
  <2>4. CASE BeginDelete(r)
    BY <2>4, <1>b, ZenonT(40) DEF BeginDelete, Start, Idle
  <2>. QED
    BY <1>1, <2>1, <2>2, <2>3, <2>4
<1>2. CASE Cancel(r)
  BY <1>2, <1>a, <1>b DEF Cancel, InFlight, Request
<1>3. CASE Close(r)
  BY <1>3, <1>b DEF Close
<1>4. CASE Put(r)
  <2>1. \A s : Become(r, [q EXCEPT !.pc = "insert", !.stored = s]) => Same
    BY <1>a, <1>b DEF Request
  <2>. QED
    BY <1>4, <1>c, <2>1 DEF Put
<1>5. CASE Insert(r)
  <2>1. /\ Become(r, [q EXCEPT !.pc = "done", !.reply = "ok", !.wrote = TRUE]) => Same
        /\ Become(r, [q EXCEPT !.pc = "cleanup", !.wrote = TRUE]) => Same
    BY <1>a, <1>b DEF Request
  <2>. QED
    BY <1>5, <1>c, <2>1 DEF Insert
<1>6. CASE Overwrite(r)
  <2>1. \A s : Become(r, [q EXCEPT !.pc = "recheck", !.stored = s, !.wrote = TRUE]) => Same
    BY <1>a, <1>b DEF Request
  <2>2. \A w : Become(r, [q EXCEPT !.pc = "done", !.reply = "error", !.wrote = w]) => Same
    BY <1>a, <1>b DEF Request
  <2>. QED
    BY <1>6, <2>1, <2>2 DEF Overwrite
<1>7. CASE Describe(r) \/ Set(r)
  <2>. DEFINE left == q.todo \ {NextField(q.todo)}
              point == IF left = {} THEN "show" ELSE "check"
  <2>1. /\ Become(r, [q EXCEPT !.pc = "reread", !.wrote = TRUE]) => Same
        /\ Become(r, [q EXCEPT !.pc = "done", !.reply = "error", !.wrote = TRUE]) => Same
    BY <1>a, <1>b DEF Request
  <2>2. Become(r, [q EXCEPT !.todo = left, !.wrote = TRUE, !.pc = point]) => Same
    BY <1>a, <1>b DEF Request
  <2>. QED
    BY <1>7, <1>c, <2>1, <2>2 DEF Describe, Set, Write
<1>8. CASE Unlink(r)
  <2>1. /\ Become(r, [q EXCEPT !.pc = "erase", !.wrote = TRUE]) => Same
        /\ Become(r, [q EXCEPT !.pc = "done", !.reply = "error", !.wrote = TRUE]) => Same
    BY <1>a, <1>b DEF Request
  <2>. QED
    BY <1>8, <1>c, <2>1 DEF Unlink
<1>9. CASE \/ Cleanup(r) \/ Own(r) \/ Erase(r) \/ Reread(r) \/ Recheck(r) \/ Check(r)
           \/ Show(r) \/ AuthorizeDelete(r)
  <2>1. Same /\ q.pc # "idle"
    BY <1>9, <1>c DEF Cleanup, Own, Erase, Reread, Recheck, Check, Show, AuthorizeDelete,
                      Authorize
  <2>. QED
    BY <2>1
<1>. QED
  BY <1>1, <1>2, <1>3, <1>4, <1>5, <1>6, <1>7, <1>8, <1>9 DEF Step

\* An upload runs from its Put to its insert, and on to its clean-up; only then
\* has it an error to answer although its bytes were stored.
Uploading(q) ==
    q.op = "create" =>
        /\ q.pc \in {"idle", "put", "insert", "cleanup", "done"}
        /\ q.pc = "put" => q.stored = None

Withdrawn(q) ==
    /\ q.op = "create"
    /\ q.pc = "cleanup" \/ (q.pc = "done" /\ q.reply = "error" /\ q.stored # None)

LEMMA UploadLemma ==
    ASSUME TypeInv, NEW r \in Requests, Step(r), Uploading(reqs[r])
    PROVE  LET q == reqs[r]
               q2 == reqs'[r]
           IN
           /\ Uploading(q2)
           /\ Withdrawn(q2) =>
                 /\ q2.id = q.id
                 /\ \/ q.pc \in {"cleanup", "done"} /\ Withdrawn(q) /\ q2.pc = q.pc
                    \/ q.pc = "insert" /\ q2.pc = "cleanup"
                       /\ (DbUnheard(q) \/ UNCHANGED rows)
                    \/ q.pc = "cleanup" /\ Withdrawn(q) /\ q2.pc = "done"
                       /\ blobs' \in AfterErase(q)
<1>. DEFINE q == reqs[r]
            q2 == reqs'[r]
<1>a. q \in Request
  BY DEF TypeInv, TypeOK
<1>b. \A x : Become(r, x) => reqs'[r] = x
  BY DEF TypeInv, TypeOK, Become
<1>c. /\ \A reply : Answer(r, reply) =>
             q2.pc = "done" /\ q2.reply = reply /\ q2.stored = q.stored
      /\ \A pc : Goto(r, pc) => q2.pc = pc /\ q2.stored = q.stored
  BY <1>a, <1>b DEF Answer, Goto, Request
<1>d. CASE q2.op # "create"
  BY <1>d DEF Uploading, Withdrawn
<1>e. CASE q.pc = "idle" /\ q2.stored = None /\ q2.op = "create" /\ q2.pc = "put"
  BY <1>e DEF Uploading, Withdrawn
<1>f. CASE q2.op = "create" /\ q2.op = q.op /\ q2.id = q.id /\ q.pc # "idle"
  <2>a. q.pc \in {"put", "insert", "cleanup", "done"} /\ (q.pc = "put" => q.stored = None)
    BY <1>f DEF Uploading
  <2>1. CASE Put(r)
    <3>1. \A s : Become(r, [q EXCEPT !.pc = "insert", !.stored = s]) => q2.pc = "insert"
      BY <1>a, <1>b DEF Request
    <3>. QED
      BY <2>1, <2>a, <3>1, <1>c DEF Put, Uploading, Withdrawn
  <2>2. CASE Insert(r)
    <3>1. /\ Become(r, [q EXCEPT !.pc = "done", !.reply = "ok", !.wrote = TRUE]) =>
                 q2.pc = "done" /\ q2.reply = "ok"
          /\ Become(r, [q EXCEPT !.pc = "cleanup", !.wrote = TRUE]) => q2.pc = "cleanup"
      BY <1>a, <1>b DEF Request
    <3>. QED
      BY <2>2, <1>c, <1>f, <3>1 DEF Insert, Uploading, Withdrawn
  <2>3. CASE Cleanup(r)
    BY <2>3, <1>c, <1>f DEF Cleanup, Uploading, Withdrawn
  <2>4. CASE Cancel(r)
    <3>1. q2.pc = q.pc /\ q2.stored = q.stored /\ q2.reply = q.reply
      BY <2>4, <1>a, <1>b DEF Cancel, Request
    <3>2. q.pc # "done"
      BY <2>4 DEF Cancel, InFlight
    <3>. QED
      BY <1>f, <2>a, <3>1, <3>2 DEF Uploading, Withdrawn
  <2>5. CASE Close(r)
    BY <2>5, <1>b DEF Close, Idle, Uploading, Withdrawn
  <2>. QED
    BY <2>a, <2>1, <2>2, <2>3, <2>4, <2>5
    DEF Step, BeginCreate, BeginReplace, BeginUpdate, BeginDelete, Start, Own, Overwrite,
        Recheck, Describe, Reread, Check, Authorize, Set, Show, AuthorizeDelete, Unlink, Erase
<1>g. \/ q2.op = q.op /\ q2.id = q.id /\ q.pc # "idle"
      \/ q.pc = "idle" /\ q2.stored = None /\ (q2.op = "create" => q2.pc = "put")
      \/ q2 = Idle
  BY FrameLemma
<1>h. CASE q2 = Idle
  <2>1. Uploading(Idle) /\ ~Withdrawn(Idle)
    BY DEF Uploading, Withdrawn, Idle
  <2>. QED
    BY <1>h, <2>1
<1>. QED
  BY <1>d, <1>e, <1>f, <1>g, <1>h

\* The clean-up's Delete reaches the store: the memory store always obeys, and of
\* the others no call fails, and no client goes away.
Erasable == Backend # "memory" => Faults \cap {"cancel", "store_error"} = {}

\* An id whose upload is withdrawn is its request's alone and has no row; once the
\* request is answered it has no bytes either.
ClearedInv ==
    /\ OwnershipInv
    /\ \A r \in Requests : Uploading(reqs[r])
    /\ Backend # "memory" => \A r \in Requests : ~reqs[r].cancelled
    /\ \A r \in Requests : Withdrawn(reqs[r]) =>
          /\ reqs[r].id \in minted \ DOMAIN rows
          /\ \A s \in Requests : s # r /\ Holder(reqs[s]) => reqs[s].id # reqs[r].id
          /\ reqs[r].pc = "done" => reqs[r].id \notin DOMAIN blobs

LEMMA ClearedInit == Init => ClearedInv
BY OwnershipInit DEF Init, ClearedInv, Uploading, Withdrawn, Idle

\* The step of request t keeps what is withdrawn withdrawn.
LEMMA ClearedLemma ==
    ASSUME Answered, Erasable, ClearedInv, NEW t \in Requests, Step(t),
           NEW r \in Requests, Withdrawn(reqs'[r])
    PROVE  /\ reqs'[r].id \in minted' \ DOMAIN rows'
           /\ \A s \in Requests : s # r /\ Holder(reqs'[s]) => reqs'[s].id # reqs'[r].id
           /\ reqs'[r].pc = "done" => reqs'[r].id \notin DOMAIN blobs'
<1>. DEFINE q == reqs[t]
            q2 == reqs'[t]
<1>a. TypeInv /\ Held(q) /\ Uploading(q)
  BY DEF ClearedInv, OwnershipInv
<1>b. /\ \A s \in Requests : s # t => reqs'[s] = reqs[s]
      /\ Holder(q2) =>
            \/ Holder(q) /\ q2.id = q.id
            \/ q2.id \in DOMAIN rows
            \/ q2.id \notin minted
      /\ minted \subseteq minted'
  BY <1>a, HolderLemma
<1>c. \A i \in DOMAIN rows' : i \in DOMAIN rows \/ (q.pc = "insert" /\ q.id = i)
  BY <1>a, RowsLemma
<1>d. \A i \in DOMAIN blobs' :
          i \in DOMAIN blobs \/ (q.pc \in {"put", "overwrite"} /\ q.id = i)
  BY <1>a, StoresLemma
<1>1. CASE r = t
  <2>1. /\ q2.id = q.id
        /\ \/ q.pc \in {"cleanup", "done"} /\ Withdrawn(q) /\ q2.pc = q.pc
           \/ q.pc = "insert" /\ q2.pc = "cleanup" /\ (DbUnheard(q) \/ UNCHANGED rows)
           \/ q.pc = "cleanup" /\ Withdrawn(q) /\ q2.pc = "done" /\ blobs' \in AfterErase(q)
    BY <1>1, <1>a, UploadLemma
  <2>2. CASE q.pc \in {"cleanup", "done"} /\ Withdrawn(q) /\ q2.pc = q.pc
    BY <1>1, <1>b, <1>c, <1>d, <2>1, <2>2 DEF ClearedInv
  <2>3. CASE q.pc = "insert" /\ q2.pc = "cleanup" /\ (DbUnheard(q) \/ UNCHANGED rows)
    <3>1. UNCHANGED rows
      BY <2>3 DEF DbUnheard, Answered
    <3>2. q.id \in minted \ DOMAIN rows
      BY <1>a, <2>3 DEF Held, Holder, Drawn
    <3>3. \A s \in Requests : s # t /\ Holder(reqs[s]) => reqs[s].id # q.id
      BY <2>3 DEF ClearedInv, OwnershipInv, Drawn
    <3>. QED
      BY <1>1, <1>b, <2>1, <2>3, <3>1, <3>2, <3>3
  <2>4. CASE q.pc = "cleanup" /\ Withdrawn(q) /\ q2.pc = "done" /\ blobs' \in AfterErase(q)
    <3>1. blobs' = Without(blobs, q.id)
      BY <2>4 DEF AfterErase, StoreFails, Erasable, ClearedInv
    <3>. QED
      BY <1>1, <1>b, <1>c, <2>1, <2>4, <3>1 DEF ClearedInv, Without
  <2>. QED
    BY <2>1, <2>2, <2>3, <2>4
<1>2. CASE r # t
  <2>1. reqs'[r] = reqs[r] /\ Withdrawn(reqs[r])
    BY <1>2, <1>b
  <2>2. PICK i : i = reqs[r].id
    OBVIOUS
  <2>3. /\ i \in minted \ DOMAIN rows
        /\ \A s \in Requests : s # r /\ Holder(reqs[s]) => reqs[s].id # i
        /\ reqs[r].pc = "done" => i \notin DOMAIN blobs
    BY <2>1, <2>2 DEF ClearedInv
  <2>4. Holder(q) => q.id # i
    BY <1>2, <2>3
  <2>5. q.pc \in {"put", "overwrite", "insert"} => Holder(q)
    BY DEF Holder
  <2>. QED
    BY <1>b, <1>c, <1>d, <2>1, <2>2, <2>3, <2>4, <2>5
<1>. QED
  BY <1>1, <1>2

LEMMA ClearedNext ==
    ASSUME Answered, Erasable
    PROVE  ClearedInv /\ [Next]_vars => ClearedInv'
<1>. SUFFICES ASSUME ClearedInv, [Next]_vars PROVE ClearedInv'
  OBVIOUS
<1>0. OwnershipInv'
  BY OwnershipNext DEF ClearedInv
<1>1. CASE Restart
  <2>1. \A r \in Requests : reqs'[r] = Idle \/ (reqs'[r] = reqs[r] /\ ~InFlight(reqs[r]))
    BY <1>1 DEF Restart
  <2>2. ~Holder(Idle) /\ Uploading(Idle) /\ ~Withdrawn(Idle) /\ ~Idle.cancelled
    BY DEF Holder, Uploading, Withdrawn, Idle
  <2>3. UNCHANGED <<rows, minted>> /\ DOMAIN blobs' \subseteq DOMAIN blobs
    BY <1>1 DEF Restart
  <2>. QED
    BY <1>0, <2>1, <2>2, <2>3 DEF ClearedInv
<1>2. ASSUME NEW t \in Requests, Step(t) PROVE ClearedInv'
  <2>a. TypeInv /\ Uploading(reqs[t])
    BY DEF ClearedInv, OwnershipInv
  <2>b. \A s \in Requests : s # t => reqs'[s] = reqs[s]
    BY <1>2, <2>a, HolderLemma
  <2>1. Uploading(reqs'[t])
    BY <1>2, <2>a, UploadLemma
  <2>2. Backend # "memory" => ~reqs'[t].cancelled
    <3>1. reqs'[t].cancelled => reqs[t].cancelled \/ "cancel" \in Faults
      BY <1>2, <2>a, FrameLemma DEF Idle
    <3>. QED
      BY <3>1 DEF Erasable, ClearedInv
  <2>3. \A r \in Requests : Withdrawn(reqs'[r]) =>
           /\ reqs'[r].id \in minted' \ DOMAIN rows'
           /\ \A s \in Requests : s # r /\ Holder(reqs'[s]) => reqs'[s].id # reqs'[r].id
           /\ reqs'[r].pc = "done" => reqs'[r].id \notin DOMAIN blobs'
    BY <1>2, ClearedLemma
  <2>. QED
    BY <1>0, <2>b, <2>1, <2>2, <2>3 DEF ClearedInv
<1>3. CASE UNCHANGED vars
  BY <1>0, <1>3 DEF vars, ClearedInv
<1>. QED
  BY <1>1, <1>2, <1>3 DEF Next

\* What putFile's comment promises of a failed insert holds of every upload whose
\* insert was not secretly done and whose clean-up reaches the store, in any order
\* with any other requests, and whatever else fails.  The run orphan shows what the
\* cancelled context does to it.
THEOREM FailedInsertsAreClean ==
    ASSUME Answered, Erasable
    PROVE  Spec => []FailedInsertLeavesNoBytes
<1>1. RefusalInv /\ ClearedInv => FailedInsertLeavesNoBytes
  <2>. SUFFICES ASSUME RefusalInv, ClearedInv, NEW r \in Requests, reqs[r].op = "create",
                       reqs[r].reply = "error", reqs[r].stored # None
                PROVE  reqs[r].id \notin DOMAIN blobs
    BY DEF FailedInsertLeavesNoBytes
  <2>1. reqs[r].pc = "done"
    BY ReplyAssumption DEF RefusalInv, Clean
  <2>. QED
    BY <2>1 DEF ClearedInv, Withdrawn
<1>. QED
  BY <1>1, RefusalInit, RefusalNext, ClearedInit, ClearedNext, PTL DEF Spec
============================================================================
