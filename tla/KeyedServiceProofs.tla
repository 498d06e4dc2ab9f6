------------------------- MODULE KeyedServiceProofs -------------------------
(* Theorems about KeyedService, for any number of requests, users and keys.  *)
EXTENDS KeyedService, FileHistoryProofs

----------------------------------------------------------------------------
(* The service behind its authentication is the service: what was proved of  *)
(* FileService and FileHistory holds of it.                                  *)

LEMMA HistorySteps == [KNext]_kvars => [HNext]_hvars
  <1> SUFFICES ASSUME [KNext]_kvars PROVE [HNext]_hvars
    OBVIOUS
  <1>1. CASE CreateKey \/ RevokeKey
    BY <1>1 DEF CreateKey, RevokeKey
  <1>2. ASSUME NEW r \in Requests, Arrive(r) \/ Refuse(r)
        PROVE  UNCHANGED hvars
    BY <1>2 DEF Arrive, Refuse
  <1>3. ASSUME NEW r \in Requests, Admit(r)
        PROVE  HNext
    BY <1>3 DEF Admit, HNext, Next, Step
  <1>4. CASE Work
    BY <1>4 DEF Work, HNext, Next
  <1>5. CASE UNCHANGED kvars
    BY <1>5 DEF kvars
  <1> QED BY <1>1, <1>2, <1>3, <1>4, <1>5 DEF KNext

LEMMA ServiceSteps == [KNext]_kvars => [Next]_vars
  BY HistorySteps DEF HNext, hvars, vars

\* How a key's request stands to the key: it presents one that was shown; if the
\* key was gone when it arrived it has begun nothing; and once let in it works as
\* the user the key was shown to.
Presented(c, q) ==
    /\ c.key # None => c.key \in DOMAIN shown
    /\ c.late => c.key # None /\ c.key \notin DOMAIN keys /\ q.pc = "idle"
    /\ q.pc # "idle" => q.user = c.user /\ (c.key # None => shown[c.key] = c.user)

\* A key belongs to the user it was shown to, and its plaintext is never drawn again.
KeysInv ==
    /\ DOMAIN keys \subseteq DOMAIN shown /\ DOMAIN shown \subseteq Secrets
    /\ \A k \in DOMAIN keys : keys[k] = shown[k]
    /\ \A k \in DOMAIN shown : shown[k] \in Users

KeyInv ==
    /\ RefusalInv
    /\ KeysInv
    /\ creds \in [Requests -> Cred]
    /\ \A r \in Requests : Presented(creds[r], reqs[r])

LEMMA KeyInit == KInit => KeyInv
  <1> SUFFICES ASSUME KInit PROVE KeyInv
    OBVIOUS
  <1>1. RefusalInv
    BY RefusalInit DEF KInit, HInit
  <1>2. KeysInv
    BY DEF KInit, KeysInv
  <1>3. creds \in [Requests -> Cred]
    BY DEF KInit, NoCred, Cred
  <1>4. \A r \in Requests : Presented(creds[r], reqs[r])
    BY DEF KInit, HInit, Init, Presented, NoCred, Idle
  <1> QED BY <1>1, <1>2, <1>3, <1>4 DEF KeyInv

\* A request under way keeps its user until its slot is free.
LEMMA UserLemma ==
    ASSUME TypeInv, NEW r \in Requests, Step(r), reqs[r].pc # "idle"
    PROVE  reqs'[r].pc = "idle" \/ reqs'[r].user = reqs[r].user
  <1> DEFINE q == reqs[r]
             q2 == reqs'[r]
  <1>a. q \in Request
    BY DEF TypeInv, TypeOK
  <1>b. \A x : Become(r, x) => q2 = x
    BY DEF TypeInv, TypeOK, Become
  <1>c. \A reply : Answer(r, reply) => q2.user = q.user
    BY <1>a, <1>b DEF Answer, Request
  <1>d. \A pc : Goto(r, pc) => q2.user = q.user
    BY <1>a, <1>b DEF Goto, Request
  <1>1. CASE Put(r)
    <2>1. \A s : Become(r, [q EXCEPT !.pc = "insert", !.stored = s]) => q2.user = q.user
      BY <1>a, <1>b DEF Request
    <2> QED BY <1>1, <1>c, <2>1 DEF Put
  <1>2. CASE Insert(r)
    <2>1. /\ Become(r, [q EXCEPT !.pc = "done", !.reply = "ok", !.wrote = TRUE]) =>
                 q2.user = q.user
          /\ Become(r, [q EXCEPT !.pc = "cleanup", !.wrote = TRUE]) => q2.user = q.user
      BY <1>a, <1>b DEF Request
    <2> QED BY <1>2, <1>d, <2>1 DEF Insert
  <1>3. CASE Overwrite(r)
    <2>1. \A s : Become(r, [q EXCEPT !.pc = "recheck", !.stored = s, !.wrote = TRUE]) =>
                     q2.user = q.user
      BY <1>a, <1>b DEF Request
    <2>2. \A w : Become(r, [q EXCEPT !.pc = "done", !.reply = "error", !.wrote = w]) =>
                     q2.user = q.user
      BY <1>a, <1>b DEF Request
    <2> QED BY <1>3, <2>1, <2>2 DEF Overwrite
  <1>4. CASE Unlink(r)
    <2>1. /\ Become(r, [q EXCEPT !.pc = "erase", !.wrote = TRUE]) => q2.user = q.user
          /\ Become(r, [q EXCEPT !.pc = "done", !.reply = "error", !.wrote = TRUE]) =>
                 q2.user = q.user
      BY <1>a, <1>b DEF Request
    <2> QED BY <1>4, <1>c, <2>1 DEF Unlink
  <1>5. CASE Describe(r)
    <2>1. /\ Become(r, [q EXCEPT !.pc = "reread", !.wrote = TRUE]) => q2.user = q.user
          /\ Become(r, [q EXCEPT !.pc = "done", !.reply = "error", !.wrote = TRUE]) =>
                 q2.user = q.user
      BY <1>a, <1>b DEF Request
    <2> QED BY <1>5, <1>c, <2>1 DEF Describe, Write
  <1>6. CASE Set(r)
    <2>1. \A t, p : Become(r, [q EXCEPT !.todo = t, !.wrote = TRUE, !.pc = p]) =>
                        q2.user = q.user
      BY <1>a, <1>b DEF Request
    <2>2. Become(r, [q EXCEPT !.pc = "done", !.reply = "error", !.wrote = TRUE]) =>
              q2.user = q.user
      BY <1>a, <1>b DEF Request
    <2> QED BY <1>6, <1>c, <2>1, <2>2 DEF Set, Write
  <1>7. CASE Cancel(r)
    BY <1>7, <1>a, <1>b DEF Cancel, Request
  <1>8. CASE Close(r)
    BY <1>8, <1>b DEF Close, Idle
  <1>9. CASE BeginCreate(r) \/ BeginReplace(r) \/ BeginUpdate(r) \/ BeginDelete(r)
    BY <1>9 DEF BeginCreate, BeginReplace, BeginUpdate, BeginDelete, Start
  <1>10. CASE \/ Cleanup(r) \/ Erase(r) \/ Own(r) \/ Recheck(r) \/ Reread(r)
              \/ Check(r) \/ Show(r) \/ AuthorizeDelete(r)
    BY <1>10, <1>c, <1>d DEF Cleanup, Erase, Own, Recheck, Reread, Check, Show,
                             AuthorizeDelete, Authorize
  <1> QED BY <1>1, <1>2, <1>3, <1>4, <1>5, <1>6, <1>7, <1>8, <1>9, <1>10 DEF Step

\* A step of the service leaves the other slots alone, and a restart frees slots.
LEMMA OthersLemma ==
    ASSUME TypeInv, NEW r \in Requests, Step(r)
    PROVE  \A s \in Requests : s # r => reqs'[s] = reqs[s]
  BY HolderLemma

LEMMA AdmitLemma ==
    ASSUME KeyInv, NEW r \in Requests, Admit(r)
    PROVE  \A s \in Requests : Presented(creds[s], reqs[s])'
  <1> DEFINE c == creds[r]
             u == reqs'[r].user
  <1>1. /\ c.sent /\ reqs[r].pc = "idle" /\ Step(r) /\ u \in Lookup(c)
        /\ creds' = [creds EXCEPT ![r].user = u] /\ UNCHANGED <<keys, shown>>
    BY DEF Admit, Step
  <1>2. TypeInv /\ KeysInv /\ c \in Cred /\ Presented(c, reqs[r])
    BY DEF KeyInv, RefusalInv, OwnershipInv
  <1>3. c.key # None => c.key \in DOMAIN keys /\ u = keys[c.key]
    BY <1>1 DEF Lookup
  <1>4. ~c.late
    BY <1>2, <1>3 DEF Presented
  <1>5. creds'[r].user = u /\ creds'[r].key = c.key /\ creds'[r].late = c.late
    BY <1>1, <1>2 DEF KeyInv, Cred
  <1>6. Presented(creds[r], reqs[r])'
    BY <1>1, <1>2, <1>3, <1>4, <1>5 DEF Presented, KeysInv
  <1>7. ASSUME NEW s \in Requests, s # r PROVE Presented(creds[s], reqs[s])'
    <2>1. creds'[s] = creds[s] /\ reqs'[s] = reqs[s]
      BY <1>1, <1>2, <1>7, OthersLemma DEF KeyInv
    <2> QED BY <1>1, <2>1 DEF KeyInv, Presented
  <1> QED BY <1>6, <1>7

LEMMA WorkLemma ==
    ASSUME KeyInv, Work
    PROVE  /\ creds' \in [Requests -> Cred]
           /\ \A s \in Requests : Presented(creds[s], reqs[s])'
  <1>1. TypeInv /\ creds \in [Requests -> Cred] /\ UNCHANGED <<keys, shown>>
    BY DEF KeyInv, RefusalInv, OwnershipInv, Work
  <1>2. creds' = [s \in Requests |-> IF reqs[s].pc # "idle" /\ reqs'[s].pc = "idle"
                                     THEN NoCred ELSE creds[s]]
    BY DEF Work
  <1>3. NoCred \in Cred
    BY DEF NoCred, Cred
  <1>4. ASSUME NEW s \in Requests
        PROVE  \/ reqs'[s] = reqs[s]
               \/ reqs[s].pc # "idle" /\ reqs'[s].pc = "idle"
               \/ reqs[s].pc # "idle" /\ reqs'[s].user = reqs[s].user
    <2>1. CASE Restart
      BY <1>1, <2>1 DEF Restart, InFlight, Idle, TypeInv, TypeOK
    <2>2. CASE \E r \in Requests : reqs[r].pc # "idle" /\ Step(r)
      BY <1>1, <2>2, OthersLemma, UserLemma
    <2> QED BY <2>1, <2>2 DEF Work
  <1>5. ASSUME NEW s \in Requests PROVE Presented(creds[s], reqs[s])'
    <2>1. Presented(creds[s], reqs[s])
      BY DEF KeyInv
    <2>2. CASE creds'[s] = NoCred /\ reqs'[s].pc = "idle"
      BY <2>2 DEF Presented, NoCred
    <2>3. CASE /\ creds'[s] = creds[s]
               /\ \/ reqs'[s] = reqs[s]
                  \/ reqs[s].pc # "idle" /\ reqs'[s].user = reqs[s].user
      BY <1>1, <2>1, <2>3 DEF Presented
    <2> QED BY <1>2, <1>4, <2>2, <2>3
  <1> QED BY <1>1, <1>2, <1>3, <1>5

LEMMA KeyNext == KeyInv /\ [KNext]_kvars => KeyInv'
  <1> SUFFICES ASSUME KeyInv, [KNext]_kvars PROVE KeyInv'
    OBVIOUS
  <1>1. RefusalInv'
    BY ServiceSteps, RefusalNext DEF KeyInv
  <1> DEFINE Stays == /\ creds \in [Requests -> Cred] /\ KeysInv
                      /\ \A r \in Requests : Presented(creds[r], reqs[r])
  <1>a. Stays
    BY DEF KeyInv
  <1>2. CASE CreateKey
    <2>1. PICK u \in Users, k \in Secrets \ DOMAIN shown :
              /\ keys' = With(keys, k, u) /\ shown' = With(shown, k, u)
              /\ UNCHANGED <<hvars, creds>>
      BY <1>2 DEF CreateKey
    <2>2. KeysInv'
      BY <1>a, <2>1 DEF KeysInv, With
    <2>3. ASSUME NEW r \in Requests PROVE Presented(creds[r], reqs[r])'
      <3>1. /\ DOMAIN shown' = DOMAIN shown \cup {k} /\ DOMAIN keys' = DOMAIN keys \cup {k}
            /\ \A j \in DOMAIN shown : shown'[j] = shown[j]
            /\ UNCHANGED <<creds, reqs>>
        BY <2>1 DEF With, hvars
      <3> QED BY <1>a, <2>1, <3>1 DEF Presented
    <2> QED BY <1>1, <1>a, <2>1, <2>2, <2>3 DEF KeyInv
  <1>3. CASE RevokeKey
    <2>1. PICK k \in DOMAIN keys : /\ keys' = Without(keys, k)
                                   /\ UNCHANGED <<hvars, shown, creds>>
      BY <1>3 DEF RevokeKey, Revocable
    <2>2. KeysInv'
      BY <1>a, <2>1 DEF KeysInv, Without
    <2>3. \A r \in Requests : Presented(creds[r], reqs[r])'
      BY <1>a, <2>1 DEF Presented, Without, hvars
    <2> QED BY <1>1, <1>a, <2>1, <2>2, <2>3 DEF KeyInv
  <1>4. ASSUME NEW r \in Requests, Arrive(r)
        PROVE  KeyInv'
    <2>1. PICK c \in [sent: BOOLEAN, key: DOMAIN shown \cup {None},
                      user: Users \cup {None}, late: BOOLEAN] :
              /\ creds' = [creds EXCEPT ![r] = c]
              /\ c.late => c.key # None /\ c.key \notin DOMAIN keys
      <3>0. None \notin DOMAIN shown
        BY <1>a, SecretAssumption DEF KeysInv
      <3>1. ASSUME NEW k \in DOMAIN shown
            PROVE  LET c == [NoCred EXCEPT !.sent = TRUE, !.key = k,
                                           !.late = k \notin DOMAIN keys]
                   IN  /\ c \in [sent: BOOLEAN, key: DOMAIN shown \cup {None},
                                 user: Users \cup {None}, late: BOOLEAN]
                       /\ c.late => c.key # None /\ c.key \notin DOMAIN keys
        BY <3>0 DEF NoCred
      <3>2. ASSUME NEW u \in Users
            PROVE  LET c == [NoCred EXCEPT !.sent = TRUE, !.user = u]
                   IN  /\ c \in [sent: BOOLEAN, key: DOMAIN shown \cup {None},
                                 user: Users \cup {None}, late: BOOLEAN]
                       /\ ~c.late
        BY DEF NoCred
      <3>3. CASE \E k \in DOMAIN shown :
                     creds' = [creds EXCEPT ![r] =
                                  [NoCred EXCEPT !.sent = TRUE, !.key = k,
                                                 !.late = k \notin DOMAIN keys]]
        BY <3>1, <3>3, ZenonT(40)
      <3>4. CASE \E u \in Users :
                     creds' = [creds EXCEPT ![r] = [NoCred EXCEPT !.sent = TRUE, !.user = u]]
        BY <3>2, <3>4, Zenon
      <3> QED BY <1>4, <3>3, <3>4 DEF Arrive
    <2>2. reqs[r].pc = "idle" /\ UNCHANGED <<hvars, keys, shown>>
      BY <1>4 DEF Arrive
    <2>3. creds' \in [Requests -> Cred]
      BY <1>a, <2>1 DEF KeysInv, Cred
    <2>4. KeysInv'
      BY <1>a, <2>2 DEF KeysInv
    <2>5. ASSUME NEW s \in Requests PROVE Presented(creds[s], reqs[s])'
      <3>1. CASE s = r
        BY <1>a, <2>1, <2>2, <3>1 DEF Presented, hvars
      <3>2. CASE s # r
        BY <1>a, <2>1, <2>2, <3>2 DEF Presented, hvars
      <3> QED BY <3>1, <3>2
    <2> QED BY <1>1, <2>3, <2>4, <2>5 DEF KeyInv
  <1>5. ASSUME NEW r \in Requests, Refuse(r)
        PROVE  KeyInv'
    <2>1. /\ creds' = [creds EXCEPT ![r] = NoCred] /\ reqs[r].pc = "idle"
          /\ UNCHANGED <<hvars, keys, shown>>
      BY <1>5 DEF Refuse
    <2>2. creds' \in [Requests -> Cred] /\ KeysInv'
      BY <1>a, <2>1 DEF NoCred, Cred, KeysInv
    <2>3. \A s \in Requests : Presented(creds[s], reqs[s])'
      BY <1>a, <2>1 DEF Presented, NoCred, hvars
    <2> QED BY <1>1, <2>2, <2>3 DEF KeyInv
  <1>6. ASSUME NEW r \in Requests, Admit(r)
        PROVE  KeyInv'
    <2>1. creds' \in [Requests -> Cred]
      <3>1. reqs'[r].user \in Users \cup {None}
        BY <1>1 DEF RefusalInv, OwnershipInv, TypeInv, TypeOK, Request
      <3> QED BY <1>6, <1>a, <3>1 DEF Admit, Cred
    <2>2. KeysInv'
      BY <1>6, <1>a DEF Admit, KeysInv
    <2> QED BY <1>1, <1>6, <2>1, <2>2, AdmitLemma DEF KeyInv
  <1>7. CASE Work
    <2>1. KeysInv'
      BY <1>7, <1>a DEF Work, KeysInv
    <2> QED BY <1>1, <1>7, <2>1, WorkLemma DEF KeyInv
  <1>8. CASE UNCHANGED kvars
    BY <1>1, <1>8, <1>a DEF kvars, hvars, KeyInv, KeysInv, Presented
  <1> QED BY <1>2, <1>3, <1>4, <1>5, <1>6, <1>7, <1>8 DEF KNext

----------------------------------------------------------------------------
\* However many keys are created and revoked, a request that arrives after its key
\* was revoked begins nothing (routes.go:34-39): plaintexts are drawn once, and
\* the lookup is done when the request is let in.
THEOREM RevokedKeysOpenNothing == KSpec => []LateKeysOpenNothing
  <1>1. KeyInv => LateKeysOpenNothing
    BY DEF KeyInv, Presented, LateKeysOpenNothing
  <1> QED BY <1>1, KeyInit, KeyNext, PTL DEF KSpec

\* A step changes the row or the bytes of an existing file only through a request
\* that presented its owner's session or a key its owner was shown, whatever fails,
\* as long as the bytes outlive the process.
THEOREM OwnersKeysOnly ==
    ASSUME Durable
    PROVE  KSpec => OnlyOwnersKeysWrite
  <1> DEFINE Owned(i) ==
          \/ /\ i \in DOMAIN rows' /\ rows'[i] = rows[i]
             /\ i \in DOMAIN blobs => i \in DOMAIN blobs' /\ blobs'[i] = blobs[i]
          \/ \E r \in Requests :
                /\ reqs'[r] # reqs[r] /\ reqs[r].id = i
                /\ IF creds[r].key = None THEN creds[r].user = rows[i].owner
                   ELSE creds[r].key \in DOMAIN shown
                        /\ shown[creds[r].key] = rows[i].owner
  <1>1. KeyInv /\ [KNext]_kvars => [\A i \in DOMAIN rows : Owned(i)]_kvars
    <2> SUFFICES ASSUME KeyInv, [KNext]_kvars, NEW i \in DOMAIN rows
                 PROVE  Owned(i)
      OBVIOUS
    <2>1. [Next]_vars
      BY ServiceSteps
    <2>2. CASE UNCHANGED vars
      BY <2>2 DEF vars
    <2>3. CASE Restart
      BY <2>3 DEF Restart, Durable
    <2>4. ASSUME NEW r \in Requests, Step(r) PROVE Owned(i)
      <3>1. TypeInv /\ Held(reqs[r]) /\ Presented(creds[r], reqs[r])
        BY DEF KeyInv, RefusalInv, OwnershipInv
      <3>2. CASE Holder(reqs[r]) /\ reqs[r].id = i
        <4>1. reqs[r].user = rows[i].owner /\ reqs[r].pc # "idle"
          BY <3>1, <3>2 DEF Held, Holder
        <4>2. reqs'[r] # reqs[r] \/ UNCHANGED <<rows, blobs>>
          BY <2>4, <3>1, MovesLemma
        <4> QED BY <3>1, <3>2, <4>1, <4>2 DEF Presented
      <3>3. CASE ~(Holder(reqs[r]) /\ reqs[r].id = i)
        BY <2>4, <3>1, <3>3, RowLemma, BlobsLemma
      <3> QED BY <3>2, <3>3
    <2> QED BY <2>1, <2>2, <2>3, <2>4 DEF Next
  <1> QED BY <1>1, KeyInit, KeyNext, PTL DEF KSpec, OnlyOwnersKeysWrite

----------------------------------------------------------------------------
(* An acknowledged file has bytes, with no assumption on lost answers.       *)

\* An id is acknowledged when its row is written, by the request that drew it, so
\* no request that could erase its bytes without its row can hold it.
AckedInv ==
    /\ RefusalInv
    /\ acked \subseteq minted
    /\ AcknowledgedFilesHaveBytes
    /\ \A r \in Requests :
          /\ Drawn(reqs[r]) \/ reqs[r].pc = "cleanup" => reqs[r].id \notin acked
          /\ reqs[r].pc = "insert" => reqs[r].id \in DOMAIN blobs
          /\ reqs[r].pc = "erase" => reqs[r].id \notin DOMAIN rows

LEMMA AckedInit == KInit => AckedInv
  <1> SUFFICES ASSUME KInit PROVE AckedInv
    OBVIOUS
  <1>1. RefusalInv
    BY RefusalInit DEF KInit, HInit
  <1> QED BY <1>1 DEF KInit, HInit, Init, AckedInv, AcknowledgedFilesHaveBytes, Drawn, Idle

\* One step of a request, and the acknowledgements it may lead to.
LEMMA AckedStep ==
    ASSUME Durable, AckedInv, NEW r \in Requests, Step(r), RefusalInv',
           acked' = acked \/ acked' = acked \cup Acknowledged,
           reqs[r].pc = "insert" => acked' = acked \cup Acknowledged
    PROVE  AckedInv'
  <1> DEFINE q == reqs[r]
             q2 == reqs'[r]
  <1>a. TypeInv /\ Held(q) /\ Clean(q2)
    BY DEF AckedInv, RefusalInv, OwnershipInv
  <1>b. \A s \in Requests : s # r => reqs'[s] = reqs[s]
    BY <1>a, HolderLemma
  <1>c. \A i \in DOMAIN blobs :
            i \in DOMAIN blobs' \/ (q.pc \in {"cleanup", "erase"} /\ q.id = i)
    BY <1>a, BytesKeptLemma
  <1>d. \A i \in DOMAIN rows' : i \in DOMAIN rows \/ (q.pc = "insert" /\ q.id = i)
    BY <1>a, RowsLemma
  <1>e. Drawn(q2) => (Drawn(q) /\ q2.id = q.id) \/ (q2.id \notin minted /\ q2.id \in minted')
    BY <1>a, HolderLemma
  <1>f. minted \subseteq minted'
    BY <1>a, HolderLemma
  <1>g. \A s \in Requests : s # r =>
            /\ q.pc = "insert" /\ Holder(reqs[s]) => q.id # reqs[s].id
            /\ reqs[s].pc = "insert" /\ Holder(q) => q.id # reqs[s].id
    BY DEF AckedInv, RefusalInv, OwnershipInv, Drawn
  <1>h. \A s \in Requests :
            Drawn(reqs[s]) \/ reqs[s].pc \in {"insert", "cleanup", "erase"} => Holder(reqs[s])
    BY DEF Holder, Drawn
  <1>i. \A s \in Requests : reqs[s].pc = "insert" => reqs[s].reply # "ok"
    BY ReplyAssumption DEF AckedInv, RefusalInv, Clean
  <1>j. Acknowledged = {i \in {q.id} : q.pc = "insert" /\ q2.reply = "ok"}
    BY <1>b, <1>i DEF Acknowledged
  <1>k. q2.reply = "ok" => q2.pc = "done"
    BY <1>a, ReplyAssumption DEF Clean
  <1>1. (acked \subseteq minted)'
    <2>1. q.pc = "insert" => q.id \in minted
      BY <1>a DEF Held, Holder
    <2> QED BY <1>f, <1>j, <2>1 DEF AckedInv
  <1>2. AcknowledgedFilesHaveBytes'
    <2> SUFFICES ASSUME NEW i \in acked', i \in DOMAIN rows'
                 PROVE  i \in DOMAIN blobs'
      BY DEF AcknowledgedFilesHaveBytes
    <2>1. CASE i \in acked
      <3>1. ~(Drawn(q) \/ q.pc = "cleanup") \/ q.id # i
        BY <2>1 DEF AckedInv
      <3>2. i \in DOMAIN rows
        BY <1>d, <3>1 DEF Drawn
      <3>3. i \in DOMAIN blobs
        BY <2>1, <3>2 DEF AckedInv, AcknowledgedFilesHaveBytes
      <3>4. ~(q.pc = "erase" /\ q.id = i)
        BY <3>2 DEF AckedInv
      <3> QED BY <1>c, <3>1, <3>3, <3>4
    <2>2. CASE i \notin acked
      <3>1. i = q.id /\ q.pc = "insert" /\ i \in DOMAIN blobs
        BY <2>2, <1>j DEF AckedInv
      <3> QED BY <1>c, <3>1
    <2> QED BY <2>1, <2>2
  <1>3. ASSUME NEW s \in Requests, s # r
        PROVE  /\ Drawn(reqs'[s]) \/ reqs'[s].pc = "cleanup" => reqs'[s].id \notin acked'
               /\ reqs'[s].pc = "insert" => reqs'[s].id \in DOMAIN blobs'
               /\ reqs'[s].pc = "erase" => reqs'[s].id \notin DOMAIN rows'
    <2>1. reqs'[s] = reqs[s]
      BY <1>3, <1>b
    <2>2. Drawn(reqs[s]) \/ reqs[s].pc = "cleanup" => reqs[s].id \notin acked'
      BY <1>3, <1>g, <1>h, <1>j DEF AckedInv
    <2>3. reqs[s].pc = "insert" => reqs[s].id \in DOMAIN blobs'
      BY <1>3, <1>c, <1>g, <1>h DEF AckedInv
    <2>4. reqs[s].pc = "erase" => reqs[s].id \notin DOMAIN rows'
      BY <1>3, <1>d, <1>g, <1>h DEF AckedInv
    <2> QED BY <2>1, <2>2, <2>3, <2>4
  <1>4. /\ Drawn(q2) \/ q2.pc = "cleanup" => q2.id \notin acked'
        /\ q2.pc = "insert" => q2.id \in DOMAIN blobs'
        /\ q2.pc = "erase" => q2.id \notin DOMAIN rows'
    <2>1. /\ q2.pc = "insert" => q2.id \in DOMAIN blobs' \/ (q.pc = "insert" /\ q2.id = q.id)
          /\ q2.pc = "erase" => q2.id \notin DOMAIN rows' \/ (q.pc = "erase" /\ q2.id = q.id)
          /\ q2.pc = "cleanup" => q2.id = q.id /\ q.pc \in {"cleanup", "insert"}
      BY <1>a, StandLemma, Zenon
    <2>2. Drawn(q2) \/ q2.pc = "cleanup" => acked' = acked
      BY <1>j, <1>k DEF Drawn
    <2>3. Drawn(q2) \/ q2.pc = "cleanup" => q2.id \notin acked
      BY <1>e, <2>1 DEF AckedInv, Drawn
    <2>4. q2.pc = "insert" => q2.id \in DOMAIN blobs'
      BY <1>c, <2>1 DEF AckedInv
    <2>5. q2.pc = "erase" => q2.id \notin DOMAIN rows'
      BY <1>d, <2>1 DEF AckedInv
    <2> QED BY <2>2, <2>3, <2>4, <2>5
  <1> QED BY <1>1, <1>2, <1>3, <1>4 DEF AckedInv

LEMMA AckedNext ==
    ASSUME Durable
    PROVE  AckedInv /\ [KNext]_kvars => AckedInv'
  <1> SUFFICES ASSUME AckedInv, [KNext]_kvars PROVE AckedInv'
    OBVIOUS
  <1>1. RefusalInv'
    BY ServiceSteps, RefusalNext DEF AckedInv
  <1>2. CASE UNCHANGED <<hvars, acked>>
    BY <1>1, <1>2 DEF hvars, AckedInv, AcknowledgedFilesHaveBytes
  <1>3. ASSUME NEW r \in Requests, Admit(r)
        PROVE  AckedInv'
    <2>1. Step(r) /\ acked' = acked /\ reqs[r].pc = "idle"
      BY <1>3 DEF Admit, Step
    <2> QED BY <1>1, <2>1, AckedStep
  <1>4. CASE Work
    <2>1. acked' = acked \cup Acknowledged
      BY <1>4 DEF Work
    <2>2. CASE \E r \in Requests : Step(r)
      BY <1>1, <2>1, <2>2, AckedStep
    <2>3. CASE Restart
      <3>2. /\ UNCHANGED <<rows, blobs, minted>>
            /\ \A s \in Requests :
                   reqs'[s] = Idle \/ (~InFlight(reqs[s]) /\ reqs'[s] = reqs[s])
        <4>1. UNCHANGED <<rows, blobs, minted>>
          BY <2>3 DEF Restart, Durable
        <4>2. reqs' = [s \in Requests |-> IF InFlight(reqs[s]) THEN Idle ELSE reqs[s]]
          BY <2>3 DEF Restart
        <4>3. \A s \in Requests : reqs'[s] = IF InFlight(reqs[s]) THEN Idle ELSE reqs[s]
          BY <4>2
        <4> QED BY <4>1, <4>3 DEF InFlight
      <3>3. Acknowledged = {}
        BY <3>2, ReplyAssumption DEF Acknowledged, Idle, InFlight
      <3>4. acked' = acked
        BY <2>1, <3>3
      <3>5. (acked \subseteq minted)' /\ AcknowledgedFilesHaveBytes'
        BY <3>2, <3>4 DEF AckedInv, AcknowledgedFilesHaveBytes
      <3>6. ASSUME NEW s \in Requests
            PROVE  /\ Drawn(reqs'[s]) \/ reqs'[s].pc = "cleanup" => reqs'[s].id \notin acked
                   /\ reqs'[s].pc = "insert" => reqs'[s].id \in DOMAIN blobs
                   /\ reqs'[s].pc = "erase" => reqs'[s].id \notin DOMAIN rows
        <4>1. CASE reqs'[s] = Idle
          BY <4>1 DEF Idle, Drawn
        <4>2. CASE reqs'[s] = reqs[s]
          BY <4>2 DEF AckedInv
        <4> QED BY <3>2, <4>1, <4>2
      <3> QED BY <1>1, <3>2, <3>4, <3>5, <3>6 DEF AckedInv
    <2> QED BY <1>4, <2>2, <2>3 DEF Work
  <1> QED BY <1>2, <1>3, <1>4 DEF KNext, CreateKey, RevokeKey, Arrive, Refuse, kvars, hvars

\* A file whose upload was acknowledged has bytes for as long as it has a row, even
\* when answers of database writes are lost: the clean-up that removes the bytes of
\* a row which was written after all (service.go:98-104) only ever meets a file
\* whose client was told of a failure.
THEOREM AcknowledgedIsStored ==
    ASSUME Durable
    PROVE  KSpec => []AcknowledgedFilesHaveBytes
  <1>1. AckedInv => AcknowledgedFilesHaveBytes
    BY DEF AckedInv
  <1> QED BY <1>1, AckedInit, AckedNext, PTL DEF KSpec

----------------------------------------------------------------------------
(* Types, and what carries over from FileService.                            *)

\* Only ids that were drawn are acknowledged.
LEMMA MintedLemma == KeyInv /\ acked \subseteq minted /\ [KNext]_kvars => (acked \subseteq minted)'
  <1> SUFFICES ASSUME KeyInv, acked \subseteq minted, [KNext]_kvars
               PROVE  acked' \subseteq minted'
    OBVIOUS
  <1>1. TypeInv /\ \A r \in Requests : Held(reqs[r])
    BY DEF KeyInv, RefusalInv, OwnershipInv
  <1>2. minted \subseteq minted'
    <2>1. ASSUME NEW r \in Requests, Step(r) PROVE minted \subseteq minted'
      BY <1>1, <2>1, HolderLemma
    <2> QED BY <2>1, ServiceSteps DEF Next, Restart, vars
  <1>3. Acknowledged \subseteq minted
    BY <1>1 DEF Acknowledged, Held, Holder
  <1>4. acked' = acked \/ acked' = acked \cup Acknowledged
    BY DEF KNext, CreateKey, RevokeKey, Arrive, Refuse, Admit, Work, kvars
  <1> QED BY <1>2, <1>3, <1>4

\* Keys belong to users, requests carry what a client can have, and only ids that
\* were drawn are acknowledged.
THEOREM KeyTypesCorrect == KSpec => []KTypeOK
  <1>1. KInit => acked \subseteq minted
    BY DEF KInit
  <1>2. KeyInv /\ acked \subseteq minted => KTypeOK
    BY DEF KeyInv, KeysInv, KTypeOK
  <1> QED BY <1>1, <1>2, KeyInit, KeyNext, MintedLemma, PTL DEF KSpec

\* Behind API keys too a refused request has changed nothing.
THEOREM KeyedRefusalsAreClean == KSpec => []RefusedLeavesNoTrace
  <1>1. KeyInv => RefusedLeavesNoTrace
    BY DEF KeyInv, RefusalInv, Clean, RefusedLeavesNoTrace
  <1> QED BY <1>1, KeyInit, KeyNext, PTL DEF KSpec

\* Behind API keys too the row of a file describes its bytes unless its last
\* replacement was disturbed.
THEOREM KeyedRowsDescribeBytes == KSpec => []RowDescribesBytes
  <1>1. KInit => HistoryInv
    BY HistoryInit DEF KInit
  <1>2. HistoryInv /\ [KNext]_kvars => HistoryInv'
    BY HistorySteps, HistoryNext
  <1> QED BY <1>1, <1>2, HistoryDescribes, PTL DEF KSpec

----------------------------------------------------------------------------
(* The refinement: what a request with a key does is what the service does.  *)

\* Keys, shown or revoked, let nobody do to files and bytes what a request of the
\* service could not have done: every behaviour of the keyed service is one of it
\* (requireAPIKey, routes.go:27-41, hands the request on as its key's user).
THEOREM KeysAddNothing == KSpec => HSpec
  <1>1. KInit => HInit
    BY DEF KInit
  <1> QED BY <1>1, HistorySteps, PTL DEF KSpec, HSpec

LEMMA KeyedIsService == KSpec => Spec
  <1>1. KInit => Init
    BY DEF KInit, HInit
  <1> QED BY <1>1, ServiceSteps, PTL DEF KSpec, Spec

\* Behind API keys too no id of a deleted file ever names a file again.
THEOREM KeyedIdsNeverComeBack == KSpec => DeletedForGood
  BY KeyedIsService, NoIdComesBack, PTL

\* Behind API keys too row and bytes look like one file of the catalog.
THEOREM KeyedImplements ==
    ASSUME Answered, Durable
    PROVE  KSpec => ImplementsCatalog
  BY KeyedIsService, Implements, PTL
=============================================================================
