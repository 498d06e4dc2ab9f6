------------------------- MODULE UploadStreamProofs -------------------------
(* Theorems about UploadStream, for streams of any length.                  *)
EXTENDS UploadStream, SequenceTheorems, TLAPS

(***************************************************************************)
(* The invariant.  As long as the store reads, what it has taken and what   *)
(* lies in the pipe are together what the client has sent; the pipe is      *)
(* closed only when nothing lies in it; it is closed as complete only when  *)
(* the client's stream was; and the goroutine has an error from the moment  *)
(* it gives up, one of the database's calls if a row was written.           *)
(***************************************************************************)

Typed ==
    /\ handler \in {"first", "receive", "write", "wait", "answered"}
    /\ worker \in {"unborn", "starting", "put", "record", "reread", "drain", "failed",
                   "finished"}
    /\ err \in {"nil", "prepare", "put", "record", "reread"}
    /\ sent \in Seq(Nat) /\ taken \in Seq(Nat)
    /\ offer \in Seq(Nat) \cup {None} /\ recorded \in Seq(Nat) \cup {None}

\* The handler: when it has a goroutine, a Write under way, and an open pipe.
HandlerInv ==
    /\ handler = "first" => worker = "unborn"
    /\ worker = "unborn" => /\ handler \in {"first", "answered"}
                            /\ sent = <<>> /\ taken = <<>> /\ offer = None
    /\ offer # None => handler = "write"
    /\ handler \in {"first", "receive", "write"} => closed = "open" /\ reply = None
    /\ handler = "wait" => reply = None
    /\ closed = "eof" => stream = "eof"

\* The data: nothing is lost, repeated or reordered on its way to the store.
DataInv ==
    /\ worker \in {"starting", "put"} =>
           (offer = None => taken = sent) /\ (offer # None => taken \o offer = sent)
    /\ worker = "record" => closed = "eof" /\ taken = sent /\ offer = None
    /\ worker \in {"unborn", "starting", "put", "record"} => recorded = None /\ err = "nil"
    /\ worker \in {"reread", "finished"} => recorded # None /\ err = "nil"
    /\ worker \in {"drain", "failed"} => err # "nil"
    /\ recorded # None /\ err # "nil" => err \in {"record", "reread"}
    /\ recorded # None => closed = "eof" /\ recorded = sent

AnswerInv ==
    handler = "answered" =>
        /\ worker \in {"unborn", "failed", "finished"}
        /\ reply \in {"ok", "error"}
        /\ reply = "ok" => recorded # None
        /\ reply = "error" => recorded = None \/ err \in {"record", "reread"}

StreamInv == Typed /\ HandlerInv /\ DataInv /\ AnswerInv

LEMMA StreamInit == Init => StreamInv
  BY NoneAssumption DEF Init, StreamInv, Typed, HandlerInv, DataInv, AnswerInv

\* The next pieces are a sequence.
LEMMA FreshLemma ==
    ASSUME NEW n \in Nat, sent \in Seq(Nat)
    PROVE  Fresh(n) \in Seq(Nat) /\ Fresh(n) # None /\ sent \o Fresh(n) \in Seq(Nat)
  <1>1. \A j \in 1..n : Len(sent) + j \in Nat
    BY LenProperties
  <1>2. Fresh(n) \in Seq(Nat)
    BY <1>1 DEF Fresh
  <1> QED BY <1>2, NoneAssumption, ConcatProperties

\* Concatenation of sequences of numbers, instances of the library's theorems.
LEMMA ConcatNat ==
    \A s, t \in Seq(Nat) :
        /\ s \o t \in Seq(Nat)
        /\ Len(s \o t) = Len(s) + Len(t)
        /\ \A i \in 1..(Len(s) + Len(t)) :
               (s \o t)[i] = IF i <= Len(s) THEN s[i] ELSE t[i - Len(s)]
  BY ConcatProperties, Z3

LEMMA ConcatNatAssociative ==
    \A s, t, u \in Seq(Nat) : (s \o t) \o u = s \o (t \o u)
  BY ConcatAssociative, Z3T(20)

\* A sequence is its first k elements and the rest.
LEMMA SplitLemma ==
    ASSUME NEW seq \in Seq(Nat), NEW k \in 0..Len(seq)
    PROVE  SubSeq(seq, 1, k) \o SubSeq(seq, k + 1, Len(seq)) = seq
  <1>1. Len(seq) \in Nat /\ \A i \in 1..Len(seq) : seq[i] \in Nat
    BY LenProperties, ElementOfSeq
  <1> DEFINE a == SubSeq(seq, 1, k)
             b == SubSeq(seq, k + 1, Len(seq))
  <1>2. /\ a \in Seq(Nat) /\ Len(a) = k
        /\ \A i \in 1..k : a[i] = seq[i]
    <2>1. \A i \in 1..k : seq[i] \in Nat
      BY <1>1
    <2> QED BY <2>1, <1>1, SubSeqProperties
  <1>3. /\ b \in Seq(Nat) /\ Len(b) = Len(seq) - k
        /\ \A i \in 1..(Len(seq) - k) : b[i] = seq[k + i]
    <2>1. \A i \in (k + 1)..Len(seq) : seq[i] \in Nat
      BY <1>1
    <2>2. k + 1 \in Nat /\ k \in Nat /\ k <= Len(seq)
      BY <1>1
    <2>3. /\ b \in Seq(Nat)
          /\ Len(b) = IF k + 1 <= Len(seq) THEN Len(seq) - (k + 1) + 1 ELSE 0
          /\ \A i \in 1..(Len(seq) - (k + 1) + 1) : b[i] = seq[k + 1 + i - 1]
      BY <2>1, <2>2, <1>1, SubSeqProperties, SMTT(30)
    <2> HIDE DEF b
    <2> QED BY <2>2, <2>3, <1>1, SMTT(30)
  <1> HIDE DEF a, b
  <1>4. /\ a \o b \in Seq(Nat) /\ Len(a \o b) = Len(seq)
        /\ \A i \in 1..Len(seq) : (a \o b)[i] = IF i <= k THEN a[i] ELSE b[i - k]
    <2>1. Len(a) + Len(b) = Len(seq)
      BY <1>1, <1>2, <1>3
    <2>2. /\ a \o b \in Seq(Nat) /\ Len(a \o b) = Len(a) + Len(b)
          /\ \A i \in 1..(Len(a) + Len(b)) : (a \o b)[i] =
                 IF i <= Len(a) THEN a[i] ELSE b[i - Len(a)]
      BY ConcatNat, <1>2, <1>3, Zenon
    <2> QED BY <1>2, <2>1, <2>2
  <1>5. \A i \in 1..Len(seq) : (a \o b)[i] = seq[i]
    BY <1>1, <1>2, <1>3, <1>4, SMTT(20)
  <1>6. a \o b = seq
    BY <1>4, <1>5, SeqEqual
  <1> QED BY <1>6 DEF a, b

\* Taking n pieces moves them from the pipe to the store.
LEMMA TakeLemma ==
    ASSUME taken \in Seq(Nat), offer \in Seq(Nat), NEW n \in 0..Len(offer),
           taken' = taken \o SubSeq(offer, 1, n), Take(n)
    PROVE  /\ taken' \in Seq(Nat)
           /\ offer' \in Seq(Nat) \cup {None}
           /\ offer' = None => taken' = taken \o offer
           /\ offer' # None => taken' \o offer' = taken \o offer
  <1> DEFINE front == SubSeq(offer, 1, n)
             rest  == SubSeq(offer, n + 1, Len(offer))
  <1>1. Len(offer) \in Nat /\ \A i \in 1..Len(offer) : offer[i] \in Nat
    BY LenProperties, ElementOfSeq
  <1>2. front \in Seq(Nat)
    <2>1. \A i \in 1..n : offer[i] \in Nat
      BY <1>1
    <2> QED BY <2>1, SubSeqProperties, <1>1
  <1>3. rest \in Seq(Nat)
    <2>1. \A i \in (n + 1)..Len(offer) : offer[i] \in Nat
      BY <1>1
    <2> QED BY <2>1, SubSeqProperties, <1>1
  <1>4. front \o rest = offer
    BY SplitLemma
  <1>5. taken' \in Seq(Nat)
    BY <1>2, ConcatProperties
  <1>6. CASE n = Len(offer)
    <2>1. offer' = None /\ front = offer
      BY <1>6, SubSeqFull DEF Take
    <2> QED BY <2>1, <1>5
  <1>7. CASE n # Len(offer)
    <2>1. offer' = rest
      BY <1>7 DEF Take
    <2>2. (taken \o front) \o rest = taken \o (front \o rest)
      <3> HIDE DEF front, rest
      <3> QED BY <1>2, <1>3, ConcatNatAssociative
    <2>3. rest # None
      BY <1>3, NoneAssumption
    <2> QED BY <2>1, <2>2, <2>3, <1>3, <1>4, <1>5
  <1> QED BY <1>6, <1>7

LEMMA StreamNext == StreamInv /\ [Next]_vars => StreamInv'
  <1> SUFFICES ASSUME StreamInv, [Next]_vars PROVE StreamInv'
    OBVIOUS
  <1> USE DEF StreamInv, Typed, HandlerInv, DataInv, AnswerInv
  <1> USE DEF store, client, outcome
  <1>1. CASE ReceiveFirst
    <2>1. PICK n \in 0..MaxPieces :
              /\ sent' = sent \o Fresh(n)
              /\ IF n = 0 THEN handler' = "receive" /\ UNCHANGED offer
                          ELSE StartWrite(Fresh(n))
      BY <1>1 DEF ReceiveFirst
    <2>2. n \in Nat
      BY BoundAssumption
    <2>3. Fresh(n) \in Seq(Nat) /\ Fresh(n) # None /\ sent \o Fresh(n) \in Seq(Nat)
      BY <2>2, FreshLemma
    <2>4. sent = <<>> /\ taken = <<>> /\ offer = None
      BY <1>1 DEF ReceiveFirst
    <2>5. CASE n = 0
      <3>1. Fresh(n) = <<>>
        BY <2>5, <2>3 DEF Fresh
      <3>2. sent' = <<>>
        BY <2>1, <2>4, <3>1
      <3> QED BY <1>1, <2>1, <2>4, <2>5, <3>2 DEF ReceiveFirst
    <2>6. CASE n # 0
      <3>1. taken \o Fresh(n) = sent'
        BY <2>1, <2>4
      <3> QED BY <1>1, <2>1, <2>3, <2>4, <2>6, <3>1 DEF ReceiveFirst, StartWrite
    <2> QED BY <2>5, <2>6
  <1>2. CASE EndFirst
    BY <1>2 DEF EndFirst
  <1>3. CASE RefuseFirst
    BY <1>3 DEF RefuseFirst
  <1>4. CASE Receive
    <2>1. PICK n \in 0..MaxPieces : sent' = sent \o Fresh(n) /\ StartWrite(Fresh(n))
      BY <1>4 DEF Receive
    <2>2. Fresh(n) \in Seq(Nat) /\ Fresh(n) # None /\ sent \o Fresh(n) \in Seq(Nat)
      <3>1. n \in Nat
        BY BoundAssumption
      <3> QED BY <3>1, FreshLemma
    <2>3. offer = None /\ offer' = Fresh(n)
      BY <1>4, <2>1 DEF Receive, StartWrite
    <2>4. closed = "open" /\ recorded = None
      BY <1>4 DEF Receive
    <2>5. worker \in {"starting", "put"} => taken' \o offer' = sent'
      BY <1>4, <2>1, <2>3 DEF Receive
    <2> QED BY <1>4, <2>1, <2>2, <2>3, <2>4, <2>5 DEF Receive, StartWrite
  <1>5. CASE WriteReturns
    BY <1>5 DEF WriteReturns
  <1>6. CASE EndReceive
    BY <1>6 DEF EndReceive
  <1>7. CASE AnswerClient
    BY <1>7 DEF AnswerClient
  <1>8. CASE Prepare
    BY <1>8 DEF Prepare, GiveUp
  <1>9. CASE Read
    <2>1. PICK n \in 0..Len(offer) :
              taken' = taken \o SubSeq(offer, 1, n) /\ Take(n)
      BY <1>9 DEF Read
    <2>2. offer \in Seq(Nat) /\ worker = "put" /\ offer # None
      BY <1>9 DEF Read
    <2>3. /\ taken' \in Seq(Nat)
          /\ offer' \in Seq(Nat) \cup {None}
          /\ offer' = None => taken' = taken \o offer
          /\ offer' # None => taken' \o offer' = taken \o offer
      BY <2>1, <2>2, TakeLemma
    <2>4. /\ offer' = None => taken' = sent
          /\ offer' # None => taken' \o offer' = sent
      BY <2>2, <2>3
    <2> QED BY <1>9, <2>2, <2>3, <2>4 DEF Read
  <1>10. CASE PutReturns
    BY <1>10 DEF PutReturns, GiveUp
  <1>11. CASE PutFails
    BY <1>11 DEF PutFails, GiveUp
  <1>12. CASE Record
    BY <1>12, NoneAssumption DEF Record, GiveUp
  <1>13. CASE Reread
    BY <1>13 DEF Reread, GiveUp
  <1>14. CASE Drain
    BY <1>14 DEF Drain
  <1>15. CASE UNCHANGED vars
    BY <1>15 DEF vars
  <1> QED
    BY <1>1, <1>2, <1>3, <1>4, <1>5, <1>6, <1>7, <1>8, <1>9, <1>10, <1>11, <1>12,
       <1>13, <1>14, <1>15 DEF Next, Handler, Worker

\* A row is written only for the content of a stream the client ended itself,
\* all of it and in order, however long the stream and however it is cut into
\* messages and reads (CreateFile and UpdateFileContent, service.go:159-345).
THEOREM OnlyWholeStreams == Spec => []RecordedIsWhole
  <1>1. StreamInv => RecordedIsWhole
    BY DEF StreamInv, HandlerInv, DataInv, RecordedIsWhole
  <1> QED BY <1>1, StreamInit, StreamNext, PTL DEF Spec

\* The handler answers only after its goroutine has ended; success is answered only
\* when the row was written, and an error of the stream, of a check or of the store
\* only when it was not: only a call of the database can fail with the row there
\* (service.go:240-246, 335-340; 99-105, 127-130).
THEOREM TrueAnswers == Spec => []AnswerIsTrue
  <1>1. StreamInv => AnswerIsTrue
    BY DEF StreamInv, AnswerInv, AnswerIsTrue
  <1> QED BY <1>1, StreamInit, StreamNext, PTL DEF Spec

(***************************************************************************)
(* The bounds of the types: a message carries at most MaxPieces pieces, so  *)
(* what was sent is bounded by the messages received, and the pipe and the  *)
(* store hold parts of it.                                                  *)
(***************************************************************************)

Bounded ==
    /\ kind \in Kinds /\ reply \in {None, "ok", "error"}
    /\ closed \in {"open", "eof", "error"} /\ stream \in {"open", "eof", "error"}
    /\ messages \in 0..MaxMessages
    /\ sent \in Seq(Pieces) /\ Len(sent) <= messages * MaxPieces
    /\ taken \in Seq(Pieces) /\ Len(taken) <= Len(sent)
    /\ offer # None => offer \in Seq(Pieces) /\ Len(offer) <= Len(sent)

\* Messages times pieces, for messages within their bound.
LEMMA ProductLemma ==
    ASSUME NEW m \in 0..MaxMessages
    PROVE  /\ m * MaxPieces \in Nat /\ MaxMessages * MaxPieces \in Nat
           /\ m * MaxPieces <= MaxMessages * MaxPieces
           /\ (m + 1) * MaxPieces = m * MaxPieces + MaxPieces
  <1>1. PICK p \in Nat, a \in Nat : p = MaxPieces /\ a = MaxMessages
    BY BoundAssumption
  <1>2. m \in Nat /\ a - m \in Nat /\ a = m + (a - m)
    BY <1>1
  <1>3. m * p \in Nat /\ (a - m) * p \in Nat /\ a * p = m * p + (a - m) * p
    BY <1>1, <1>2
  <1>4. (m + 1) * p = m * p + p
    BY <1>1, <1>2
  <1> QED BY <1>1, <1>3, <1>4

LEMMA DataLemma ==
    ASSUME Bounded, NEW s \in Seq(Pieces), Len(s) <= Len(sent)
    PROVE  s \in Data
  <1>1. Len(s) \in Nat /\ Len(sent) \in Nat /\ s \in [1..Len(s) -> Pieces]
    BY LenProperties DEF Bounded
  <1>2. /\ messages * MaxPieces \in Nat /\ MaxMessages * MaxPieces \in Nat
        /\ messages * MaxPieces <= MaxMessages * MaxPieces
    BY ProductLemma DEF Bounded
  <1>3. Len(sent) <= messages * MaxPieces
    BY DEF Bounded
  <1>4. PICK a \in Nat : a = MaxMessages * MaxPieces
    BY <1>2
  <1>5. Len(s) \in 0..a
    BY <1>1, <1>2, <1>3, <1>4
  <1> QED BY <1>1, <1>4, <1>5 DEF Data

\* One more message keeps what was sent in bounds.
LEMMA MessageLemma ==
    ASSUME Bounded, messages < MaxMessages, NEW n \in 0..MaxPieces
    PROVE  /\ messages + 1 \in 0..MaxMessages
           /\ Fresh(n) \in Seq(Pieces) /\ Len(Fresh(n)) = n
           /\ sent \o Fresh(n) \in Seq(Pieces)
           /\ Len(sent \o Fresh(n)) = Len(sent) + n
           /\ Len(sent \o Fresh(n)) <= (messages + 1) * MaxPieces
  <1>1. messages \in Nat /\ MaxMessages \in Nat /\ MaxPieces \in Nat /\ n \in Nat
        /\ Len(sent) \in Nat
    BY BoundAssumption, LenProperties DEF Bounded
  <1>2. messages + 1 \in 0..MaxMessages
    BY <1>1
  <1>3. /\ (messages + 1) * MaxPieces = messages * MaxPieces + MaxPieces
        /\ messages * MaxPieces \in Nat
    BY ProductLemma DEF Bounded
  <1>4. (messages + 1) * MaxPieces <= MaxMessages * MaxPieces
        /\ MaxMessages * MaxPieces \in Nat
    BY <1>2, ProductLemma
  <1>5. PICK a \in Nat, b \in Nat :
           a = MaxMessages * MaxPieces /\ b = messages * MaxPieces
    BY <1>3, <1>4
  <1>6. Len(sent) <= b /\ b + MaxPieces <= a
    BY <1>3, <1>4, <1>5 DEF Bounded
  <1>7. \A j \in 1..n : Len(sent) + j \in Pieces
    <2>1. \A j \in 1..n : Len(sent) + j \in 1..a
      BY <1>1, <1>5, <1>6
    <2> QED BY <2>1, <1>5 DEF Pieces
  <1>8. Fresh(n) \in Seq(Pieces) /\ Len(Fresh(n)) = n
    BY <1>1, <1>7 DEF Fresh
  <1>9. PICK f \in Seq(Pieces) : f = Fresh(n)
    BY <1>8
  <1>10. sent \o f \in Seq(Pieces) /\ Len(sent \o f) = Len(sent) + Len(f)
    BY <1>9, ConcatProperties DEF Bounded
  <1>11. Len(sent) + n <= b + MaxPieces
    BY <1>1, <1>5, <1>6
  <1> QED BY <1>2, <1>3, <1>5, <1>8, <1>9, <1>10, <1>11

LEMMA BoundedInit == Init => Bounded
  <1>1. 0 * MaxPieces = 0 /\ 0 \in 0..MaxMessages
    BY BoundAssumption
  <1> QED BY <1>1, EmptySeq DEF Init, Bounded

\* Reading moves pieces from the pipe to the store.
LEMMA ReadKeepsBounded ==
    ASSUME StreamInv, Bounded, Read
    PROVE  Bounded'
  <1>1. PICK n \in 0..Len(offer) : taken' = taken \o SubSeq(offer, 1, n) /\ Take(n)
    BY DEF Read
  <1>2. /\ UNCHANGED <<kind, reply, closed, stream, messages, sent>>
        /\ worker = "put" /\ offer # None
    BY DEF Read, client, outcome
  <1>3. /\ offer \in Seq(Pieces) /\ Len(offer) <= Len(sent) /\ taken \in Seq(Pieces)
        /\ taken \o offer = sent
    BY <1>2 DEF Bounded, StreamInv, DataInv
  <1>4. /\ Len(offer) \in Nat /\ Len(taken) \in Nat /\ Len(sent) \in Nat
        /\ \A i \in 1..Len(offer) : offer[i] \in Pieces
    BY <1>3, LenProperties, ElementOfSeq DEF Bounded
  <1>5. Len(sent) = Len(taken) + Len(offer)
    BY <1>3, ConcatProperties
  <1> DEFINE front == SubSeq(offer, 1, n)
             rest  == SubSeq(offer, n + 1, Len(offer))
  <1>6. front \in Seq(Pieces) /\ Len(front) = n
    <2>1. \A i \in 1..n : offer[i] \in Pieces
      BY <1>4
    <2> QED BY <2>1, <1>4, SubSeqProperties
  <1>7. rest \in Seq(Pieces) /\ Len(rest) <= Len(offer)
    <2>1. \A i \in (n + 1)..Len(offer) : offer[i] \in Pieces
      BY <1>4
    <2>2. /\ rest \in Seq(Pieces)
          /\ Len(rest) = IF n + 1 <= Len(offer) THEN Len(offer) - (n + 1) + 1 ELSE 0
      BY <2>1, <1>4, SubSeqProperties
    <2> HIDE DEF rest
    <2> QED BY <2>2, <1>4
  <1> HIDE DEF front, rest
  <1>8. taken \o front \in Seq(Pieces) /\ Len(taken \o front) = Len(taken) + Len(front)
    BY <1>3, <1>6, ConcatProperties
  <1>9. taken' \in Seq(Pieces) /\ Len(taken') <= Len(sent)
    BY <1>1, <1>4, <1>5, <1>6, <1>8 DEF front
  <1>10. offer' # None => offer' \in Seq(Pieces) /\ Len(offer') <= Len(sent)
    <2>1. offer' # None => offer' = rest
      BY <1>1 DEF Take, rest
    <2>2. Len(rest) <= Len(sent)
      BY <1>3, <1>4, <1>7, LenProperties
    <2> QED BY <1>7, <2>1, <2>2
  <1> QED BY <1>2, <1>9, <1>10 DEF Bounded

LEMMA BoundedNext == StreamInv /\ Bounded /\ [Next]_vars => Bounded'
  <1> SUFFICES ASSUME StreamInv, Bounded, [Next]_vars PROVE Bounded'
    OBVIOUS
  <1> USE DEF store, client, outcome
  <1>1. CASE ReceiveFirst \/ Receive
    <2>1. PICK n \in 0..MaxPieces :
              /\ sent' = sent \o Fresh(n)
              /\ offer' = offer \/ offer' = Fresh(n)
      BY <1>1 DEF ReceiveFirst, Receive, StartWrite
    <2>2. /\ messages < MaxMessages /\ messages' = messages + 1
          /\ UNCHANGED <<kind, reply, closed, stream, taken>>
      BY <1>1 DEF ReceiveFirst, Receive
    <2>3. /\ messages' \in 0..MaxMessages
          /\ Fresh(n) \in Seq(Pieces) /\ Len(Fresh(n)) = n
          /\ sent' \in Seq(Pieces)
          /\ Len(sent') = Len(sent) + n
          /\ Len(sent') <= messages' * MaxPieces
      BY <2>1, <2>2, MessageLemma
    <2>4. Len(sent) \in Nat /\ Len(taken) \in Nat /\ n \in Nat
      BY BoundAssumption, LenProperties DEF Bounded
    <2>5. Len(sent) <= Len(sent') /\ n <= Len(sent')
      BY <2>3, <2>4
    <2>6. Len(taken') <= Len(sent')
      BY <2>2, <2>3, <2>4, <2>5 DEF Bounded
    <2>7. offer' # None => offer' \in Seq(Pieces) /\ Len(offer') <= Len(sent')
      <3>1. CASE offer' = Fresh(n)
        BY <2>3, <2>5, <3>1
      <3>2. CASE offer' = offer
        <4>1. offer # None => Len(offer) \in Nat
          BY LenProperties DEF Bounded
        <4> QED BY <2>3, <2>4, <2>5, <3>2, <4>1 DEF Bounded
      <3> QED BY <2>1, <3>1, <3>2
    <2> QED BY <2>2, <2>3, <2>6, <2>7 DEF Bounded
  <1>2. CASE Read
    BY <1>2, ReadKeepsBounded
  <1>3. CASE EndFirst \/ RefuseFirst \/ EndReceive \/ AnswerClient
    BY <1>3 DEF EndFirst, RefuseFirst, EndReceive, AnswerClient, Bounded
  <1>4. CASE WriteReturns \/ Prepare \/ PutReturns \/ PutFails \/ Record \/ Reread
    BY <1>4 DEF WriteReturns, Prepare, PutReturns, PutFails, Record, Reread, GiveUp, Bounded
  <1>5. CASE Drain
    BY <1>5 DEF Drain, Bounded
  <1>6. CASE UNCHANGED vars
    BY <1>6 DEF vars, Bounded
  <1> QED
    BY <1>1, <1>2, <1>3, <1>4, <1>5, <1>6 DEF Next, Handler, Worker

\* Every variable stays in its type, and the client's data, what lies in the pipe
\* and what the store holds within the bounds of messages and pieces (CreateFile
\* and UpdateFileContent, service.go:159-345).
THEOREM StreamTypesCorrect == Spec => []TypeOK
  <1>1. StreamInv /\ Bounded => TypeOK
    <2> SUFFICES ASSUME StreamInv, Bounded PROVE TypeOK
      OBVIOUS
    <2>1. Len(sent) \in Nat
      BY LenProperties DEF Bounded
    <2>2. sent \in Data /\ taken \in Data /\ (offer # None => offer \in Data)
      BY <2>1, DataLemma DEF Bounded
    <2>3. recorded # None => recorded = sent
      BY DEF StreamInv, DataInv
    <2> QED BY <2>2, <2>3 DEF TypeOK, StreamInv, Typed, Bounded
  <1> QED BY <1>1, StreamInit, StreamNext, BoundedInit, BoundedNext, PTL DEF Spec
(***************************************************************************)
(* Who waits for whom.  The provers know no ENABLED, so the guards of the   *)
(* handler's and the goroutine's steps are written out.                     *)
(***************************************************************************)

HandlerMoves ==
    \/ handler = "first"                                  \* EndFirst
    \/ handler = "receive"                                \* EndReceive
    \/ handler = "write" /\ offer = None                  \* WriteReturns
    \/ handler = "wait" /\ worker \in {"failed", "finished"}   \* AnswerClient

WorkerMoves ==
    \/ worker = "starting"                                \* Prepare
    \/ worker = "put" /\ offer # None                     \* Read
    \/ worker = "put" /\ offer = None /\ closed # "open"  \* PutReturns
    \/ worker \in {"record", "reread"}                    \* Record, Reread
    \/ worker = "drain" /\ (offer # None \/ closed # "open")   \* Drain

\* The handler waits for its goroutine only behind a pipe it has closed, and the
\* goroutine of an update gives up only behind a closed pipe.
WaitInv ==
    /\ kind \in {"create", "update"}
    /\ handler = "wait" => closed # "open"
    /\ kind = "update" /\ worker = "failed" => closed # "open"

LEMMA WaitNext == StreamInv /\ WaitInv /\ [Next]_vars => WaitInv'
  <1> SUFFICES ASSUME StreamInv, WaitInv, [Next]_vars PROVE WaitInv'
    OBVIOUS
  <1> USE DEF WaitInv, store, client, outcome
  <1>1. CASE ReceiveFirst \/ EndFirst \/ RefuseFirst \/ Receive \/ WriteReturns
    BY <1>1 DEF ReceiveFirst, EndFirst, RefuseFirst, Receive, WriteReturns, StartWrite,
       StreamInv, HandlerInv
  <1>2. CASE EndReceive \/ AnswerClient
    BY <1>2 DEF EndReceive, AnswerClient
  <1>3. CASE Prepare \/ Read \/ PutReturns \/ PutFails \/ Record \/ Reread \/ Drain
    BY <1>3 DEF Prepare, Read, PutReturns, PutFails, Record, Reread, Drain, GiveUp
  <1>4. CASE UNCHANGED vars
    BY <1>4 DEF vars
  <1> QED
    BY <1>1, <1>2, <1>3, <1>4 DEF Next, Handler, Worker

\* An unanswered upload can always move, handler or goroutine, except a CreateFile
\* whose putFile has failed while the handler is in a Write (service.go:159-246,
\* without the drain of service.go:300-304).
THEOREM OnlyCreatesGetStuck ==
    Spec => [](handler = "answered" \/ HandlerMoves \/ WorkerMoves
               \/ (/\ kind = "create" /\ worker = "failed"
                   /\ handler = "write" /\ offer # None))
  <1> DEFINE Stuck == /\ kind = "create" /\ worker = "failed"
                      /\ handler = "write" /\ offer # None
             Alive == handler = "answered" \/ HandlerMoves \/ WorkerMoves \/ Stuck
  <1>1. Init => WaitInv
    BY KindAssumption DEF Init, WaitInv
  <1>2. StreamInv /\ WaitInv => Alive
    BY DEF StreamInv, Typed, HandlerInv, DataInv, WaitInv, HandlerMoves, WorkerMoves
  <1> QED
    BY <1>1, <1>2, StreamInit, StreamNext, WaitNext, PTL DEF Spec

(***************************************************************************)
(* The refinement.  Pipe and goroutine are inner steps; what shows is what  *)
(* the handler receives and answers, and the row.                           *)
(***************************************************************************)

\* What the handler has seen of the stream's end, at each of its points.
EndInv ==
    /\ handler = "first" => stream = "open" /\ recorded = None /\ err = "nil"
    /\ handler \in {"receive", "write"} => stream \in {"open", "eof"}

LEMMA EndNext == StreamInv /\ EndInv /\ [Next]_vars => EndInv'
  <1> SUFFICES ASSUME StreamInv, EndInv, [Next]_vars PROVE EndInv'
    OBVIOUS
  <1> USE DEF EndInv, store, client, outcome
  <1>1. CASE ReceiveFirst \/ EndFirst \/ RefuseFirst \/ Receive \/ WriteReturns
    BY <1>1 DEF ReceiveFirst, EndFirst, RefuseFirst, Receive, WriteReturns, StartWrite
  <1>2. CASE EndReceive \/ AnswerClient
    BY <1>2 DEF EndReceive, AnswerClient
  <1>3. CASE Prepare \/ Read \/ PutReturns \/ PutFails \/ Record \/ Reread \/ Drain
    BY <1>3 DEF Prepare, Read, PutReturns, PutFails, Record, Reread, Drain, StreamInv,
       HandlerInv
  <1>4. CASE UNCHANGED vars
    BY <1>4 DEF vars
  <1> QED
    BY <1>1, <1>2, <1>3, <1>4 DEF Next, Handler, Worker

\* What was there stays at the front.
LEMMA PrefixLemma ==
    ASSUME NEW s \in Seq(Nat), NEW t \in Seq(Nat)
    PROVE  Len(s) <= Len(s \o t) /\ SubSeq(s \o t, 1, Len(s)) = s
  <1> DEFINE u == s \o t
             front == SubSeq(u, 1, Len(s))
  <1>1. /\ Len(s) \in Nat /\ Len(t) \in Nat
        /\ \A i \in 1..Len(s) : s[i] \in Nat
    BY LenProperties, ElementOfSeq
  <1>2. /\ u \in Seq(Nat) /\ Len(u) = Len(s) + Len(t)
        /\ \A i \in 1..(Len(s) + Len(t)) : u[i] = IF i <= Len(s) THEN s[i] ELSE t[i - Len(s)]
    BY ConcatNat, Zenon
  <1> HIDE DEF u
  <1>3. \A i \in 1..Len(s) : u[i] = s[i] /\ u[i] \in Nat
    BY <1>1, <1>2
  <1>4. /\ front \in Seq(Nat) /\ Len(front) = Len(s)
        /\ \A i \in 1..Len(s) : front[i] = u[i]
    <2>1. \A i \in 1..Len(s) : u[i] \in Nat
      BY <1>3
    <2> QED BY <2>1, <1>1, <1>2, SubSeqProperties
  <1> HIDE DEF front
  <1>5. front = s
    BY <1>3, <1>4, SeqEqual
  <1>6. Len(s) <= Len(u)
    BY <1>1, <1>2
  <1> QED BY <1>5, <1>6 DEF front, u

LEMMA UploadStep ==
    ASSUME StreamInv, EndInv, Next
    PROVE  Abstract!Next \/ UNCHANGED Abstract!vars
  <1> USE DEF store, client, outcome, Abstract!vars
  <1>1. ASSUME ReceiveFirst \/ Receive PROVE Abstract!Receive
    <2>1. PICK n \in 0..MaxPieces : sent' = sent \o Fresh(n)
      BY <1>1 DEF ReceiveFirst, Receive
    <2>2. n \in Nat
      BY BoundAssumption
    <2>3. sent \in Seq(Nat) /\ Fresh(n) \in Seq(Nat)
      BY <2>2, FreshLemma DEF StreamInv, Typed
    <2>4. Len(sent) <= Len(sent') /\ SubSeq(sent', 1, Len(sent)) = sent
      BY <2>1, <2>3, PrefixLemma
    <2>5. stream = "open" /\ reply = None /\ UNCHANGED <<stream, recorded, err, reply>>
      BY <1>1 DEF ReceiveFirst, Receive, EndInv, StreamInv, HandlerInv
    <2> QED BY <2>4, <2>5 DEF Abstract!Receive
  <1>2. ASSUME EndFirst PROVE Abstract!End \/ Abstract!Refuse
    BY <1>2 DEF EndFirst, Abstract!End, Abstract!Refuse, EndInv, StreamInv, HandlerInv
  <1>3. ASSUME RefuseFirst PROVE Abstract!Answer \/ Abstract!Refuse
    BY <1>3 DEF RefuseFirst, Abstract!Answer, Abstract!Refuse, EndInv, StreamInv, HandlerInv
  <1>4. ASSUME EndReceive PROVE Abstract!End \/ UNCHANGED Abstract!vars
    BY <1>4 DEF EndReceive, Abstract!End, EndInv, StreamInv, HandlerInv
  <1>5. ASSUME AnswerClient PROVE Abstract!Answer
    <2>1. worker = "failed" => err # "nil"
      BY DEF StreamInv, DataInv
    <2>2. worker = "finished" => recorded # None /\ err = "nil" /\ stream # "error"
      BY DEF StreamInv, DataInv, HandlerInv
    <2>3. reply' = IF recorded = None \/ err # "nil" THEN "error" ELSE "ok"
      BY <1>5, <2>1, <2>2 DEF AnswerClient
    <2> QED BY <1>5, <2>3 DEF AnswerClient, Abstract!Answer, StreamInv, HandlerInv
  <1>6. ASSUME Record PROVE Abstract!Store \/ UNCHANGED Abstract!vars
    <2>1. /\ recorded = None /\ taken = sent /\ stream = "eof" /\ reply = None
          /\ UNCHANGED <<sent, stream, reply>>
      BY <1>6 DEF Record, StreamInv, DataInv, HandlerInv, AnswerInv, Typed
    <2>2. CASE recorded' = sent
      <3>1. (recorded' # None /\ err' # "nil") \in BOOLEAN
        OBVIOUS
      <3> QED BY <2>1, <2>2, <3>1 DEF Abstract!Store
    <2>3. CASE recorded' = recorded
      BY <2>1, <2>3
    <2> QED BY <1>6, <2>1, <2>2, <2>3 DEF Record
  <1>7. ASSUME Reread PROVE Abstract!LoseSight \/ UNCHANGED Abstract!vars
    <2>1. /\ recorded # None /\ err = "nil" /\ reply = None
          /\ UNCHANGED <<sent, stream, recorded, reply>>
      BY <1>7 DEF Reread, StreamInv, DataInv, HandlerInv, AnswerInv, Typed
    <2>2. err' = "nil" \/ err' = "reread"
      BY <1>7, <2>1 DEF Reread, GiveUp
    <2> QED BY <2>1, <2>2 DEF Abstract!LoseSight
  <1>8. ASSUME WriteReturns \/ Read PROVE UNCHANGED Abstract!vars
    BY <1>8 DEF WriteReturns, Read
  <1>9. ASSUME Prepare \/ PutReturns \/ PutFails \/ Drain PROVE UNCHANGED Abstract!vars
    <2>1. UNCHANGED <<sent, stream, recorded, reply>>
      BY <1>9 DEF Prepare, PutReturns, PutFails, Drain
    <2>2. err' = err \/ recorded = None
      BY <1>9 DEF Prepare, PutReturns, PutFails, Drain, StreamInv, DataInv
    <2> QED BY <2>1, <2>2
  <1> QED
    BY <1>1, <1>2, <1>3, <1>4, <1>5, <1>6, <1>7, <1>8, <1>9
       DEF Next, Handler, Worker, Abstract!Next

\* An upload is what Upload says, whatever happens between handler, pipe and
\* goroutine: data come in until the stream ends, the file is recorded once at most
\* and with all of them, and the answer comes last, success exactly when the file was
\* recorded and the database did not report an error (service.go:159-345).
THEOREM StreamsImplementUpload == Spec => ImplementsUpload
  <1>1. Init => Abstract!Init /\ EndInv
    BY DEF Init, Abstract!Init, EndInv
  <1>2. StreamInv /\ EndInv /\ [Next]_vars => [Abstract!Next]_(Abstract!vars)
    <2> SUFFICES ASSUME StreamInv, EndInv, [Next]_vars
                 PROVE  Abstract!Next \/ UNCHANGED Abstract!vars
      OBVIOUS
    <2>1. CASE UNCHANGED vars
      BY <2>1 DEF vars, Abstract!vars
    <2> QED BY <2>1, UploadStep
  <1> QED
    BY <1>1, <1>2, StreamInit, StreamNext, EndNext, PTL
       DEF Spec, ImplementsUpload, Abstract!Spec

(***************************************************************************)
(* How long an upload can take.  Left bounds the steps that are left: each  *)
(* message brings a Write and the steps around it, each Write is read in    *)
(* as many steps as it has pieces, and otherwise handler and goroutine only *)
(* go on.                                                                   *)
(***************************************************************************)

LeftOfHandler ==
    [first |-> 4, write |-> 3, receive |-> 2, wait |-> 1, answered |-> 0][handler]

LeftOfWorker ==
    [unborn |-> 7, starting |-> 6, put |-> 5, record |-> 4, reread |-> 3,
     drain |-> 2, failed |-> 1, finished |-> 0][worker]

LeftOfOffer == IF offer = None THEN 0 ELSE Len(offer) + 1

\* For what was received, and for the messages still to come.
AtHand == LeftOfOffer + LeftOfHandler + LeftOfWorker
Ahead  == (MaxMessages - messages) * (MaxPieces + 3)

Left == Ahead + AtHand

\* Every step of the two goroutines of CreateFile leaves fewer steps to come
\* (service.go:159-345).
StepsRunOut == [][Left' < Left /\ Left' \in Nat /\ Left \in Nat]_vars

Counts ==
    /\ LeftOfOffer \in Nat /\ LeftOfHandler \in Nat /\ LeftOfWorker \in Nat
    /\ AtHand \in Nat

LEMMA AtHandIsNat == StreamInv => Counts
  <1> SUFFICES ASSUME StreamInv PROVE Counts
    OBVIOUS
  <1>1. LeftOfOffer \in Nat
    BY LenProperties DEF LeftOfOffer, StreamInv, Typed
  <1>2. LeftOfHandler \in Nat
    BY DEF LeftOfHandler, StreamInv, Typed
  <1>3. LeftOfWorker \in Nat
    BY DEF LeftOfWorker, StreamInv, Typed
  <1> QED BY <1>1, <1>2, <1>3 DEF AtHand, Counts

LEMMA AheadIsNat == Bounded => (Ahead \in Nat)
  <1> SUFFICES ASSUME Bounded PROVE Ahead \in Nat
    OBVIOUS
  <1>1. PICK m \in Nat, q \in Nat : m = MaxMessages - messages /\ q = MaxPieces + 3
    BY BoundAssumption DEF Bounded
  <1> QED BY <1>1 DEF Ahead

\* One message fewer leaves MaxPieces + 3 steps for what the message brings.
LEMMA MessagesLemma ==
    ASSUME Bounded, messages < MaxMessages
    PROVE  (MaxMessages - (messages + 1)) * (MaxPieces + 3) + (MaxPieces + 3)
               = (MaxMessages - messages) * (MaxPieces + 3)
  <1>1. PICK m \in Nat, q \in Nat : m = MaxMessages - messages /\ q = MaxPieces + 3
    BY BoundAssumption DEF Bounded
  <1>2. MaxMessages - (messages + 1) = m - 1
    BY <1>1, BoundAssumption DEF Bounded
  <1>3. (m - 1) * q + q = m * q
    BY <1>1
  <1> QED BY <1>1, <1>2, <1>3

\* The pieces of a message.
LEMMA FreshLength == ASSUME NEW n \in Nat PROVE Len(Fresh(n)) = n
  BY DEF Fresh

\* What each step does to the three parts.
LEMMA PartsFall ==
    ASSUME StreamInv, Bounded, Next
    PROVE  \/ /\ messages' = messages
              /\ \/ /\ LeftOfHandler' < LeftOfHandler /\ LeftOfOffer' = LeftOfOffer
                    /\ \/ LeftOfWorker' = LeftOfWorker
                       \/ LeftOfWorker' = 6 /\ LeftOfWorker = 7
                 \/ /\ LeftOfHandler' = LeftOfHandler
                    /\ \/ LeftOfOffer' < LeftOfOffer /\ LeftOfWorker' = LeftOfWorker
                       \/ LeftOfOffer' = LeftOfOffer /\ LeftOfWorker' < LeftOfWorker
           \/ /\ messages < MaxMessages /\ messages' = messages + 1
              /\ LeftOfOffer = 0 /\ LeftOfOffer' \in 0..(MaxPieces + 1)
              /\ \/ /\ LeftOfHandler = 4 /\ LeftOfHandler' \in {2, 3}
                    /\ LeftOfWorker = 7 /\ LeftOfWorker' = 6
                 \/ /\ LeftOfHandler = 2 /\ LeftOfHandler' = 3
                    /\ LeftOfWorker' = LeftOfWorker
  <1> USE DEF store, client, outcome, LeftOfHandler, LeftOfWorker, LeftOfOffer
  <1>1. CASE ReceiveFirst
    <2>1. /\ handler = "first" /\ worker = "unborn" /\ offer = None /\ worker' = "starting"
          /\ messages < MaxMessages /\ messages' = messages + 1
      BY <1>1 DEF ReceiveFirst, StreamInv, HandlerInv
    <2>2. PICK n \in 0..MaxPieces :
              \/ handler' = "receive" /\ offer' = None
              \/ handler' = "write" /\ offer' = Fresh(n)
      BY <1>1, <2>1 DEF ReceiveFirst, StartWrite
    <2>3. Len(Fresh(n)) = n
      BY BoundAssumption, FreshLength
    <2> QED BY BoundAssumption, <2>1, <2>2, <2>3
  <1>2. CASE Receive
    <2>1. /\ handler = "receive" /\ offer = None /\ worker' = worker
          /\ messages < MaxMessages /\ messages' = messages + 1
      BY <1>2 DEF Receive, StreamInv, HandlerInv
    <2>2. PICK n \in 0..MaxPieces : handler' = "write" /\ offer' = Fresh(n)
      BY <1>2 DEF Receive, StartWrite
    <2>3. Len(Fresh(n)) = n
      BY BoundAssumption, FreshLength
    <2> QED BY BoundAssumption, <2>1, <2>2, <2>3
  <1>3. CASE EndFirst
    BY <1>3 DEF EndFirst, StreamInv, HandlerInv
  <1>4. CASE RefuseFirst
    BY <1>4 DEF RefuseFirst
  <1>5. CASE WriteReturns
    BY <1>5 DEF WriteReturns
  <1>6. CASE EndReceive
    BY <1>6 DEF EndReceive
  <1>7. CASE AnswerClient
    BY <1>7 DEF AnswerClient
  <1>8. CASE Prepare
    BY <1>8 DEF Prepare, GiveUp
  <1>9. CASE PutReturns
    BY <1>9 DEF PutReturns, GiveUp
  <1>10. CASE PutFails
    BY <1>10 DEF PutFails, GiveUp
  <1>11. CASE Record
    BY <1>11 DEF Record, GiveUp
  <1>12. CASE Read
    <2>1. /\ UNCHANGED <<messages, handler, worker>>
          /\ offer \in Seq(Nat) /\ offer # None
      BY <1>12 DEF Read, StreamInv, Typed
    <2>2. PICK n \in 0..Len(offer) : (n > 0 \/ offer = <<>>) /\ Take(n)
      BY <1>12 DEF Read
    <2>3. Len(offer) \in Nat /\ (offer = <<>> => Len(offer) = 0)
      BY <2>1, LenProperties, EmptySeq
    <2>4. CASE n = Len(offer)
      BY <2>1, <2>2, <2>3, <2>4 DEF Take
    <2>5. CASE n # Len(offer)
      <3>1. 0 < n /\ offer' = SubSeq(offer, n + 1, Len(offer))
        BY <2>2, <2>3, <2>5 DEF Take
      <3>2. \A i \in (n + 1)..Len(offer) : offer[i] \in Nat
        BY <2>1, <2>3, ElementOfSeq
      <3>3. /\ offer' \in Seq(Nat)
            /\ Len(offer') = IF n + 1 <= Len(offer) THEN Len(offer) - (n + 1) + 1 ELSE 0
        BY <2>1, <2>3, <3>1, <3>2, SubSeqProperties
      <3>4. offer' # None /\ Len(offer') < Len(offer) /\ Len(offer') \in Nat
        <4>1. PICK k \in Nat, l \in Nat : k = n /\ l = Len(offer)
          BY <2>3
        <4>2. Len(offer') = l - k /\ l - k \in Nat /\ l - k < l
          BY <2>3, <2>5, <3>1, <3>3, <4>1
        <4> QED BY <3>3, <4>1, <4>2, NoneAssumption
      <3> QED BY <2>1, <2>3, <3>4
    <2> QED BY <2>4, <2>5
  <1>13. CASE Reread
    BY <1>13 DEF Reread, GiveUp
  <1>14. CASE Drain
    <2>1. offer # None => Len(offer) \in Nat
      BY LenProperties DEF StreamInv, Typed
    <2> QED BY <1>14, <2>1 DEF Drain
  <1> QED
    BY <1>1, <1>2, <1>3, <1>4, <1>5, <1>6, <1>7, <1>8, <1>9, <1>10, <1>11, <1>12,
       <1>13, <1>14 DEF Next, Handler, Worker

LEMMA AtHandFalls ==
    ASSUME StreamInv, StreamInv', Bounded, Next
    PROVE  \/ messages' = messages /\ AtHand' < AtHand
           \/ /\ messages < MaxMessages /\ messages' = messages + 1
              /\ AtHand' < AtHand + (MaxPieces + 3)
  <1>1. Counts /\ Counts'
    BY AtHandIsNat, PTL
  <1>2. PICK o \in Nat, h \in Nat, w \in Nat, oo \in Nat, hh \in Nat, ww \in Nat,
             p \in Nat :
            /\ o = LeftOfOffer /\ h = LeftOfHandler /\ w = LeftOfWorker
            /\ oo = LeftOfOffer' /\ hh = LeftOfHandler' /\ ww = LeftOfWorker'
            /\ p = MaxPieces
    BY <1>1, BoundAssumption DEF Counts
  <1>3. AtHand = o + h + w /\ AtHand' = oo + hh + ww
    BY <1>2 DEF AtHand
  <1>4. \/ /\ messages' = messages
           /\ \/ hh < h /\ oo = o /\ (ww = w \/ (ww = 6 /\ w = 7))
              \/ hh = h /\ ((oo < o /\ ww = w) \/ (oo = o /\ ww < w))
        \/ /\ messages < MaxMessages /\ messages' = messages + 1
           /\ o = 0 /\ oo \in 0..(p + 1)
           /\ \/ h = 4 /\ hh \in {2, 3} /\ w = 7 /\ ww = 6
              \/ h = 2 /\ hh = 3 /\ ww = w
    BY <1>2, PartsFall
  <1>5. \/ messages' = messages /\ oo + hh + ww < o + h + w
        \/ /\ messages < MaxMessages /\ messages' = messages + 1
           /\ oo + hh + ww < o + h + w + (p + 3)
    BY <1>4
  <1> QED BY <1>2, <1>3, <1>5

\* Every step of an upload leaves fewer to come: no upload goes on for ever, however
\* its messages are cut and read and whatever fails.  With OnlyCreatesGetStuck this
\* says that every update is answered as long as its goroutines run (service.go:159-345).
THEOREM UploadsEnd == Spec => StepsRunOut
  <1>1. StreamInv /\ Bounded /\ StreamInv' /\ Bounded' /\ [Next]_vars
            => [Left' < Left /\ Left' \in Nat /\ Left \in Nat]_vars
    <2> SUFFICES ASSUME StreamInv, Bounded, StreamInv', Bounded', Next
                 PROVE  Left' < Left /\ Left' \in Nat /\ Left \in Nat
      OBVIOUS
    <2>1. Counts /\ Counts' /\ (Ahead \in Nat) /\ (Ahead \in Nat)'
      BY AtHandIsNat, AheadIsNat, PTL
    <2>2. PICK a \in Nat, n \in Nat, aa \in Nat, nn \in Nat, p \in Nat :
              /\ a = Ahead /\ n = AtHand /\ aa = Ahead' /\ nn = AtHand' /\ p = MaxPieces
      BY <2>1, BoundAssumption DEF Counts
    <2>3. Left = a + n /\ Left' = aa + nn
      BY <2>2 DEF Left
    <2>4. \/ aa = a /\ nn < n
          \/ aa + (p + 3) = a /\ nn < n + (p + 3)
      <3>1. messages' = messages => aa = a
        BY <2>2 DEF Ahead
      <3>2. messages < MaxMessages /\ messages' = messages + 1 => aa + (p + 3) = a
        BY <2>2, MessagesLemma DEF Ahead
      <3> QED BY <2>2, <3>1, <3>2, AtHandFalls
    <2>5. aa + nn < a + n
      BY <2>4
    <2> QED BY <2>3, <2>5
  <1> QED
    BY <1>1, StreamInit, StreamNext, BoundedInit, BoundedNext, PTL DEF Spec, StepsRunOut
=============================================================================
