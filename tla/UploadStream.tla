---------------------------- MODULE UploadStream ----------------------------
(***************************************************************************)
(* One streaming upload: CreateFile and UpdateFileContent of service.go.    *)
(*                                                                         *)
(* The handler receives the client's messages and writes their data to an   *)
(* io.Pipe; a second goroutine, the worker, runs putFile or replaceFile on  *)
(* the pipe's other end.  The pipe has no buffer: a Write returns when all  *)
(* of its data was read, and nothing else ends it, because neither          *)
(* goroutine ever closes the reader (so Write never fails, and the          *)
(* handler's branches for its error never run).                             *)
(*                                                                         *)
(* FileService has the stores and the database in detail.  Here a call of   *)
(* theirs succeeds or fails, or takes effect and is reported as failed, and *)
(* what matters is when, on which side of the pipe, and who is waiting.     *)
(***************************************************************************)
EXTENDS Naturals, Sequences

CONSTANTS
    Kinds,        \* the handlers modelled: "create", "update"
    MaxMessages,  \* bound: messages with content a client sends
    MaxPieces,    \* bound: pieces of data in one message
    Faults,       \* "stream_error", "early_error", "store_error", "db_error"
    None          \* no data

ASSUME KindAssumption == Kinds \subseteq {"create", "update"}
ASSUME BoundAssumption == MaxMessages \in Nat /\ MaxPieces \in Nat
ASSUME NoneAssumption == None \notin Seq(Nat)

VARIABLES
    kind,      \* which handler runs
    handler,   \* where the handler is
    worker,    \* where the goroutine is
    offer,     \* the data of the Write in progress that was not read yet
    closed,    \* what the reader finds behind the last Write
    stream,    \* what the handler has seen of the end of the client's stream
    messages,  \* how many messages with content it has received
    sent,      \* the data received from the client, in order
    taken,     \* the data the store has read from the pipe, in order
    recorded,  \* the content a row was written for
    err,       \* the call of the goroutine whose error it returns, or "nil"
    reply

vars == <<kind, handler, worker, offer, closed, stream, messages, sent, taken,
          recorded, err, reply>>

client  == <<stream, messages, sent>>
store   == <<taken, recorded, err>>
outcome == <<kind, reply>>

\* Pieces of data are numbered in the order the client sends them.
Pieces == 1..(MaxMessages * MaxPieces)
Data   == UNION {[1..n -> Pieces] : n \in 0..(MaxMessages * MaxPieces)}

TypeOK ==
    /\ kind \in Kinds
    /\ handler \in {"first", "receive", "write", "wait", "answered"}
    /\ worker \in {"unborn", "starting", "put", "record", "reread", "drain", "failed",
                   "finished"}
    /\ offer \in Data \cup {None}
    /\ closed \in {"open", "eof", "error"} /\ stream \in {"open", "eof", "error"}
    /\ messages \in 0..MaxMessages
    /\ sent \in Data /\ taken \in Data /\ recorded \in Data \cup {None}
    /\ err \in {"nil", "prepare", "put", "record", "reread"}
    /\ reply \in {None, "ok", "error"}

Init ==
    /\ kind \in Kinds
    /\ handler = "first" /\ worker = "unborn"
    /\ offer = None /\ closed = "open"
    /\ stream = "open" /\ messages = 0
    /\ sent = <<>> /\ taken = <<>> /\ recorded = None
    /\ err = "nil" /\ reply = None

----------------------------------------------------------------------------
(* The handler                                                              *)

\* The next n pieces of the client's data.
Fresh(n) == [j \in 1..n |-> Len(sent) + j]

\* pw.Write: the handler waits until the data is read.
StartWrite(data) == handler' = "write" /\ offer' = data

\* The first message with content starts the goroutine; data that comes with it
\* is written at once, and no Write is made when it is empty.  Messages without
\* content are skipped.
ReceiveFirst ==
    /\ handler = "first" /\ messages < MaxMessages
    /\ \E n \in 0..MaxPieces :
        /\ sent' = sent \o Fresh(n)
        /\ IF n = 0 THEN handler' = "receive" /\ UNCHANGED offer
                    ELSE StartWrite(Fresh(n))
    /\ messages' = messages + 1
    /\ worker' = "starting"
    /\ UNCHANGED <<closed, stream, store, outcome>>

\* The stream ends before any content.  UpdateFileContent refuses: it has no id.
\* CreateFile goes on and stores an empty file.
EndFirst ==
    /\ handler = "first"
    /\ stream' = "eof"
    /\ IF kind = "create"
       THEN handler' = "receive" /\ worker' = "starting" /\ UNCHANGED reply
       ELSE handler' = "answered" /\ reply' = "error" /\ UNCHANGED worker
    /\ UNCHANGED <<kind, offer, closed, messages, sent, store>>

\* The stream breaks, or the content type or the id is refused, before the
\* goroutine is started.
RefuseFirst ==
    /\ handler = "first"
    /\ stream' \in {"open"} \cup {e \in {"error"} : "stream_error" \in Faults}
    /\ handler' = "answered" /\ reply' = "error"
    /\ UNCHANGED <<kind, worker, offer, closed, messages, sent, store>>

\* Mutant: data are still received behind the end of the stream.
ReceiveBehindTheEnd ==
    /\ handler = "receive" /\ messages < MaxMessages
    /\ \E n \in 0..MaxPieces :
        /\ sent' = sent \o Fresh(n)
        /\ StartWrite(Fresh(n))
    /\ messages' = messages + 1
    /\ UNCHANGED <<worker, closed, stream, store, outcome>>

\* Here an empty message is written too: a Write of no data waits for a reader.
Receive ==
    /\ handler = "receive" /\ stream = "open" /\ messages < MaxMessages
    /\ \E n \in 0..MaxPieces :
        /\ sent' = sent \o Fresh(n)
        /\ StartWrite(Fresh(n))
    /\ messages' = messages + 1
    /\ UNCHANGED <<worker, closed, stream, store, outcome>>

WriteReturns ==
    /\ handler = "write" /\ offer = None
    /\ handler' = "receive"
    /\ UNCHANGED <<worker, offer, closed, client, store, outcome>>

\* Mutant: a broken stream closes the pipe as a complete one does.
EndReceiveAlike ==
    /\ handler = "receive"
    /\ stream' \in {"eof"} \cup {e \in {"error"} : stream = "open"}
    /\ closed' = "eof"
    /\ handler' = "wait"
    /\ UNCHANGED <<worker, offer, messages, sent, store, outcome>>

\* The end of the stream, or its failure, reaches the reader as it is.
EndReceive ==
    /\ handler = "receive"
    /\ stream' \in {"eof"} \cup {e \in {"error"} : stream = "open"
                                                  /\ "stream_error" \in Faults}
    /\ closed' = stream'
    /\ handler' = "wait"
    /\ UNCHANGED <<worker, offer, messages, sent, store, outcome>>

\* Mutant: the handler answers without waiting for the goroutine.
AnswerAtOnce ==
    /\ handler = "wait"
    /\ handler' = "answered"
    /\ reply' = IF stream = "error" \/ err # "nil" THEN "error" ELSE "ok"
    /\ UNCHANGED <<kind, worker, offer, closed, client, store>>

\* <-done, and the error of the stream or of the goroutine, if there is one
\* (putResult.err, updateErr).
AnswerClient ==
    /\ handler = "wait" /\ worker \in {"failed", "finished"}
    /\ handler' = "answered"
    /\ reply' = IF stream = "error" \/ err # "nil" THEN "error" ELSE "ok"
    /\ UNCHANGED <<kind, worker, offer, closed, client, store>>

----------------------------------------------------------------------------
(* The goroutine                                                            *)

\* Mutant: UpdateFileContent's goroutine does not drain the pipe either.
LeaveThePipe(call) == err' = call /\ worker' = "failed"

\* A call fails.  A failed replaceFile drains the pipe, a failed putFile leaves it.
GiveUp(call) ==
    err' = call /\ worker' = IF kind = "update" THEN "drain" ELSE "failed"

\* Before the store is called: drawing an id, or ownership and If-Match.
Prepare ==
    /\ worker = "starting"
    /\ \/ worker' = "put" /\ UNCHANGED err
       \/ "early_error" \in Faults /\ GiveUp("prepare")
    /\ UNCHANGED <<handler, offer, closed, client, taken, recorded, outcome>>

\* Mutant: the last piece read is offered again.
TakeAgain(n) ==
    offer' = IF n = 0 THEN None ELSE SubSeq(offer, n, Len(offer))

\* The reader takes n pieces of the Write in progress, and ends it with the last.
Take(n) ==
    offer' = IF n = Len(offer) THEN None ELSE SubSeq(offer, n + 1, Len(offer))

\* store.Put reads what its buffer holds; a Write of nothing is read as nothing.
Read ==
    /\ worker = "put" /\ offer # None
    /\ \E n \in 0..Len(offer) :
        /\ n > 0 \/ offer = <<>>
        /\ taken' = taken \o SubSeq(offer, 1, n)
        /\ Take(n)
    /\ UNCHANGED <<handler, worker, closed, client, recorded, err, outcome>>

\* store.Put meets the end of the pipe: it has the whole content, or fails.
PutReturns ==
    /\ worker = "put" /\ offer = None
    /\ \/ closed = "eof" /\ worker' = "record" /\ UNCHANGED err
       \/ closed = "error" /\ GiveUp("put")
    /\ UNCHANGED <<handler, offer, closed, client, taken, recorded, outcome>>

\* store.Put fails by itself, at any moment.
PutFails ==
    /\ worker = "put" /\ "store_error" \in Faults
    /\ GiveUp("put")
    /\ UNCHANGED <<handler, offer, closed, client, taken, recorded, outcome>>

\* The database write that makes the content the file's.  When it is reported as
\* failed the row may have been written: the statement was committed and its answer
\* lost.  (putFile then erases the bytes; FileService has what becomes of the two.)
Record ==
    /\ worker = "record"
    /\ \/ /\ recorded' = taken
          /\ worker' = IF kind = "update" THEN "reread" ELSE "finished"
          /\ UNCHANGED err
       \/ /\ "db_error" \in Faults
          /\ recorded' \in {recorded, taken}
          /\ GiveUp("record")
    /\ UNCHANGED <<handler, offer, closed, client, taken, outcome>>

\* replaceFile reads the row it has written, for the answer.  The read fails, or the
\* file was deleted meanwhile: the content stays recorded.
Reread ==
    /\ worker = "reread"
    /\ \/ worker' = "finished" /\ UNCHANGED err
       \/ "db_error" \in Faults /\ GiveUp("reread")
    /\ UNCHANGED <<handler, offer, closed, client, taken, recorded, outcome>>

\* io.Copy(io.Discard, pr)
Drain ==
    /\ worker = "drain"
    /\ IF offer # None
       THEN offer' = None /\ UNCHANGED worker
       ELSE closed # "open" /\ worker' = "failed" /\ UNCHANGED offer
    /\ UNCHANGED <<handler, closed, client, store, outcome>>

----------------------------------------------------------------------------
Handler ==
    ReceiveFirst \/ EndFirst \/ RefuseFirst \/ Receive \/ WriteReturns
    \/ EndReceive \/ AnswerClient

Worker ==
    Prepare \/ Read \/ PutReturns \/ PutFails \/ Record \/ Reread \/ Drain

Next == Handler \/ Worker

\* The Go scheduler runs both goroutines; a stream delivers another message, its
\* end or its failure in the end.
Fairness == WF_vars(Handler) /\ WF_vars(Worker)

Spec == Init /\ [][Next]_vars /\ Fairness

----------------------------------------------------------------------------
(* Properties                                                               *)

\* A file's row is written only for the content of a stream the client ended
\* itself, all of it and in order: a connection that breaks in the middle never
\* leaves a shorter file that looks complete (pw.CloseWithError, service.go:226).
RecordedIsWhole ==
    recorded # None => stream = "eof" /\ recorded = sent

\* The handler answers only when its goroutine is gone, which uses the request's
\* context and writes the result the handler reads.  Success means that the row was
\* written.  An error means that it was not, unless the error is the database's own,
\* about the write or, in an update, about reading the row after it
\* (service.go:99-105, 127-130): a broken stream, a refused check and a failed store
\* leave no row behind.
AnswerIsTrue ==
    handler = "answered" =>
        /\ worker \in {"unborn", "failed", "finished"}
        /\ reply \in {"ok", "error"}
        /\ reply = "ok" => recorded # None
        /\ reply = "error" => recorded = None \/ err \in {"record", "reread"}

\* Pipe and goroutine do not show: data come in, the stream ends, the file is there
\* or not, the answer says so unless the database lost sight of it, in this order
\* (service.go:159-345).
Abstract == INSTANCE Upload WITH doubt <- recorded # None /\ err # "nil"

ImplementsUpload == Abstract!Spec

\* The only way a handler can wait for ever: in a Write of CreateFile after
\* putFile has failed.  Nothing else keeps both goroutines from moving.
StuckOnlyInCreate ==
    (handler # "answered" /\ ~ENABLED Next) =>
        /\ kind = "create" /\ worker = "failed"
        /\ handler = "write" /\ offer # None

\* service.go:300, UpdateFileContent: "Drain the pipe on early failure (e.g.
\* ownership check) so the writer side doesn't block forever".  Whatever fails,
\* an update is answered.
UpdatesAreAnswered == (kind = "update") ~> (handler = "answered")

\* The same of CreateFile, whose goroutine does not drain.
CreatesAreAnswered == (kind = "create") ~> (handler = "answered")
=============================================================================
