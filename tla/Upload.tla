------------------------------- MODULE Upload -------------------------------
(***************************************************************************)
(* What a streaming upload promises its client, without pipe and goroutine: *)
(* the client's data come in until the stream ends or breaks; a file is     *)
(* recorded once at most, in one step, with all that was sent over a stream *)
(* the client has ended; and the answer comes last.  Success is answered    *)
(* exactly when a file was recorded and the system knows it: a database     *)
(* that commits and reports an error leaves it in doubt, and the answer is  *)
(* then an error.                                                           *)
(*                                                                         *)
(* UploadStream implements this specification (UploadStream!Implements      *)
(* Upload).                                                                 *)
(***************************************************************************)
EXTENDS Naturals, Sequences

CONSTANT None

VARIABLES
    sent,      \* the data the client has sent, in order
    stream,    \* "open", "eof" when the client ended it, "error" when it broke
    recorded,  \* the content of the file, None while there is none
    doubt,     \* the file was recorded, and the database reported an error
    reply      \* None, "ok" or "error"

vars == <<sent, stream, recorded, doubt, reply>>

Init ==
    sent = <<>> /\ stream = "open" /\ recorded = None /\ ~doubt /\ reply = None

----------------------------------------------------------------------------
\* More data come in, or none.
Receive ==
    /\ stream = "open" /\ reply = None
    /\ Len(sent) <= Len(sent') /\ SubSeq(sent', 1, Len(sent)) = sent
    /\ UNCHANGED <<stream, recorded, doubt, reply>>

\* The stream ends once.
End ==
    /\ stream = "open" /\ reply = None
    /\ stream' \in {"eof", "error"}
    /\ UNCHANGED <<sent, recorded, doubt, reply>>

\* The file appears, with everything in it.
Store ==
    /\ stream = "eof" /\ recorded = None /\ reply = None
    /\ recorded' = sent /\ doubt' \in BOOLEAN
    /\ UNCHANGED <<sent, stream, reply>>

\* The system cannot read back what it has recorded.
LoseSight ==
    /\ recorded # None /\ reply = None
    /\ doubt' = TRUE
    /\ UNCHANGED <<sent, stream, recorded, reply>>

\* The last thing to happen.
Answer ==
    /\ reply = None
    /\ reply' = IF recorded = None \/ doubt THEN "error" ELSE "ok"
    /\ UNCHANGED <<sent, stream, recorded, doubt>>

\* An upload that is refused before it has any data: the end of its stream, if
\* that is the reason, and the answer are one.
Refuse ==
    /\ stream = "open" /\ sent = <<>> /\ reply = None
    /\ stream' \in {"eof", "error"} /\ reply' = "error"
    /\ UNCHANGED <<sent, recorded, doubt>>

Next == Receive \/ End \/ Store \/ LoseSight \/ Answer \/ Refuse

Spec == Init /\ [][Next]_vars
=============================================================================
