---------------------------- MODULE FileHistory ----------------------------
(***************************************************************************)
(* FileService with a history variable, which no action of the service      *)
(* reads: torn is the set of files whose last replacement was disturbed.    *)
(*                                                                         *)
(* replaceFile stores the bytes (store.Put) and then describes them in the  *)
(* row (db.UpdateFileContent).  Between the two the row describes the old   *)
(* content.  A replacement is disturbed when another one is between its two *)
(* writes at the same time, or when it ends between them, or when its Put   *)
(* fails and yet changes the bytes.                                         *)
(***************************************************************************)
EXTENDS FileService

VARIABLE torn

hvars == <<rows, blobs, minted, reqs, torn>>

\* The requests that have replaced file i's bytes and not yet its description.
Window(i) ==
    {r \in Requests : reqs[r].id = i /\ reqs[r].pc \in {"recheck", "describe"}}

\* This step gives file i other bytes.
Overwritten(i) ==
    /\ i \in DOMAIN rows \cap DOMAIN blobs'
    /\ ~(i \in DOMAIN blobs /\ blobs'[i] = blobs[i])

Disturbed(i) ==
    \/ \E r, s \in Window(i)' : r # s
    \/ \E r \in Window(i) \ Window(i)' : reqs'[r].pc # "reread"
    \/ Overwritten(i) /\ Window(i)' \subseteq Window(i)

\* A replacement that starts to write after a disturbed one starts afresh.
Restored(i) == Window(i)' \ Window(i) # {}

HInit == Init /\ torn = {}

Remembered == torn' = {i \in Ids : Disturbed(i) \/ (i \in torn /\ ~Restored(i))}

HNext == Next /\ Remembered

HSpec == HInit /\ [][HNext]_hvars

\* The row of a file describes its bytes (size and checksum) whenever no
\* replacement is between its two writes and the last one was not disturbed:
\* every other interleaving, refusal, failure or crash keeps them together, and
\* one undisturbed replacement repairs a file an earlier one had torn.
RowDescribesBytes ==
    \A i \in DOMAIN rows \cap DOMAIN blobs :
        (Window(i) = {} /\ i \notin torn) => rows[i].stored \in Reports(blobs[i])
============================================================================
