---------------------------- MODULE KeyedService ----------------------------
(***************************************************************************)
(* The file service behind its authentication.  A request arrives with an   *)
(* API key, at /v1/, /stashy.v1.FileService/ or /mcp, or with the session   *)
(* of a signed-in user at POST /upload.  The key is looked up once, before  *)
(* the handler runs, and the handler works as that key's user from then on: *)
(* users create and revoke keys meanwhile, from the dashboard.              *)
(***************************************************************************)
EXTENDS FileHistory

CONSTANT Secrets   \* plaintexts a new key can have

ASSUME SecretAssumption == None \notin Secrets

VARIABLES
    keys,    \* the api_keys table: plaintext (its hash) -> user
    shown,   \* plaintext -> the user it was shown to, once, when it was created
    creds,   \* what each request presented
    acked    \* (history) ids of the files whose upload was acknowledged

kvars == <<hvars, keys, shown, creds, acked>>

\* late: the key was no longer in the table when the request arrived.
NoCred == [sent |-> FALSE, key |-> None, user |-> None, late |-> FALSE]
Cred ==
    [sent: BOOLEAN, key: Secrets \cup {None}, user: Users \cup {None}, late: BOOLEAN]

KInit ==
    /\ HInit
    /\ keys = [k \in {} |-> None] /\ shown = [k \in {} |-> None]
    /\ creds = [r \in Requests |-> NoCred]
    /\ acked = {}

----------------------------------------------------------------------------
(* The dashboard's key endpoints                                            *)

\* Mutant: a key is stored without its user.
CreateKeyUnowned ==
    \E u \in Users, k \in Secrets \ DOMAIN shown :
        /\ keys' = With(keys, k, None)
        /\ shown' = With(shown, k, u)
        /\ UNCHANGED <<hvars, creds, acked>>

\* createKey: the plaintext is random, and shown only in the answer.  A key whose
\* answer is lost is one that nobody can ever present: it is left out.
CreateKey ==
    \E u \in Users, k \in Secrets \ DOMAIN shown :
        /\ keys' = With(keys, k, u)
        /\ shown' = With(shown, k, u)
        /\ UNCHANGED <<hvars, creds, acked>>

\* DELETE ... WHERE id = ? AND user_id = ?
Revocable(u) == {k \in DOMAIN keys : keys[k] = u}

\* deleteKey; when its answer is lost the key is gone all the same.
RevokeKey ==
    \E u \in Users : \E k \in Revocable(u) :
        /\ keys' = Without(keys, k)
        /\ UNCHANGED <<hvars, shown, creds, acked>>

----------------------------------------------------------------------------
(* Requests                                                                 *)

\* A client that was given a key sends it, or a signed-in user's browser uploads.
Arrive(r) ==
    /\ reqs[r].pc = "idle" /\ ~creds[r].sent
    /\ \/ \E k \in DOMAIN shown :
             creds' = [creds EXCEPT ![r] = [NoCred EXCEPT !.sent = TRUE, !.key = k,
                                                         !.late = k \notin DOMAIN keys]]
       \/ \E u \in Users :
             creds' = [creds EXCEPT ![r] = [NoCred EXCEPT !.sent = TRUE, !.user = u]]
    /\ UNCHANGED <<hvars, keys, shown, acked>>

\* Mutant: a key that was once looked up is remembered.
LookupEverShown(c) == IF c.key # None THEN {shown[c.key]} ELSE {c.user}

\* Who a request is: LookupAPIKey's user, or the session's.
Lookup(c) == IF c.key # None THEN {keys[k] : k \in {c.key} \cap DOMAIN keys}
                             ELSE {c.user}

\* The request goes no further: requireAPIKey and mcp's verify answer 401 on any
\* error of the lookup, and what breaks the rules of its method is invalid.
Refuse(r) ==
    /\ creds[r].sent /\ reqs[r].pc = "idle"
    /\ creds' = [creds EXCEPT ![r] = NoCred]
    /\ UNCHANGED <<hvars, keys, shown, acked>>

\* What the routes of a credential lead to: with a key every operation (the MCP tools
\* are some of them), from the dashboard only an upload.
Api == {"create", "replace", "update", "delete"}
Upload == {"create"}
Leads(c) == IF c.key # None THEN Api ELSE Upload

\* The request is let in and its handler begins.
Admit(r) ==
    /\ creds[r].sent /\ reqs[r].pc = "idle"
    /\ BeginCreate(r) \/ BeginReplace(r) \/ BeginUpdate(r) \/ BeginDelete(r)
    /\ reqs'[r].user \in Lookup(creds[r]) /\ reqs'[r].op \in Leads(creds[r])
    /\ creds' = [creds EXCEPT ![r].user = reqs'[r].user]
    /\ Remembered
    /\ UNCHANGED <<keys, shown, acked>>

Acknowledged ==
    {reqs[r].id : r \in {s \in Requests : reqs[s].pc = "insert" /\ reqs'[s].reply = "ok"}}

\* A step of the service.  A request that ends or dies takes its credential along.
Work ==
    /\ Restart \/ \E r \in Requests : reqs[r].pc # "idle" /\ Step(r)
    /\ Remembered
    /\ acked' = acked \cup Acknowledged
    /\ creds' = [r \in Requests |->
                    IF reqs[r].pc # "idle" /\ reqs'[r].pc = "idle" THEN NoCred
                                                                   ELSE creds[r]]
    /\ UNCHANGED <<keys, shown>>

KNext ==
    \/ CreateKey \/ RevokeKey
    \/ \E r \in Requests : Arrive(r) \/ Refuse(r) \/ Admit(r)
    \/ Work

KSpec == KInit /\ [][KNext]_kvars

----------------------------------------------------------------------------
KTypeOK ==
    /\ \A k \in DOMAIN keys : k \in Secrets /\ keys[k] \in Users
    /\ \A k \in DOMAIN shown : k \in Secrets /\ shown[k] \in Users
    /\ creds \in [Requests -> Cred]
    /\ acked \subseteq minted

\* A request that arrives after its key was revoked begins nothing, whatever other
\* keys its user has; one that was let in before goes on to its end
\* (routes.go:34-39).
LateKeysOpenNothing ==
    \A r \in Requests : creds[r].late => reqs[r].pc = "idle"

\* A file that exists changes only by a request that presented its owner's
\* session or a key its owner was shown, however long ago that was, whatever keys
\* were created and revoked since and whoever works on the file at the same time.
OnlyOwnersKeysWrite ==
    [][\A i \in DOMAIN rows :
          \/ /\ i \in DOMAIN rows' /\ rows'[i] = rows[i]
             /\ i \in DOMAIN blobs => i \in DOMAIN blobs' /\ blobs'[i] = blobs[i]
          \/ \E r \in Requests :
                /\ reqs'[r] # reqs[r] /\ reqs[r].id = i
                /\ IF creds[r].key = None THEN creds[r].user = rows[i].owner
                   ELSE creds[r].key \in DOMAIN shown
                        /\ shown[creds[r].key] = rows[i].owner
      ]_kvars

\* A file whose upload was acknowledged has bytes for as long as it has a row,
\* although the answer of any statement may be lost: the cleanup that follows a
\* failed insert, and may remove the bytes of a row that was written after all
\* (service.go:98-104), never meets a file its client knows of.
AcknowledgedFilesHaveBytes == acked \cap DOMAIN rows \subseteq DOMAIN blobs
=============================================================================
