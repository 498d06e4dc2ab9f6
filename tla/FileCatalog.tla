---------------------------- MODULE FileCatalog ----------------------------
(***************************************************************************)
(* What stashy promises about the life of a file, seen from outside: an id  *)
(* is fresh, then names a file with one owner for as long as the file       *)
(* exists, and once the file is deleted (or its upload given up) the id     *)
(* never names a file again.  A file always has content.  The content is    *)
(* replaced as a whole; attributes are set one at a time.                   *)
(*                                                                         *)
(* FileService implements this specification (see FileService!Implements    *)
(* Catalog): its database row and its stored bytes are two pieces of state  *)
(* written by separate calls, and the mapping puts them back together.      *)
(***************************************************************************)
EXTENDS FiniteSets

CONSTANTS
    Ids,       \* ids the id generator can return
    Users,     \* user ids
    Contents,  \* contents a file can have
    Fields,    \* the attributes a request may set
    Values     \* their values

VARIABLES
    files,     \* id -> file, for the ids that name a file now
    spent      \* ids that will never name a file (again)

vars == <<files, spent>>

File == [owner: Users, attrs: [Fields -> Values], content: Contents]

Fresh == Ids \ (DOMAIN files \cup spent)

TypeOK ==
    /\ DOMAIN files \subseteq Ids
    /\ \A i \in DOMAIN files : files[i] \in File
    /\ spent \subseteq Ids \ DOMAIN files

Init ==
    /\ files = [i \in {} |-> {}]
    /\ spent = {}

----------------------------------------------------------------------------
\* An upload succeeds: the file appears at once, owner, attributes and content.
Create ==
    \E i \in Fresh, f \in File :
        /\ files' = [j \in DOMAIN files \cup {i} |-> IF j = i THEN f ELSE files[j]]
        /\ UNCHANGED spent

\* A replacement changes the content and nothing else.
Replace ==
    \E i \in DOMAIN files, c \in Contents :
        /\ files' = [files EXCEPT ![i].content = c]
        /\ UNCHANGED spent

\* An update changes one attribute and nothing else.
SetAttribute ==
    \E i \in DOMAIN files, f \in Fields, v \in Values :
        /\ files' = [files EXCEPT ![i].attrs[f] = v]
        /\ UNCHANGED spent

\* A file is deleted for good.
Delete ==
    \E i \in DOMAIN files :
        /\ files' = [j \in DOMAIN files \ {i} |-> files[j]]
        /\ spent' = spent \cup {i}

\* Uploads are given up: the ids they drew are never used.
GiveUp ==
    \E S \in SUBSET Fresh :
        /\ spent' = spent \cup S
        /\ UNCHANGED files

Next == Create \/ Replace \/ SetAttribute \/ Delete \/ GiveUp

Spec == Init /\ [][Next]_vars
============================================================================
