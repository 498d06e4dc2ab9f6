--------------------------- MODULE MCFileService ---------------------------
(* FileHistory on a small instance for TLC.                                 *)
EXTENDS FileHistory, TLC

CONSTANTS p1, p2, cut   \* contents: two bodies, and what is left of one cut short

\* The two bodies differ in length and checksum, and from a body cut short.
MCPayloads == {p1, p2}
MCSize == p1 :> 1 @@ p2 :> 2 @@ cut :> 0
MCCrc == p1 :> "c1" @@ p2 :> "c2" @@ cut :> "c0"

\* If-Match headers: none, and the checksum of one body.
Unconditional == {{}}
Conditional == {{}, {"c1"}}

\* Updates of two fields.
TwoFields == {{"slug", "visibility"}}

Symmetry == Permutations(Requests) \cup Permutations(Users) \cup Permutations(Ids)
============================================================================
