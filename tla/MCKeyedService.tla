--------------------------- MODULE MCKeyedService ---------------------------
(* KeyedService on a small instance for TLC.                                 *)
EXTENDS KeyedService, TLC

CONSTANTS p1, p2, cut   \* contents: two bodies, and what is left of one cut short

\* The two bodies differ in length and checksum, and from a body cut short.
MCPayloads == {p1, p2}
MCSize == p1 :> 1 @@ p2 :> 2 @@ cut :> 0
MCCrc == p1 :> "c1" @@ p2 :> "c2" @@ cut :> "c0"

\* Every replacement is conditional, on the checksum of one body.
MatchP1 == {{"c1"}}

\* Updates of two fields.
TwoFields == {{"slug", "visibility"}}

Symmetry ==
    Permutations(Requests) \cup Permutations(Users) \cup Permutations(Secrets)
============================================================================
