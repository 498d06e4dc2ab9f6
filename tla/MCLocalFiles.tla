---------------------------- MODULE MCLocalFiles ----------------------------
(* LocalHistory on a small instance for TLC.                                *)
EXTENDS LocalHistory, TLC

\* An empty body and one of two pieces, so that a file can be cut short.
MCBodies == {<<>>, <<"b1", "b2">>}

Symmetry == Permutations(Writers) \cup Permutations(Inodes)
=============================================================================
