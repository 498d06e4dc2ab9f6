------------------------------- MODULE MCLinks -------------------------------
(* Links on a small instance for TLC.                                       *)
EXTENDS Links
=============================================================================
