----------------------------- MODULE MCListing -----------------------------
(* Listing on a small instance for TLC.                                     *)
EXTENDS Listing

ThreeIds == 1..3
OneOrTwo == 1..2
============================================================================
