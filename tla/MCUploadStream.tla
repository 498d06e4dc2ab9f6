-------------------------- MODULE MCUploadStream --------------------------
(* UploadStream on a small instance for TLC.                                *)
EXTENDS UploadStream

AllFaults == {"stream_error", "early_error", "store_error", "db_error"}
============================================================================
