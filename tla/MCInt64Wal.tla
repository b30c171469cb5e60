----------------------------- MODULE MCInt64Wal -----------------------------
(* Small instances of Int64Wal for TLC. *)
EXTENDS Int64Wal
=============================================================================
