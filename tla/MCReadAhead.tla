---------------------------- MODULE MCReadAhead ----------------------------
(* Small instances of ReadAhead for TLC. *)
EXTENDS ReadAhead
=============================================================================
