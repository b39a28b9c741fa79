----------------------------- MODULE MCCursorSync -----------------------------
(* Small instances of CursorSync for TLC: see the CursorSync_*.cfg. *)
EXTENDS CursorSync
=============================================================================
