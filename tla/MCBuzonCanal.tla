----------------------------- MODULE MCBuzonCanal -----------------------------
(* Small instances of BuzonCanal for TLC: see the BuzonCanal_*.cfg. *)
EXTENDS BuzonCanal

CONSTANTS m1, m2, x

DosLotes == {{m1, x}, {m2}}
=============================================================================
