--------------------------- MODULE MCEscuchaCambios ---------------------------
(* Small instances of EscuchaCambios for TLC: see the EscuchaCambios_*.cfg. *)
EXTENDS EscuchaCambios
=============================================================================
