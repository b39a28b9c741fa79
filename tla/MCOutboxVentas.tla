---------------------------- MODULE MCOutboxVentas ----------------------------
(* Small instances of OutboxVentas for TLC: see the OutboxVentas_*.cfg. *)
EXTENDS OutboxVentas
=============================================================================
