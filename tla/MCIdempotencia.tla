---------------------------- MODULE MCIdempotencia ----------------------------
(* Small instances of Idempotencia for TLC: see the Idempotencia_*.cfg. *)
EXTENDS Idempotencia, TLC

Simetria == Permutations(Intento)
=============================================================================
