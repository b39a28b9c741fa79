--------------------------- MODULE MCVentaAplicada ---------------------------
(***************************************************************************)
(* VentaAplicada on small instances: one venta of two quantities from two  *)
(* warehouses under two goroutines, or two approved ventas of one caja.    *)
(***************************************************************************)
EXTENDS VentaAplicada, TLC

CONSTANTS a1, a2

DosAlmacenes == {a1, a2}
UnAlmacen == {a1}
Existencias == [a \in Almacen |-> 2]
Simetria == Permutations(Peticion) \cup Permutations(Imagen)
==============================================================================
