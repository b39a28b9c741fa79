----------------------------- MODULE VentaUnaVez -----------------------------
(***************************************************************************)
(* What the ventas module promises the shop, without versions, locks or    *)
(* transactions: a captured venta reserves exactly its lines for as long   *)
(* as it is not cancelled, is sold to Microsip at most once and for the    *)
(* lines it had, and once sold or cancelled never changes again.           *)
(* VentaAplicada is shown to implement this module.                        *)
(***************************************************************************)
CONSTANTS
  Venta,   \* the client-generated UUIDs
  Linea    \* what a venta can hold

VARIABLES
  vida,     \* [Venta -> {"nada", "abierta", "cancelada", "vendida"}]
  lineas,   \* [Venta -> Linea]: what the venta holds
  reserva,  \* [Venta -> SUBSET Linea]: what is set aside for it
  vendido   \* [Venta -> SUBSET Linea]: what Microsip was told it sold

ventaVars == <<vida, lineas, reserva, vendido>>

\* A venta that is captured may already be there when the story begins.
Init ==
  /\ vida \in [Venta -> {"nada", "abierta"}]
  /\ lineas \in [Venta -> Linea]
  /\ reserva = [v \in Venta |->
                 IF vida[v] = "nada" THEN {} ELSE {lineas[v]}]
  /\ vendido = [v \in Venta |-> {}]

\* The venta is captured or edited: its lines and its reservation move
\* together.
Escribir(v, l) ==
  /\ vida[v] \in {"nada", "abierta"}
  /\ vida' = [vida EXCEPT ![v] = "abierta"]
  /\ lineas' = [lineas EXCEPT ![v] = l]
  /\ reserva' = [reserva EXCEPT ![v] = {l}]
  /\ UNCHANGED vendido

Cancelar(v) ==
  /\ vida[v] = "abierta"
  /\ vida' = [vida EXCEPT ![v] = "cancelada"]
  /\ reserva' = [reserva EXCEPT ![v] = {}]
  /\ UNCHANGED <<lineas, vendido>>

Vender(v) ==
  /\ vida[v] = "abierta"
  /\ vida' = [vida EXCEPT ![v] = "vendida"]
  /\ vendido' = [vendido EXCEPT ![v] = {lineas[v]}]
  /\ UNCHANGED <<lineas, reserva>>

Next ==
  \E v \in Venta :
    \/ \E l \in Linea : Escribir(v, l)
    \/ Cancelar(v)
    \/ Vender(v)

Spec == Init /\ [][Next]_ventaVars
==============================================================================
