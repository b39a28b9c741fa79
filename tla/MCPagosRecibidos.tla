-------------------------- MODULE MCPagosRecibidos --------------------------
(***************************************************************************)
(* PagosRecibidos on small instances: two pagos against one cargo, whose   *)
(* importes fit the saldo one at a time only.                              *)
(***************************************************************************)
EXTENDS PagosRecibidos, TLC

CONSTANTS x1, x2, r1, r2, w, c1, nadie

Pagos == {x1, x2}
UnaPeticion == {r1}
Cargos == {c1}
TodosAlCargo == [x \in Pagos |-> c1]
Importes == x1 :> 2 @@ x2 :> 2
Saldos == c1 :> 3
Llegada == x1 :> 1 @@ x2 :> 2

=============================================================================
