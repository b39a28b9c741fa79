-------------------------- MODULE MCComprobantesPago --------------------------
(***************************************************************************)
(* ComprobantesPago with uploads that bring ids of their own and uploads   *)
(* that repeat those of another.                                           *)
(***************************************************************************)
EXTENDS ComprobantesPago, TLC

CONSTANTS x1, x2, i1, i2, i3, i4, r1, r2, r3, nadie

Pagos == {x1, x2}
Imagenes == {i1, i2, i3, i4}
TresPeticiones == {r1, r2, r3}

Pide(tipo, ps, iss) ==
  {[tipo |-> tipo, pago |-> x, imagenes |-> is] : x \in ps, is \in iss}

\* Two uploads of the same pago, the second with ids of its own or as a retry
\* with those of the first, all or one of them; against an attachment, with a new
\* id or one used already, or a deletion of what either may have stored.
Subidas ==
  {r1 :> a @@ r2 :> b @@ r3 :> c :
     a \in Pide("crear", {x1}, {{}, {i1}}),
     b \in Pide("crear", {x1}, {{i1}, {i1, i2}, {i2, i3}})
            \cup Pide("eliminar", {x1}, {{i1}}),
     c \in Pide("eliminar", Pagos, {{i1}, {i2}})
            \cup Pide("adjuntar", {x1}, {{i1}, {i4}})}
===============================================================================
