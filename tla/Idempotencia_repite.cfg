SPECIFICATION Spec
CONSTANTS
  Intento = {p1, p2, p3}
  Clave = {k}
  SinClave = sinClave
  Cuerpo = {a, b}
  Ttl = 2
  MaxReloj = 3
  MaxFallas = 1
SYMMETRY Simetria
\* Every POST is answered and the clock stops at its bound.
CHECK_DEADLOCK FALSE
INVARIANT RepeticionFiel
INVARIANT EjecutaOtraVezConCausa
PROPERTY RespuestaEstable
