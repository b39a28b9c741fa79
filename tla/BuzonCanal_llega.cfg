SPECIFICATION FairSpec
CONSTANTS
  m1 = m1
  m2 = m2
  x = x
  Mensaje = {m1, m2, x}
  Lote <- DosLotes
  SinLote = sinLote
  Ninguno = ninguno
  Llamada = {s1, s2}
  Invalido = {x}
  Rechazado = {m2}
  Limite = 2
  MaxAttempts = 2
  Umbral = 1
  Exitos = 2
  Cifras = 1
  MaxCifra = 2
  MaxSeg = 0
  MaxFallas = 2
\* The mailbox empties and Meta has nothing more to say.
CHECK_DEADLOCK FALSE
INVARIANT AcusadoGuardado
INVARIANT FallidoPorRechazo
INVARIANT TurnosExplicados
INVARIANT AdelantoConCausa
PROPERTY TodoLlega
