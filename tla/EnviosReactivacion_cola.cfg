SPECIFICATION FairSpec
CONSTANTS
  c1 = c1
  c2 = c2
  e1 = e1
  e2 = e2
  h1 = h1
  w = w
  Clientes = {c1, c2}
  Control = {c2}
  Corridas = {e1, e2}
  Peticiones = {h1}
  Trabajador = w
  Limite <- Lotes
  Tope = 1
  MaxPorCliente = 2
  MaxAprobados = 1
  MaxHora = 1
  MaxFallas = 1
INVARIANT AperturaUnica
INVARIANT Medicion
INVARIANT TopeConCausa
PROPERTY SeDespacha
