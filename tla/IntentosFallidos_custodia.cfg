SPECIFICATION FairSpec
CONSTANTS
  venta = venta
  r1 = r1
  Claves = {venta}
  Fuente = {venta}
  Reproducciones = {r1}
  Formas = {"entero", "json", "truncado"}
  Anonimos = {2}
  MaxIntentos = 2
  MaxEnVuelo = 2
  TopePendientes = 2
INVARIANT FilaConBlob
INVARIANT CierreConCausa
PROPERTY Custodia
PROPERTY HistoriaCerrada
PROPERTY SeCierra
