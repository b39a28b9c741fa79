SPECIFICATION SyncFairSpec
CONSTANTS
  Pk = {1, 2}
  LimitePagina = 1
  MaxTx = 3
  MaxReloj = 3
INVARIANT SyncIInv
INVARIANT PerdidaSoloPorInversion
PROPERTY EntregaEventual
INVARIANT VentaPerdidaSoloLenta
