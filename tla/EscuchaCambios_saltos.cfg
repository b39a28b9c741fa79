SPECIFICATION FairSpec
CONSTANTS
  Tema = {pagos}
  Limite = 1
  MaxTx = 2
  MaxSeq = 2
  MaxCaidas = 1
  MaxFallas = 1
INVARIANT SaltoConCausa
PROPERTY EventoAtendido
\* The writers are bounded: the listener ends idle.
CHECK_DEADLOCK FALSE
