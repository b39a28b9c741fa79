\* Without messages nor operators nothing happens, and the bounds end there.
SPECIFICATION CopilotoSpec
CHECK_DEADLOCK FALSE
SYMMETRY Simetria
CONSTANTS
  o1 = o1
  o2 = o2
  o3 = o3
  Operaciones = {o1, o2, o3}
  MaxMensajes = 2
  MaxDecisiones = 4
  MaxReloj = 4
INVARIANT CopilotoIInv
INVARIANT AprobadoUnaVez
INVARIANT TomaConCausa
INVARIANT BorradorVisible
