SPECIFICATION FairSpec
CONSTANTS
  x1 = x1
  x2 = x2
  r1 = r1
  r2 = r2
  w = w
  c1 = c1
  nadie = nadie
  Pago <- Pagos
  Peticion <- UnaPeticion
  Worker = w
  Cargo <- Cargos
  CargoDe <- TodosAlCargo
  Importe <- Importes
  SaldoInicial <- Saldos
  Recibido <- Llegada
  MaxIntentos = 2
  BatchLimit = 1
  MaxFallas = 2
  Nadie = nadie
CHECK_DEADLOCK FALSE
INVARIANTS
  CobroUnico
PROPERTIES
  IntentosExactos
  ImplementaCobro
  Drena
