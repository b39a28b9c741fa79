SPECIFICATION Spec
CONSTANTS
  x1 = x1
  x2 = x2
  i1 = i1
  i2 = i2
  i3 = i3
  i4 = i4
  r1 = r1
  r2 = r2
  r3 = r3
  nadie = nadie
  Pago <- Pagos
  Imagen <- Imagenes
  Peticion <- TresPeticiones
  Escenarios <- Subidas
  MaxFallas = 2
  Nadie = nadie
CHECK_DEADLOCK FALSE
INVARIANTS
  IInv
PROPERTIES
  PagoConSusImagenes
