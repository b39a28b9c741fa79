SPECIFICATION Spec
CONSTANTS
  a1 = a1
  a2 = a2
  Venta = {v1}
  Peticion = {p1, p2}
  Imagen = {i1, i2}
  Cantidad = {1}
  Almacen <- DosAlmacenes
  Inicial <- Existencias
  Previas = {v1}
  MaxVersion = 2
  MaxFallas = 1
  Nadie = nadie
SYMMETRY Simetria
INVARIANT DoctoDeLoAprobado
INVARIANT ReservaNeta
INVARIANT ImagenConBlob
PROPERTY ImplementaVenta
