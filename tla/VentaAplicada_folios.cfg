SPECIFICATION Spec
CONSTANTS
  a1 = a1
  a2 = a2
  Venta = {v1, v2}
  Peticion = {p1, p2}
  Imagen = {i1}
  Cantidad = {1}
  Almacen <- UnAlmacen
  Inicial <- Existencias
  Previas = {v1, v2}
  MaxVersion = 2
  MaxFallas = 0
  Nadie = nadie
INVARIANT FoliosUnicos
