---------------------------- MODULE VentaAplicada ----------------------------
(***************************************************************************)
(* A venta from the phone to Microsip: internal/ventas with the traspasos  *)
(* of internal/inventario that reserve its stock.  Every command reads the *)
(* aggregate outside any transaction, decides on that copy and writes it   *)
(* back under a compare-and-swap on VERSION; AplicarVenta instead locks    *)
(* the row first.  Images travel beside all this: their blobs are no part  *)
(* of a transaction and their rows carry no version.                       *)
(***************************************************************************)
EXTENDS Integers, Sequences, FiniteSets, FiniteSetsExt

CONSTANTS
  Venta,       \* the client-generated UUIDs
  Peticion,    \* request goroutines; each serves one command after another
  Imagen,      \* the client-generated ids of the photos
  Cantidad,    \* what the productos rows can say
  Almacen,     \* what the combos rows can say: the warehouse of origin
  Inicial,     \* [Almacen -> Nat]: the stock before any venta
  Previas,     \* SUBSET Venta: those that may be reviewed already
  MaxVersion,  \* bound: at this VERSION only images are still handled
  MaxFallas,   \* bound: storage faults, failed commits and crashes
  Nadie        \* no transaction holds the row

ASSUME VentaAssumption ==
  /\ Cantidad \subseteq Nat \ {0}
  /\ Venta # {} /\ Cantidad # {} /\ Almacen # {} /\ Imagen # {}
  /\ Inicial \in [Almacen -> Nat]
  /\ Previas \subseteq Venta
  /\ MaxVersion \in Nat /\ MaxFallas \in Nat
  /\ Nadie \notin Peticion

VARIABLES
  fila,         \* [Venta -> Cabecera]: the header rows of MSP_VENTAS
  lineas,       \* [Venta -> Linea]: the combos and productos rows
  imagenes,     \* [Venta -> SUBSET Imagen]: the rows of MSP_VENTAS_IMAGENES
  blobs,        \* SUBSET (Venta \X Imagen): the files of the storage
  directos,     \* [Venta -> Seq(Linea)]: its directo traspasos not reversed
  doctos,       \* [Venta -> Seq(Docto)]: the DOCTOS_PV made of it
  consecutivo,  \* FOLIOS_CAJAS.CONSECUTIVO of the caja
  candado,      \* [Venta -> Peticion or Nadie]: who locks the row
  caja,         \* Peticion or Nadie: who locks the row of FOLIOS_CAJAS
  hilo,         \* [Peticion -> Hilo]: the command each goroutine runs
  subidas,      \* history: how often each blob was written, 2 for more
  aprobado,     \* history: [Venta -> Linea], the lines Aprobar saw
  fallas        \* faults injected so far

vars == <<fila, lineas, imagenes, blobs, directos, doctos, consecutivo,
          candado, caja, hilo, subidas, aprobado, fallas>>

Linea == [origen: Almacen, cant: Cantidad]

Docto == [folio: Nat, linea: Linea, nuevo: BOOLEAN]

Situacion == {"ausente", "borrador", "revisada", "aprobada", "cancelada"}

Cabecera == [sit: Situacion, aplicada: BOOLEAN, cliente: BOOLEAN,
             version: Nat]

SinFila == [sit |-> "ausente", aplicada |-> FALSE, cliente |-> FALSE,
            version |-> 0]

\* Commands that rewrite lines, that rewrite header data (the cliente linked
\* may change with it) or vendedores, that move the venta along, and that
\* handle its photos.
DeLineas == {"productos", "lineas"}
DeDatos == {"datos"}
DeEstado == {"enviar", "aprobar", "regresar", "cancelar"}
DeImagen == {"adjuntar", "eliminar"}

Hilo == [pc: {"ocioso", "lineas", "subir", "insertar", "guardar", "confirmar",
              "fila", "blob", "limpiar", "folio", "materializar", "marcar"},
         op: DeLineas \cup DeDatos \cup DeEstado \cup DeImagen
               \cup {"crear", "aplicar"},
         venta: Venta, cab: Cabecera, linea: Linea,
         falta: SUBSET Imagen, subidos: SUBSET Imagen, folio: Nat]

Cualquiera == CHOOSE l \in Linea : TRUE

Ocioso == [pc |-> "ocioso", op |-> "crear", venta |-> CHOOSE v \in Venta : TRUE,
           cab |-> SinFila, linea |-> Cualquiera, falta |-> {}, subidos |-> {},
           folio |-> 0]

-----------------------------------------------------------------------------
(* The aggregate, domain/venta.go *)

\* Mutant: an applied venta can still be cancelled.
PermiteCancelarAplicada(op, c) ==
  \/ op \in DeLineas \cup DeDatos \cup {"enviar"} /\ c.sit = "borrador"
  \/ op = "aprobar" /\ c.sit = "revisada"
  \/ op = "regresar" /\ c.sit \in {"revisada", "aprobada"} /\ ~c.aplicada
  \/ op = "cancelar" /\ c.sit # "cancelada"
  \/ op \in DeImagen /\ c.sit # "cancelada"

\* puedeEditarse and the guards of the transitions, on the copy in memory.
Permite(op, c) ==
  \/ op \in DeLineas \cup DeDatos \cup {"enviar"} /\ c.sit = "borrador"
  \/ op = "aprobar" /\ c.sit = "revisada"
  \/ op = "regresar" /\ c.sit \in {"revisada", "aprobada"} /\ ~c.aplicada
  \/ op = "cancelar" /\ c.sit # "cancelada" /\ ~c.aplicada
  \/ op \in DeImagen /\ c.sit # "cancelada"

SitTras(op, c) ==
  CASE op = "enviar" -> "revisada"
    [] op = "aprobar" -> "aprobada"
    [] op = "regresar" -> "borrador"
    [] op = "cancelar" -> "cancelada"
    [] OTHER -> c.sit

\* markUpdated: every write that goes through VERSION also bumps it.
markUpdated(c) == [c EXCEPT !.version = @ + 1]

-----------------------------------------------------------------------------
(* The reservation, inventario/app *)

Tomado(ds, a) ==
  MapThenSumSet(LAMBDA i : IF ds[i].origen = a THEN ds[i].cant ELSE 0,
                DOMAIN ds)

\* SALDOS_IN of the origin once the directos of v are given back: the stock
\* less what every other venta has moved out.
ExistenciaSin(v, a) ==
  Inicial[a] - MapThenSumSet(LAMBDA w : Tomado(directos[w], a), Venta \ {v})

\* checkExistencia.
Alcanza(v, l, propios) ==
  l.cant <= ExistenciaSin(v, l.origen) - Tomado(propios, l.origen)

\* Mutant: the reversed directo is not marked as such.
ResincronizarSinMarcar(ds, l) == IF ds = <<l>> THEN ds ELSE Append(ds, l)

\* ResincronizarTraspasoParaVenta: the same net effect leaves the directo
\* alone, anything else reverses it and creates the new one.
Resincronizar(ds, l) == IF ds = <<l>> THEN ds ELSE <<l>>

-----------------------------------------------------------------------------
\* The story begins with some ventas captured, reserved and reviewed.
Init ==
  \E foto \in Imagen, antes \in SUBSET Previas, sit \in {"revisada", "aprobada"} :
    /\ fila = [v \in Venta |-> IF v \in antes
                              THEN [SinFila EXCEPT !.sit = sit]
                              ELSE SinFila]
    /\ lineas = [v \in Venta |-> Cualquiera]
    /\ imagenes = [v \in Venta |-> IF v \in antes THEN {foto} ELSE {}]
    /\ blobs = antes \X {foto}
    /\ directos = [v \in Venta |-> IF v \in antes THEN <<Cualquiera>> ELSE <<>>]
    /\ doctos = [v \in Venta |-> <<>>]
    /\ consecutivo = 1
    /\ candado = [v \in Venta |-> Nadie]
    /\ caja = Nadie
    /\ hilo = [p \in Peticion |-> Ocioso]
    /\ subidas = [b \in Venta \X Imagen |-> IF b \in blobs THEN 1 ELSE 0]
    /\ aprobado = lineas
    /\ fallas = 0

Falla == fallas < MaxFallas /\ fallas' = fallas + 1

\* The command answers and its locals are gone.
Terminar(p) == hilo' = [hilo EXCEPT ![p] = Ocioso]

Ir(p, paso) == hilo' = [hilo EXCEPT ![p].pc = paso]

Tomar(v, p) == candado[v] = Nadie /\ candado' = [candado EXCEPT ![v] = p]

Soltar(v) == candado' = [candado EXCEPT ![v] = Nadie]

-----------------------------------------------------------------------------
(* Creation and images *)

\* CrearVentaConImagenes up to validateStockFromVenta, whose transaction is
\* over before anything is written: nothing checks the stock again.
CrearVentaConImagenes(p, v, l, fotos) ==
  /\ hilo[p].pc = "ocioso"
  /\ fotos # {}
  /\ Alcanza(v, l, directos[v])
  /\ hilo' = [hilo EXCEPT ![p] = [Ocioso EXCEPT !.pc = "subir", !.venta = v,
                                    !.linea = l, !.falta = fotos]]
  /\ UNCHANGED <<fila, lineas, imagenes, blobs, directos, doctos, consecutivo,
                 candado, caja, subidas, aprobado, fallas>>

\* storage.Store: one photo after another, overwriting what the key held.
GuardarBlob(p, i) ==
  LET h == hilo[p]
      b == <<h.venta, i>>
  IN /\ h.pc = "subir"
     /\ i \in h.falta
     /\ blobs' = blobs \cup {b}
     /\ subidas' = [subidas EXCEPT ![b] = IF @ < 2 THEN @ + 1 ELSE @]
     /\ hilo' = [hilo EXCEPT ![p].falta = @ \ {i}, ![p].subidos = @ \cup {i},
                             ![p].pc = IF h.falta = {i} THEN "insertar" ELSE @]
     /\ UNCHANGED <<fila, lineas, imagenes, directos, doctos, consecutivo,
                    candado, caja, aprobado, fallas>>

\* A photo cannot be processed or stored: what was stored goes.
GuardarFalla(p) ==
  /\ hilo[p].pc = "subir"
  /\ Falla
  /\ Ir(p, "limpiar")
  /\ UNCHANGED <<fila, lineas, imagenes, blobs, directos, doctos, consecutivo,
                 candado, caja, subidas, aprobado>>

\* Save begins: an insert of the same UUID in flight is waited for, and a row
\* that is there is a unique violation.
InsertarVenta(p) ==
  LET h == hilo[p] IN
  /\ h.pc = "insertar" /\ h.op = "crear"
  /\ IF fila[h.venta].sit = "ausente"
     THEN Tomar(h.venta, p) /\ Ir(p, "confirmar")
     ELSE candado' = candado /\ Ir(p, "limpiar")
  /\ UNCHANGED <<fila, lineas, imagenes, blobs, directos, doctos, consecutivo,
                 caja, subidas, aprobado, fallas>>

\* The header, its children and the directo traspaso are committed.
ConfirmarCreacion(p) ==
  LET h == hilo[p]
      v == h.venta
  IN /\ h.pc = "confirmar" /\ h.op = "crear"
     /\ \E c \in BOOLEAN :
          fila' = [fila EXCEPT ![v] = [SinFila EXCEPT !.sit = "borrador",
                                                      !.cliente = c]]
     /\ lineas' = [lineas EXCEPT ![v] = h.linea]
     /\ imagenes' = [imagenes EXCEPT ![v] = h.subidos]
     /\ directos' = [directos EXCEPT ![v] = Append(@, h.linea)]
     /\ Soltar(v)
     /\ Terminar(p)
     /\ UNCHANGED <<blobs, doctos, consecutivo, caja, subidas, aprobado, fallas>>

\* InsertImagen of AdjuntarImagen: no version is compared.
InsertarImagen(p) ==
  LET h == hilo[p] IN
  /\ h.pc = "insertar" /\ h.op = "adjuntar"
  /\ imagenes' = [imagenes EXCEPT ![h.venta] = @ \cup h.subidos]
  /\ Terminar(p)
  /\ UNCHANGED <<fila, lineas, blobs, directos, doctos, consecutivo, candado,
                 caja, subidas, aprobado, fallas>>

\* The transaction of a creation or of an image fails.
Abortar(p) ==
  LET h == hilo[p] IN
  /\ \/ h.op = "crear" /\ h.pc = "confirmar" /\ Soltar(h.venta)
     \/ h.op = "adjuntar" /\ h.pc = "insertar" /\ UNCHANGED candado
  /\ Falla
  /\ Ir(p, "limpiar")
  /\ UNCHANGED <<fila, lineas, imagenes, blobs, directos, doctos, consecutivo,
                 caja, subidas, aprobado>>

\* cleanupBlobs and bestEffortStorageDelete, by key: whose blob it is now is
\* not asked.  A Delete that fails is only logged.
Limpiar(p) ==
  LET h == hilo[p] IN
  /\ h.pc = "limpiar"
  /\ IF h.subidos = {}
     THEN Terminar(p) /\ UNCHANGED <<blobs, fallas>>
     ELSE \E i \in h.subidos :
            /\ hilo' = [hilo EXCEPT ![p].subidos = @ \ {i}]
            /\ \/ blobs' = blobs \ {<<h.venta, i>>} /\ UNCHANGED fallas
               \/ Falla /\ UNCHANGED blobs
  /\ UNCHANGED <<fila, lineas, imagenes, directos, doctos, consecutivo, candado,
                 caja, subidas, aprobado>>

-----------------------------------------------------------------------------
(* Commands on a captured venta *)

\* FindByID outside a transaction, first of its five queries: the header, on
\* which alone the aggregate will allow the command or refuse it.
LeerCabecera(p, v, op) ==
  /\ hilo[p].pc = "ocioso"
  /\ fila[v].sit # "ausente"
  /\ Permite(op, fila[v])
  /\ op \in DeImagen \/ fila[v].version < MaxVersion
  /\ hilo' = [hilo EXCEPT ![p] = [Ocioso EXCEPT !.pc = "lineas", !.op = op,
               !.venta = v, !.cab = IF op \in DeImagen THEN @ ELSE fila[v]]]
  /\ UNCHANGED <<fila, lineas, imagenes, blobs, directos, doctos, consecutivo,
                 candado, caja, subidas, aprobado, fallas>>

\* The lines the command will write: ReemplazarProductos keeps the combos it
\* read, ReemplazarLineas brings both, the others rewrite none.
Nuevas(op, leidas) ==
  CASE op = "productos" -> {[leidas EXCEPT !.cant = c] : c \in Cantidad}
    [] op = "lineas" -> Linea
    [] OTHER -> {Cualquiera}

\* The handler of AdjuntarImagen mints the id of the photo.
EsNueva(v, i) ==
  /\ subidas[<<v, i>>] = 0
  /\ \A q \in Peticion : hilo[q].venta = v => i \notin hilo[q].falta

\* The children are read, by queries of their own.  The command may also end
\* here: the input is invalid, an If-Match names another version, the photo is
\* not of this venta.
LeerLineas(p) ==
  LET h == hilo[p]
      v == h.venta
  IN /\ h.pc = "lineas"
     /\ \/ Terminar(p)
        \/ /\ h.op \notin DeImagen
           /\ \E l \in Nuevas(h.op, lineas[v]) :
                hilo' = [hilo EXCEPT ![p].pc = "guardar", ![p].linea = l]
        \/ /\ h.op = "adjuntar"
           /\ \E i \in Imagen :
                /\ EsNueva(v, i)
                /\ hilo' = [hilo EXCEPT ![p].pc = "subir", ![p].falta = {i}]
        \/ /\ h.op = "eliminar"
           /\ \E i \in imagenes[v] :
                hilo' = [hilo EXCEPT ![p].pc = "fila", ![p].falta = {i}]
     /\ UNCHANGED <<fila, lineas, imagenes, blobs, directos, doctos,
                    consecutivo, candado, caja, subidas, aprobado, fallas>>

\* Mutant: the write does not compare VERSION.
CoincideSiempre(h) == TRUE

\* ensureVersionMatched: the row is still the one that was read.
Coincide(h) == fila[h.venta].version = h.cab.version

\* What the transaction does to the inventory may still refuse: activeDirect
\* wants exactly one directo to reverse, a resync at most one and enough stock.
InventarioAcepta(h) ==
  LET ds == directos[h.venta] IN
  CASE h.op \in DeLineas -> /\ Len(ds) <= 1
                            /\ ds = <<h.linea>> \/ Alcanza(h.venta, h.linea, <<>>)
    [] h.op = "cancelar" -> Len(ds) = 1
    [] OTHER -> TRUE

\* The write waits for the row; a conflict or a refusal rolls it back.
Guardar(p) ==
  LET h == hilo[p] IN
  /\ h.pc = "guardar"
  /\ candado[h.venta] = Nadie
  /\ IF Coincide(h) /\ InventarioAcepta(h)
     THEN Tomar(h.venta, p) /\ Ir(p, "confirmar")
     ELSE UNCHANGED candado /\ Terminar(p)
  /\ UNCHANGED <<fila, lineas, imagenes, blobs, directos, doctos, consecutivo,
                 caja, subidas, aprobado, fallas>>

\* The row is written from the copy in memory, and committed together with the
\* lines and the traspasos.
Confirmar(p) ==
  LET h == hilo[p]
      v == h.venta
  IN /\ h.pc = "confirmar" /\ h.op # "crear"
     /\ \E c \in IF h.op \in DeDatos THEN BOOLEAN ELSE {h.cab.cliente} :
          fila' = [fila EXCEPT ![v] =
                    markUpdated([h.cab EXCEPT !.sit = SitTras(h.op, h.cab),
                                              !.cliente = c])]
     /\ lineas' = IF h.op \in DeLineas
                  THEN [lineas EXCEPT ![v] = h.linea] ELSE lineas
     /\ directos' = [directos EXCEPT ![v] =
                      CASE h.op \in DeLineas -> Resincronizar(@, h.linea)
                        [] h.op = "cancelar" -> <<>>
                        [] OTHER -> @]
     /\ aprobado' = IF h.op = "aprobar"
                    THEN [aprobado EXCEPT ![v] = lineas[v]] ELSE aprobado
     /\ Soltar(v)
     /\ Terminar(p)
     /\ UNCHANGED <<imagenes, blobs, doctos, consecutivo, caja, subidas, fallas>>

\* Mutant: the blob goes first, and the row with it only if it is still there.
BorrarFilaDespues(p) ==
  LET h == hilo[p] IN
  /\ h.pc = "fila"
  /\ blobs' = blobs \ ({h.venta} \X h.falta)
  /\ Ir(p, "blob")
  /\ UNCHANGED <<fila, lineas, imagenes, directos, doctos, consecutivo, candado,
                 caja, subidas, aprobado, fallas>>

\* EliminarImagen deletes the row first, and only then the blob.
BorrarFila(p) ==
  LET h == hilo[p] IN
  /\ h.pc = "fila"
  /\ IF h.falta \subseteq imagenes[h.venta]
     THEN /\ imagenes' = [imagenes EXCEPT ![h.venta] = @ \ h.falta]
          /\ Ir(p, "blob")
     ELSE /\ Terminar(p)
          /\ UNCHANGED imagenes
  /\ UNCHANGED <<fila, lineas, blobs, directos, doctos, consecutivo, candado,
                 caja, subidas, aprobado, fallas>>

\* storage.Delete, best effort.
BorrarBlob(p) ==
  LET h == hilo[p] IN
  /\ h.pc = "blob"
  /\ \/ blobs' = blobs \ ({h.venta} \X h.falta) /\ UNCHANGED fallas
     \/ Falla /\ UNCHANGED blobs
  /\ Terminar(p)
  /\ UNCHANGED <<fila, lineas, imagenes, directos, doctos, consecutivo, candado,
                 caja, subidas, aprobado>>

-----------------------------------------------------------------------------
(* AplicarVenta *)

\* Mutant: the fast path for a venta already aplicada is gone.
AplicableOtraVez(v) ==
  /\ fila[v].sit = "aprobada"
  /\ imagenes[v] # {}

\* checkPreconditions on what is read under the lock; a venta already aplicada
\* answers its stored folio and changes nothing.
Aplicable(v) ==
  /\ fila[v].sit = "aprobada"
  /\ ~fila[v].aplicada
  /\ imagenes[v] # {}

\* LockByID, FindByID and the checks.
TomarVenta(p, v) ==
  /\ hilo[p].pc = "ocioso"
  /\ Aplicable(v)
  /\ fila[v].version < MaxVersion
  /\ Tomar(v, p)
  /\ hilo' = [hilo EXCEPT ![p] = [Ocioso EXCEPT !.pc = "folio", !.op = "aplicar",
                     !.venta = v, !.cab = fila[v], !.linea = lineas[v]]]
  /\ UNCHANGED <<fila, lineas, imagenes, blobs, directos, doctos, consecutivo,
                 caja, subidas, aprobado, fallas>>

\* readFoliosCajas: the counter is read, not locked.
LeerFolio(p) ==
  /\ hilo[p].pc = "folio"
  /\ hilo' = [hilo EXCEPT ![p].pc = "materializar", ![p].folio = consecutivo]
  /\ UNCHANGED <<fila, lineas, imagenes, blobs, directos, doctos, consecutivo,
                 candado, caja, subidas, aprobado, fallas>>

\* The document is inserted with that folio; UPDATE FOLIOS_CAJAS takes the row
\* of the counter, waiting for whoever has it.
Materializar(p) ==
  /\ hilo[p].pc = "materializar"
  /\ caja = Nadie
  /\ caja' = p
  /\ Ir(p, "marcar")
  /\ UNCHANGED <<fila, lineas, imagenes, blobs, directos, doctos, consecutivo,
                 candado, subidas, aprobado, fallas>>

\* MarcarAplicada, Update and the commit: the document, the cliente created
\* for a venta without one, the counter and the mark together.
MarcarAplicada(p) ==
  LET h == hilo[p]
      v == h.venta
  IN /\ h.pc = "marcar"
     /\ Coincide(h)
     /\ fila' = [fila EXCEPT ![v] = markUpdated([h.cab EXCEPT !.aplicada = TRUE,
                                                            !.cliente = TRUE])]
     /\ doctos' = [doctos EXCEPT ![v] =
                    Append(@, [folio |-> h.folio, linea |-> h.linea,
                               nuevo |-> ~h.cab.cliente])]
     /\ consecutivo' = consecutivo + 1
     /\ caja' = Nadie
     /\ Soltar(v)
     /\ Terminar(p)
     /\ UNCHANGED <<lineas, imagenes, blobs, directos, subidas, aprobado, fallas>>

\* The process dies, or a transaction that has nothing to clean up fails: its
\* locks go, what it stored outside the database stays.
Caer(p) ==
  LET h == hilo[p] IN
  /\ h.pc # "ocioso"
  /\ Falla
  /\ Terminar(p)
  /\ candado' = [v \in Venta |-> IF candado[v] = p THEN Nadie ELSE candado[v]]
  /\ caja' = IF caja = p THEN Nadie ELSE caja
  /\ UNCHANGED <<fila, lineas, imagenes, blobs, directos, doctos, consecutivo,
                 subidas, aprobado>>

-----------------------------------------------------------------------------
Crear(p) ==
  \/ \E v \in Venta, l \in Linea, fotos \in SUBSET Imagen :
       CrearVentaConImagenes(p, v, l, fotos)
  \/ \E i \in Imagen : GuardarBlob(p, i)
  \/ GuardarFalla(p)
  \/ InsertarVenta(p)
  \/ ConfirmarCreacion(p)
  \/ InsertarImagen(p)
  \/ Abortar(p)
  \/ Limpiar(p)

Editar(p) ==
  \/ \E v \in Venta, op \in DeLineas \cup DeDatos \cup DeEstado \cup DeImagen :
       LeerCabecera(p, v, op)
  \/ LeerLineas(p)
  \/ Guardar(p)
  \/ Confirmar(p)
  \/ BorrarFila(p)
  \/ BorrarBlob(p)

AplicarVenta(p) ==
  \/ \E v \in Venta : TomarVenta(p, v)
  \/ LeerFolio(p)
  \/ Materializar(p)
  \/ MarcarAplicada(p)

Next == \E p \in Peticion : Crear(p) \/ Editar(p) \/ AplicarVenta(p) \/ Caer(p)

Spec == Init /\ [][Next]_vars

-----------------------------------------------------------------------------
(* Properties *)

TypeOK ==
  /\ fila \in [Venta -> Cabecera]
  /\ lineas \in [Venta -> Linea]
  /\ imagenes \in [Venta -> SUBSET Imagen]
  /\ blobs \subseteq Venta \X Imagen
  /\ directos \in [Venta -> Seq(Linea)]
  /\ doctos \in [Venta -> Seq(Docto)]
  /\ consecutivo \in Nat
  /\ candado \in [Venta -> Peticion \cup {Nadie}]
  /\ caja \in Peticion \cup {Nadie}
  /\ hilo \in [Peticion -> Hilo]
  /\ subidas \in [Venta \X Imagen -> 0..2]
  /\ aprobado \in [Venta -> Linea]
  /\ fallas \in Nat

EnTx == {"confirmar", "folio", "materializar", "marcar"}

\* A transaction past its lock holds the row of its venta, and nobody else.
CandadoDeQuien ==
  \A p \in Peticion, v \in Venta :
    (candado[v] = p) <=> (hilo[p].pc \in EnTx /\ hilo[p].venta = v)

CajaDeQuien == \A p \in Peticion : (caja = p) <=> (hilo[p].pc = "marcar")

\* What a command is about to write back is what the row says now, or the row
\* has moved to another version since; a copy never runs ahead of the row.
CopiaVigente ==
  \A p \in Peticion :
    LET h == hilo[p] IN
    \/ h.pc \notin {"lineas", "guardar"}
    \/ h.pc = "lineas" /\ h.op \in DeImagen
    \/ /\ h.op \notin DeImagen
       /\ Permite(h.op, h.cab)
       /\ h.cab.sit # "ausente"
       /\ h.cab.version <= fila[h.venta].version
       /\ Coincide(h) =>
            /\ h.cab = fila[h.venta]
            /\ h.pc = "guardar" /\ h.op = "productos" =>
                 h.linea.origen = lineas[h.venta].origen

\* Under the lock the copy is the row, and the decision taken on it stands.
CopiaBloqueada ==
  \A p \in Peticion :
    LET h == hilo[p] IN
    h.pc \in EnTx =>
      IF h.op = "crear"
      THEN h.pc = "confirmar" /\ fila[h.venta] = SinFila
      ELSE /\ h.cab = fila[h.venta]
           /\ h.pc = "confirmar" =>
                /\ h.op \notin DeImagen \cup {"aplicar"}
                /\ Permite(h.op, h.cab)
                /\ h.cab.sit # "ausente"
                /\ h.op = "productos" =>
                     h.linea.origen = lineas[h.venta].origen
           /\ h.pc # "confirmar" =>
                /\ h.op = "aplicar"
                /\ h.cab.sit = "aprobada" /\ ~h.cab.aplicada
                /\ h.linea = lineas[h.venta]

\* aplicada only of an aprobada, which still has the lines Aprobar saw.
AprobadaSinCambios ==
  \A v \in Venta :
    /\ fila[v].aplicada => fila[v].sit = "aprobada"
    /\ fila[v].sit = "aprobada" => aprobado[v] = lineas[v]
    /\ fila[v].sit = "ausente" => fila[v] = SinFila

\* The documents of Microsip tell the same story as the venta: one if it is
\* aplicada and none otherwise, with the lines that were approved, and with at
\* most one cliente created along the way (AplicarVenta under LockByID against
\* every other command's read-decide-write).
DoctoDeLoAprobado ==
  \A v \in Venta :
    /\ Len(doctos[v]) = IF fila[v].aplicada THEN 1 ELSE 0
    /\ \A n \in DOMAIN doctos[v] : doctos[v][n].linea = aprobado[v]

\* The stock set aside for a venta is exactly what its rows say while it is not
\* cancelled, and nothing before or after: no order of edits, each deciding on
\* an old copy, reserves twice, forgets a reversal or reserves from the
\* warehouse of a combo that is gone.
ReservaNeta ==
  \A v \in Venta :
    directos[v] = IF fila[v].sit \in {"ausente", "cancelada"}
                  THEN <<>> ELSE <<lineas[v]>>

\* An image row whose key was written once has its blob, whatever uploads,
\* deletions, failed transactions and crashes went on around it.
ImagenConBlob ==
  \A v \in Venta : \A i \in imagenes[v] :
    subidas[<<v, i>>] = 1 => <<v, i>> \in blobs

\* The command of p stored photo i of v and has not handed it over yet.
Guardada(p, v, i) == hilo[p].venta = v /\ i \in hilo[p].subidos

\* The command of p is taking photo i of v away.
Quitando(p, v, i, pasos) ==
  hilo[p].pc \in pasos /\ hilo[p].venta = v /\ i \in hilo[p].falta

\* A key written once is the business of one command at a time: of the one
\* that stored it until its row is in, of the row after that, and of the
\* command that took the row out at the end.
BlobDeUno ==
  \A v \in Venta, i \in Imagen :
    /\ subidas[<<v, i>>] = 0 =>
         /\ i \notin imagenes[v]
         /\ \A p \in Peticion : /\ ~Guardada(p, v, i)
                                /\ ~Quitando(p, v, i, {"fila", "blob"})
    /\ subidas[<<v, i>>] = 1 =>
         \A p \in Peticion :
           /\ Guardada(p, v, i) =>
                /\ i \notin imagenes[v]
                /\ \A q \in Peticion :
                     /\ Guardada(q, v, i) => p = q
                     /\ ~Quitando(q, v, i, {"fila", "blob"})
                /\ hilo[p].pc # "limpiar" => <<v, i>> \in blobs
           /\ Quitando(p, v, i, {"blob"}) => i \notin imagenes[v]

IInv ==
  /\ TypeOK
  /\ CandadoDeQuien
  /\ CajaDeQuien
  /\ CopiaVigente
  /\ CopiaBloqueada
  /\ AprobadaSinCambios
  /\ BlobDeUno

\* No two documents carry the same folio: docs/microsip-crear-venta-paso-a-
\* paso.md asks to reserve it "para que dos ventas concurrentes no repitan
\* folio".  LeerFolio reads the counter without a lock.
FoliosUnicos ==
  \A v, w \in Venta :
    v # w => \A n \in DOMAIN doctos[v], k \in DOMAIN doctos[w] :
               doctos[v][n].folio # doctos[w][k].folio

\* What a client of the API sees: VentaUnaVez.
Abstracta == INSTANCE VentaUnaVez WITH
  vida <- [v \in Venta |->
            CASE fila[v].sit = "ausente" -> "nada"
              [] fila[v].sit = "cancelada" -> "cancelada"
              [] fila[v].aplicada -> "vendida"
              [] OTHER -> "abierta"],
  reserva <- [v \in Venta |-> {directos[v][n] : n \in DOMAIN directos[v]}],
  vendido <- [v \in Venta |-> {doctos[v][n].linea : n \in DOMAIN doctos[v]}]

\* The ventas module implements VentaUnaVez: reservation, sale and lines move
\* together, and a sold or cancelled venta never changes again.
ImplementaVenta == Abstracta!Spec
==============================================================================
