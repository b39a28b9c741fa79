------------------------- MODULE VentaAplicada_proofs -------------------------
(***************************************************************************)
(* A venta is sold at most once and for the lines that were approved, and  *)
(* reserves exactly what its rows say, whatever the number of ventas,      *)
(* goroutines, versions and faults.                                        *)
(***************************************************************************)
EXTENDS VentaAplicada, TLAPS

USE VentaAssumption

-----------------------------------------------------------------------------
(* The invariant, one goroutine and one venta at a time *)

Vigente(h) ==
  \/ h.pc \notin {"lineas", "guardar"}
  \/ h.pc = "lineas" /\ h.op \in DeImagen
  \/ /\ h.op \notin DeImagen
     /\ Permite(h.op, h.cab)
     /\ h.cab.sit # "ausente"
     /\ h.cab.version <= fila[h.venta].version
     /\ fila[h.venta].version = h.cab.version =>
          /\ h.cab = fila[h.venta]
          /\ h.pc = "guardar" /\ h.op = "productos" =>
               h.linea.origen = lineas[h.venta].origen

Bloqueada(h) ==
  h.pc \in EnTx =>
    IF h.op = "crear"
    THEN h.pc = "confirmar" /\ fila[h.venta] = SinFila
    ELSE /\ h.cab = fila[h.venta]
         /\ h.pc = "confirmar" =>
              /\ h.op \notin DeImagen \cup {"aplicar"}
              /\ Permite(h.op, h.cab)
              /\ h.cab.sit # "ausente"
              /\ h.op = "productos" =>
                   h.linea.origen = lineas[h.venta].origen
         /\ h.pc # "confirmar" =>
              /\ h.op = "aplicar"
              /\ h.cab.sit = "aprobada" /\ ~h.cab.aplicada
              /\ h.linea = lineas[h.venta]

Aprobada(v) ==
  /\ fila[v].aplicada => fila[v].sit = "aprobada"
  /\ fila[v].sit = "aprobada" => aprobado[v] = lineas[v]
  /\ fila[v].sit = "ausente" => fila[v] = SinFila

Vendida(v) ==
  /\ Len(doctos[v]) = IF fila[v].aplicada THEN 1 ELSE 0
  /\ \A n \in DOMAIN doctos[v] : doctos[v][n].linea = aprobado[v]

Reservada(v) ==
  directos[v] = IF fila[v].sit \in {"ausente", "cancelada"}
                THEN <<>> ELSE <<lineas[v]>>

\* What the steps on photos alone may change.
TipoFotos ==
  /\ imagenes \in [Venta -> SUBSET Imagen]
  /\ blobs \subseteq Venta \X Imagen
  /\ subidas \in [Venta \X Imagen -> 0..2]
  /\ fallas \in Nat

TipoVentas ==
  /\ fila \in [Venta -> Cabecera]
  /\ lineas \in [Venta -> Linea]
  /\ directos \in [Venta -> Seq(Linea)]
  /\ doctos \in [Venta -> Seq(Docto)]
  /\ consecutivo \in Nat
  /\ aprobado \in [Venta -> Linea]

TipoHilos ==
  /\ candado \in [Venta -> Peticion \cup {Nadie}]
  /\ caja \in Peticion \cup {Nadie}
  /\ hilo \in [Peticion -> Hilo]

\* The strengthening that every step preserves.
Nucleo ==
  /\ TipoFotos /\ TipoVentas /\ TipoHilos
  /\ CandadoDeQuien
  /\ CajaDeQuien
  /\ \A p \in Peticion : Vigente(hilo[p]) /\ Bloqueada(hilo[p])
  /\ \A v \in Venta : Aprobada(v) /\ Vendida(v) /\ Reservada(v)

LEMMA NucleoDice ==
  ASSUME Nucleo
  PROVE  /\ TypeOK /\ CandadoDeQuien /\ CajaDeQuien /\ CopiaVigente
         /\ CopiaBloqueada /\ AprobadaSinCambios
         /\ DoctoDeLoAprobado /\ ReservaNeta
<1>1. TypeOK
  BY DEF Nucleo, TypeOK, TipoFotos, TipoVentas, TipoHilos
<1>2. CandadoDeQuien /\ CajaDeQuien
  BY DEF Nucleo
<1>3. CopiaVigente
  BY DEF Nucleo, CopiaVigente, Vigente, Coincide
<1>4. CopiaBloqueada
  BY DEF Nucleo, CopiaBloqueada, Bloqueada
<1>5. AprobadaSinCambios
  BY DEF Nucleo, AprobadaSinCambios, Aprobada
<1>6. DoctoDeLoAprobado
  BY DEF Nucleo, DoctoDeLoAprobado, Vendida
<1>7. ReservaNeta
  BY DEF Nucleo, ReservaNeta, Reservada
<1> QED BY <1>1, <1>2, <1>3, <1>4, <1>5, <1>6, <1>7

-----------------------------------------------------------------------------
(* Frames: what a step of one goroutine leaves alone *)

LEMMA OciosoTipo ==
  /\ Ocioso \in Hilo /\ Cualquiera \in Linea /\ SinFila \in Cabecera
  /\ Ocioso.pc = "ocioso" /\ Ocioso.op = "crear" /\ Ocioso.cab = SinFila
  /\ Ocioso.falta = {} /\ Ocioso.subidos = {}
<1>1. Cualquiera \in Linea
  <2>1. PICK a \in Almacen, c \in Cantidad : TRUE
    BY DEF VentaAssumption
  <2>2. [origen |-> a, cant |-> c] \in Linea
    BY <2>1 DEF Linea
  <2> QED BY <2>2 DEF Cualquiera
<1>2. (CHOOSE v \in Venta : TRUE) \in Venta
  BY DEF VentaAssumption
<1>3. SinFila \in Cabecera
  BY DEF SinFila, Cabecera, Situacion
<1> QED BY <1>1, <1>2, <1>3 DEF Ocioso, Hilo

LEMMA HiloTipo ==
  ASSUME Nucleo, NEW p \in Peticion
  PROVE  /\ hilo[p] \in Hilo /\ hilo[p].venta \in Venta
         /\ hilo[p].cab \in Cabecera /\ hilo[p].linea \in Linea
         /\ hilo[p].falta \subseteq Imagen /\ hilo[p].subidos \subseteq Imagen
         /\ hilo[p].folio \in Nat
         /\ p # Nadie
         /\ Vigente(hilo[p]) /\ Bloqueada(hilo[p])
BY DEF Nucleo, TipoHilos, Hilo, VentaAssumption

\* Only the goroutine p moves, to g.
Mueve(p, g) ==
  /\ hilo' \in [Peticion -> Hilo]
  /\ hilo'[p] = g
  /\ \A q \in Peticion : q # p => hilo'[q] = hilo[q]

LEMMA MueveA ==
  ASSUME Nucleo, NEW p \in Peticion, NEW g \in Hilo,
         hilo' = [hilo EXCEPT ![p] = g]
  PROVE  Mueve(p, g)
BY DEF Nucleo, TipoHilos, Mueve

LEMMA MueveAlFin ==
  ASSUME Nucleo, NEW p \in Peticion, Terminar(p)
  PROVE  Mueve(p, Ocioso)
BY MueveA, OciosoTipo DEF Terminar

LEMMA MueveIr ==
  ASSUME Nucleo, NEW p \in Peticion, 
         NEW paso \in {"subir", "insertar", "confirmar", "blob", "limpiar",
                       "materializar", "marcar"},
         Ir(p, paso)
  PROVE  /\ [hilo[p] EXCEPT !.pc = paso] \in Hilo
         /\ Mueve(p, [hilo[p] EXCEPT !.pc = paso])
<1>1. [hilo[p] EXCEPT !.pc = paso] \in Hilo
  BY HiloTipo DEF Hilo
<1>2. hilo' = [hilo EXCEPT ![p] = [hilo[p] EXCEPT !.pc = paso]]
  BY DEF Ir
<1> QED BY <1>1, <1>2, MueveA

\* A step that writes no row of a venta: what remains is to show what the
\* goroutine carries now, and who holds the locks.
LEMMA SinEscribir ==
  ASSUME Nucleo, NEW p \in Peticion, NEW g, Mueve(p, g),
         UNCHANGED <<fila, lineas, directos, doctos, consecutivo, aprobado>>,
         TipoFotos',
         candado' \in [Venta -> Peticion \cup {Nadie}],
         caja' \in Peticion \cup {Nadie},
         CandadoDeQuien', CajaDeQuien',
         Vigente(g), Bloqueada(g)
  PROVE  Nucleo'
<1>1. TipoVentas' /\ TipoHilos'
  BY DEF Nucleo, TipoVentas, TipoHilos, Mueve
<1>2. ASSUME NEW q \in Peticion PROVE (Vigente(hilo[q]) /\ Bloqueada(hilo[q]))'
  <2>1. Vigente(hilo'[q]) /\ Bloqueada(hilo'[q])
    BY DEF Nucleo, Mueve
  <2> QED BY <2>1 DEF Vigente, Bloqueada
<1>3. ASSUME NEW v \in Venta
      PROVE  (Aprobada(v) /\ Vendida(v) /\ Reservada(v))'
  BY DEF Nucleo, Aprobada, Vendida, Reservada
<1> QED BY <1>1, <1>2, <1>3 DEF Nucleo

\* A goroutine without a lock that goes on without one.
LEMMA FueraDeTx ==
  ASSUME Nucleo, NEW p \in Peticion, NEW g, Mueve(p, g),
         UNCHANGED <<fila, lineas, directos, doctos, consecutivo, aprobado>>,
         TipoFotos', UNCHANGED <<candado, caja>>,
         hilo[p].pc \notin EnTx, g.pc \notin EnTx, Vigente(g)
  PROVE  Nucleo'
<1>1. Bloqueada(g)
  BY DEF Bloqueada
<1>2. CandadoDeQuien'
  BY DEF Nucleo, CandadoDeQuien, Mueve
<1>3. CajaDeQuien'
  BY DEF Nucleo, CajaDeQuien, Mueve, EnTx
<1>4. /\ candado' \in [Venta -> Peticion \cup {Nadie}]
      /\ caja' \in Peticion \cup {Nadie}
  BY DEF Nucleo, TipoHilos
<1> QED BY <1>1, <1>2, <1>3, <1>4, SinEscribir

\* A goroutine that takes the row of its venta.
LEMMA EntraEnTx ==
  ASSUME Nucleo, NEW p \in Peticion, NEW g \in Hilo, Mueve(p, g),
         UNCHANGED <<fila, lineas, directos, doctos, consecutivo, aprobado>>,
         TipoFotos', caja' = caja, Tomar(g.venta, p),
         hilo[p].pc \notin EnTx, g.pc \in EnTx \ {"marcar"}, Bloqueada(g)
  PROVE  Nucleo'
<1>1. Vigente(g)
  BY DEF Vigente, EnTx
<1>2. g.venta \in Venta /\ candado \in [Venta -> Peticion \cup {Nadie}]
  BY DEF Hilo, Nucleo, TipoHilos
<1>3. CandadoDeQuien'
  <2> SUFFICES ASSUME NEW q \in Peticion, NEW v \in Venta
               PROVE  (candado'[v] = q) <=> (hilo'[q].pc \in EnTx /\ hilo'[q].venta = v)
    BY DEF CandadoDeQuien
  <2>0. (candado[v] = q) <=> (hilo[q].pc \in EnTx /\ hilo[q].venta = v)
    BY DEF Nucleo, CandadoDeQuien
  <2>1. CASE q = p
    <3>1. hilo'[q] = g /\ candado[v] # q
      BY <2>0, <2>1 DEF Mueve
    <3> QED BY <3>1, <2>1, <1>2 DEF Tomar
  <2>2. CASE q # p
    <3>1. hilo'[q] = hilo[q] /\ q # Nadie
      BY <2>2 DEF Mueve, VentaAssumption
    <3> QED BY <3>1, <2>0, <2>2, <1>2 DEF Tomar
  <2> QED BY <2>1, <2>2
<1>4. CajaDeQuien'
  BY DEF Nucleo, CajaDeQuien, Mueve, EnTx
<1>5. /\ candado' \in [Venta -> Peticion \cup {Nadie}]
      /\ caja' \in Peticion \cup {Nadie}
  BY <1>2 DEF Nucleo, TipoHilos, Tomar
<1> QED BY <1>1, <1>3, <1>4, <1>5, SinEscribir

\* A goroutine that keeps the row of its venta.
LEMMA SigueEnTx ==
  ASSUME Nucleo, NEW p \in Peticion, NEW g \in Hilo, Mueve(p, g),
         UNCHANGED <<fila, lineas, directos, doctos, consecutivo, aprobado>>,
         TipoFotos', candado' = candado, caja' \in Peticion \cup {Nadie},
         CajaDeQuien', hilo[p].pc \in EnTx, g.pc \in EnTx,
         g.venta = hilo[p].venta, Bloqueada(g)
  PROVE  Nucleo'
<1>1. Vigente(g)
  BY DEF Vigente, EnTx
<1>2. CandadoDeQuien'
  BY DEF Nucleo, CandadoDeQuien, Mueve
<1>3. candado' \in [Venta -> Peticion \cup {Nadie}]
  BY DEF Nucleo, TipoHilos
<1> QED BY <1>1, <1>2, <1>3, SinEscribir

\* Whoever gives up the row v gives up all it held.
LEMMA CandadoSuelto ==
  ASSUME Nucleo, NEW p \in Peticion, NEW g, Mueve(p, g), g.pc \notin EnTx,
         NEW v \in Venta, candado[v] = p,
         Soltar(v)
  PROVE  /\ candado' \in [Venta -> Peticion \cup {Nadie}]
         /\ CandadoDeQuien'
<1>1. candado \in [Venta -> Peticion \cup {Nadie}]
  BY DEF Nucleo, TipoHilos
<1>2. hilo[p].venta = v
  BY DEF Nucleo, CandadoDeQuien
<1>3. CandadoDeQuien'
  <2> SUFFICES ASSUME NEW q \in Peticion, NEW w \in Venta
               PROVE  (candado'[w] = q) <=> (hilo'[q].pc \in EnTx /\ hilo'[q].venta = w)
    BY DEF CandadoDeQuien
  <2>0. (candado[w] = q) <=> (hilo[q].pc \in EnTx /\ hilo[q].venta = w)
    BY DEF Nucleo, CandadoDeQuien
  <2>1. q # Nadie
    BY DEF VentaAssumption
  <2>2. CASE q = p
    BY <1>1, <1>2, <2>0, <2>1, <2>2 DEF Soltar, Mueve
  <2>3. CASE q # p
    BY <1>1, <2>0, <2>1, <2>3 DEF Soltar, Mueve
  <2> QED BY <2>2, <2>3
<1> QED BY <1>1, <1>3 DEF Soltar

\* Every venta but v stays as it is.
SoloVenta(v) ==
  \A w \in Venta : w # v =>
    /\ fila'[w] = fila[w] /\ lineas'[w] = lineas[w]
    /\ directos'[w] = directos[w] /\ doctos'[w] = doctos[w]
    /\ aprobado'[w] = aprobado[w]

\* What VentaUnaVez sees of a venta, and what it may see happen to it.
Vida(v) ==
  CASE fila[v].sit = "ausente" -> "nada"
    [] fila[v].sit = "cancelada" -> "cancelada"
    [] fila[v].aplicada -> "vendida"
    [] OTHER -> "abierta"

Efecto(v) ==
  /\ SoloVenta(v)
  /\ \/ Vida(v) \in {"nada", "abierta"} /\ Vida(v)' = "abierta"
     \/ /\ Vida(v) = "abierta" /\ Vida(v)' \in {"cancelada", "vendida"}
        /\ lineas'[v] = lineas[v]

\* A step that writes the row v, under its lock: the copies of it that others
\* carry are outdated by the new version, and every other venta is untouched.
LEMMA Escribe ==
  ASSUME Nucleo, NEW p \in Peticion, NEW v \in Venta, Mueve(p, Ocioso),
         candado[v] = p, Soltar(v), caja' \in Peticion \cup {Nadie}, CajaDeQuien',
         TipoFotos', TipoVentas',
         SoloVenta(v),
         \/ fila'[v].version = fila[v].version + 1
         \/ fila[v] = SinFila,
         (Aprobada(v) /\ Vendida(v) /\ Reservada(v))'
  PROVE  Nucleo'
<1>1. hilo[p].pc \in EnTx /\ hilo[p].venta = v
  BY DEF Nucleo, CandadoDeQuien
<1>2. Ocioso.pc \notin EnTx /\ Ocioso.pc = "ocioso"
  BY OciosoTipo DEF EnTx
<1>3. CandadoDeQuien' /\ candado' \in [Venta -> Peticion \cup {Nadie}]
  BY <1>2, CandadoSuelto
<1>4. TipoHilos'
  BY <1>3 DEF TipoHilos, Mueve
<1>5. ASSUME NEW w \in Venta PROVE (Aprobada(w) /\ Vendida(w) /\ Reservada(w))'
  <2>1. CASE w = v
    BY <2>1
  <2>2. CASE w # v
    <3>1. Aprobada(w) /\ Vendida(w) /\ Reservada(w)
      BY DEF Nucleo
    <3> QED BY <2>2, <3>1 DEF Aprobada, Vendida, Reservada, SoloVenta
  <2> QED BY <2>1, <2>2
<1>6. ASSUME NEW q \in Peticion PROVE (Vigente(hilo[q]) /\ Bloqueada(hilo[q]))'
  <2>1. CASE q = p
    <3>1. hilo'[q] = Ocioso
      BY <2>1 DEF Mueve
    <3> QED BY <3>1, <1>2 DEF Vigente, Bloqueada
  <2>2. CASE q # p
    <3> DEFINE h == hilo[q]
    <3>1. /\ hilo'[q] = h /\ Vigente(h) /\ Bloqueada(h)
          /\ h.venta \in Venta /\ h.cab \in Cabecera
      BY <2>2, HiloTipo DEF Mueve
    <3>2. CASE h.venta # v
      <4>1. fila'[h.venta] = fila[h.venta] /\ lineas'[h.venta] = lineas[h.venta]
        BY <3>1, <3>2 DEF SoloVenta
      <4> QED BY <3>1, <4>1 DEF Vigente, Bloqueada
    <3>3. CASE h.venta = v
      <4>1. h.pc \notin EnTx
        BY <2>2, <3>3 DEF Nucleo, CandadoDeQuien
      <4>2. /\ h.cab.version \in Nat /\ fila[v].version \in Nat
            /\ fila'[v].version \in Nat
        BY <3>1 DEF Nucleo, TipoVentas, Cabecera
      <4>3. CASE fila'[v].version = fila[v].version + 1
        <5>1. h.cab.version <= fila[v].version =>
                /\ h.cab.version <= fila'[v].version
                /\ fila'[v].version # h.cab.version
          BY <4>2, <4>3
        <5> QED BY <3>1, <3>3, <4>1, <5>1 DEF Vigente, Bloqueada
      <4>4. CASE fila[v] = SinFila
        <5>1. fila[v].version = 0 /\ fila[v].sit = "ausente"
          BY <4>4 DEF SinFila
        <5>2. h.cab.version <= fila[v].version => fila[v].version = h.cab.version
          BY <4>2, <5>1
        <5>3. h.pc \notin {"lineas", "guardar"} \/ (h.pc = "lineas" /\ h.op \in DeImagen)
          BY <3>1, <3>3, <5>1, <5>2 DEF Vigente
        <5> QED BY <3>1, <4>1, <5>3 DEF Vigente, Bloqueada
      <4> QED BY <4>3, <4>4
    <3> QED BY <3>2, <3>3
  <2> QED BY <2>1, <2>2
<1> QED BY <1>3, <1>4, <1>5, <1>6 DEF Nucleo

-----------------------------------------------------------------------------
(* Creation and images *)

\* The steps that touch photos leave the stored files and the rows well typed.
LEMMA FotosTipo ==
  ASSUME Nucleo, NEW p \in Peticion,
         \/ \E i \in Imagen : GuardarBlob(p, i)
         \/ ConfirmarCreacion(p) \/ InsertarImagen(p) \/ Limpiar(p)
         \/ BorrarFila(p) \/ BorrarBlob(p)
         \/ GuardarFalla(p) \/ Abortar(p) \/ Caer(p)
  PROVE  TipoFotos'
<1>1. TipoFotos /\ hilo[p].venta \in Venta /\ hilo[p].subidos \subseteq Imagen
  BY HiloTipo DEF Nucleo
<1>2. ASSUME NEW i \in Imagen, GuardarBlob(p, i) PROVE TipoFotos'
  <2>1. <<hilo[p].venta, i>> \in Venta \X Imagen
    BY <1>1
  <2>2. subidas' \in [Venta \X Imagen -> 0..2]
    <3> DEFINE b == <<hilo[p].venta, i>>
    <3>1. subidas' = [subidas EXCEPT ![b] = IF @ < 2 THEN @ + 1 ELSE @]
      BY <1>2 DEF GuardarBlob
    <3>2. b \in Venta \X Imagen /\ subidas \in [Venta \X Imagen -> 0..2]
      BY <1>1, <2>1 DEF TipoFotos
    <3> HIDE DEF b
    <3>3. (IF subidas[b] < 2 THEN subidas[b] + 1 ELSE subidas[b]) \in 0..2
      BY <3>2
    <3> QED BY <3>1, <3>2, <3>3
  <2> QED BY <1>1, <1>2, <2>1, <2>2 DEF GuardarBlob, TipoFotos
<1>3. CASE ConfirmarCreacion(p)
  BY <1>1, <1>3 DEF ConfirmarCreacion, TipoFotos
<1>4. CASE InsertarImagen(p)
  BY <1>1, <1>4 DEF InsertarImagen, TipoFotos
<1>5. CASE Limpiar(p)
  <2>1. blobs' \subseteq blobs /\ fallas' \in Nat
    BY <1>1, <1>5 DEF Limpiar, Falla, TipoFotos
  <2> QED BY <1>1, <1>5, <2>1 DEF Limpiar, TipoFotos
<1>6. CASE BorrarFila(p)
  <2>1. imagenes' \in [Venta -> SUBSET Imagen]
    BY <1>1, <1>6 DEF BorrarFila, TipoFotos
  <2> QED BY <1>1, <1>6, <2>1 DEF BorrarFila, TipoFotos
<1>7. CASE BorrarBlob(p)
  BY <1>1, <1>7 DEF BorrarBlob, Falla, TipoFotos
<1>8. CASE GuardarFalla(p) \/ Abortar(p) \/ Caer(p)
  BY <1>1, <1>8 DEF GuardarFalla, Abortar, Caer, Falla, TipoFotos
<1> QED BY <1>2, <1>3, <1>4, <1>5, <1>6, <1>7, <1>8

LEMMA PasoCrearVentaConImagenes ==
  ASSUME Nucleo, NEW p \in Peticion, NEW v \in Venta, NEW l \in Linea,
         NEW fotos \in SUBSET Imagen, CrearVentaConImagenes(p, v, l, fotos)
  PROVE  Nucleo'
<1> DEFINE g == [Ocioso EXCEPT !.pc = "subir", !.venta = v, !.linea = l,
                               !.falta = fotos]
<1>1. g \in Hilo
  BY OciosoTipo DEF Hilo
<1>2. Mueve(p, g)
  BY <1>1, MueveA DEF CrearVentaConImagenes
<1>3. g.pc = "subir"
  BY OciosoTipo DEF Hilo
<1> HIDE DEF g
<1>4. Vigente(g) /\ g.pc \notin EnTx /\ hilo[p].pc \notin EnTx
  BY <1>3 DEF Vigente, EnTx, CrearVentaConImagenes
<1>5. TipoFotos'
  BY DEF CrearVentaConImagenes, Nucleo, TipoFotos
<1> QED BY <1>2, <1>4, <1>5, FueraDeTx DEF CrearVentaConImagenes

LEMMA PasoGuardarBlob ==
  ASSUME Nucleo, NEW p \in Peticion, NEW i \in Imagen, GuardarBlob(p, i)
  PROVE  Nucleo'
<1>1. PICK paso \in {"subir", "insertar"} :
        hilo' = [hilo EXCEPT ![p].falta = @ \ {i}, ![p].subidos = @ \cup {i},
                             ![p].pc = paso]
  BY DEF GuardarBlob
<1> DEFINE g == [hilo[p] EXCEPT !.falta = @ \ {i}, !.subidos = @ \cup {i},
                                !.pc = paso]
<1>2. g \in Hilo /\ g.pc = paso
  BY HiloTipo DEF Hilo
<1>3. hilo' = [hilo EXCEPT ![p] = g]
  BY <1>1
<1> HIDE DEF g
<1>4. Mueve(p, g)
  BY <1>2, <1>3, MueveA
<1>5. Vigente(g) /\ g.pc \notin EnTx /\ hilo[p].pc \notin EnTx
  BY <1>2 DEF Vigente, EnTx, GuardarBlob
<1> QED BY <1>4, <1>5, FotosTipo, FueraDeTx DEF GuardarBlob

LEMMA PasoGuardarFalla ==
  ASSUME Nucleo, NEW p \in Peticion, GuardarFalla(p) PROVE Nucleo'
<1> DEFINE g == [hilo[p] EXCEPT !.pc = "limpiar"]
<1>1. g \in Hilo /\ Mueve(p, g)
  BY MueveIr DEF GuardarFalla
<1>2. g.pc = "limpiar"
  BY HiloTipo DEF Hilo
<1> HIDE DEF g
<1>3. Vigente(g) /\ g.pc \notin EnTx /\ hilo[p].pc \notin EnTx
  BY <1>2 DEF Vigente, EnTx, GuardarFalla
<1> QED BY <1>1, <1>3, FotosTipo, FueraDeTx DEF GuardarFalla

LEMMA PasoInsertarVenta ==
  ASSUME Nucleo, NEW p \in Peticion, InsertarVenta(p) PROVE Nucleo'
<1>1. TipoFotos' /\ hilo[p].pc = "insertar" /\ hilo[p].op = "crear"
  BY DEF InsertarVenta, Nucleo, TipoFotos
<1>2. CASE fila[hilo[p].venta].sit = "ausente"
  <2> DEFINE g == [hilo[p] EXCEPT !.pc = "confirmar"]
  <2>1. Tomar(hilo[p].venta, p) /\ Ir(p, "confirmar")
    BY <1>2 DEF InsertarVenta
  <2>2. g \in Hilo /\ Mueve(p, g)
    BY <2>1, MueveIr
  <2>3. g.pc = "confirmar" /\ g.op = "crear" /\ g.venta = hilo[p].venta
    BY <1>1, HiloTipo DEF Hilo
  <2> HIDE DEF g
  <2>4. fila[g.venta] = SinFila
    BY <1>2, <2>3, HiloTipo DEF Nucleo, Aprobada
  <2>5. Bloqueada(g) /\ g.pc \in EnTx \ {"marcar"} /\ hilo[p].pc \notin EnTx
    BY <1>1, <2>3, <2>4 DEF Bloqueada, EnTx
  <2> QED BY <1>1, <2>1, <2>2, <2>3, <2>5, EntraEnTx DEF InsertarVenta
<1>3. CASE fila[hilo[p].venta].sit # "ausente"
  <2> DEFINE g == [hilo[p] EXCEPT !.pc = "limpiar"]
  <2>1. Ir(p, "limpiar") /\ candado' = candado
    BY <1>3 DEF InsertarVenta
  <2>2. g \in Hilo /\ Mueve(p, g)
    BY <2>1, MueveIr
  <2>3. g.pc = "limpiar"
    BY <1>1, HiloTipo DEF Hilo
  <2> HIDE DEF g
  <2>4. Vigente(g) /\ g.pc \notin EnTx /\ hilo[p].pc \notin EnTx
    BY <1>1, <2>3 DEF Vigente, EnTx
  <2> QED BY <1>1, <2>1, <2>2, <2>4, FueraDeTx DEF InsertarVenta
<1> QED BY <1>2, <1>3

LEMMA PasoInsertarImagen ==
  ASSUME Nucleo, NEW p \in Peticion, InsertarImagen(p) PROVE Nucleo'
<1>1. Mueve(p, Ocioso)
  BY MueveAlFin DEF InsertarImagen
<1>2. Vigente(Ocioso) /\ Ocioso.pc \notin EnTx /\ hilo[p].pc \notin EnTx
  BY OciosoTipo DEF Vigente, EnTx, InsertarImagen
<1> QED BY <1>1, <1>2, FotosTipo, FueraDeTx DEF InsertarImagen

LEMMA PasoAbortar ==
  ASSUME Nucleo, NEW p \in Peticion, Abortar(p) PROVE Nucleo'
<1> DEFINE g == [hilo[p] EXCEPT !.pc = "limpiar"]
<1>1. g \in Hilo /\ Mueve(p, g)
  BY MueveIr DEF Abortar
<1>2. g.pc = "limpiar" /\ hilo[p].venta \in Venta
  BY HiloTipo DEF Hilo
<1> HIDE DEF g
<1>3. Vigente(g) /\ Bloqueada(g) /\ g.pc \notin EnTx
  BY <1>2 DEF Vigente, Bloqueada, EnTx
<1>4. CASE hilo[p].pc = "insertar" /\ candado' = candado
  <2>1. hilo[p].pc \notin EnTx
    BY <1>4 DEF EnTx
  <2> QED BY <1>1, <1>3, <1>4, <2>1, FotosTipo, FueraDeTx DEF Abortar
<1>5. CASE hilo[p].pc = "confirmar" /\ Soltar(hilo[p].venta)
  <2>1. candado[hilo[p].venta] = p
    BY <1>2, <1>5 DEF Nucleo, CandadoDeQuien, EnTx
  <2>2. CandadoDeQuien' /\ candado' \in [Venta -> Peticion \cup {Nadie}]
    BY <1>1, <1>2, <1>3, <1>5, <2>1, CandadoSuelto
  <2>3. CajaDeQuien' /\ caja' \in Peticion \cup {Nadie}
    BY <1>1, <1>2, <1>5 DEF Nucleo, TipoHilos, CajaDeQuien, Mueve, Abortar
  <2> QED BY <1>1, <1>3, <2>2, <2>3, FotosTipo, SinEscribir DEF Abortar
<1> QED BY <1>4, <1>5 DEF Abortar

LEMMA PasoLimpiar ==
  ASSUME Nucleo, NEW p \in Peticion, Limpiar(p) PROVE Nucleo'
<1>1. hilo[p].pc = "limpiar" /\ hilo[p].pc \notin EnTx
  BY DEF Limpiar, EnTx
<1>2. CASE hilo[p].subidos = {}
  <2>1. Mueve(p, Ocioso)
    BY <1>2, MueveAlFin DEF Limpiar
  <2>2. Vigente(Ocioso) /\ Ocioso.pc \notin EnTx
    BY OciosoTipo DEF Vigente, EnTx
  <2> QED BY <1>1, <2>1, <2>2, FotosTipo, FueraDeTx DEF Limpiar
<1>3. CASE hilo[p].subidos # {}
  <2>1. PICK i \in hilo[p].subidos : hilo' = [hilo EXCEPT ![p].subidos = @ \ {i}]
    BY <1>3 DEF Limpiar
  <2> DEFINE g == [hilo[p] EXCEPT !.subidos = @ \ {i}]
  <2>2. g \in Hilo /\ g.pc = "limpiar"
    BY <1>1, HiloTipo DEF Hilo
  <2>3. hilo' = [hilo EXCEPT ![p] = g]
    BY <2>1
  <2> HIDE DEF g
  <2>4. Mueve(p, g)
    BY <2>2, <2>3, MueveA
  <2>5. Vigente(g) /\ g.pc \notin EnTx
    BY <2>2 DEF Vigente, EnTx
  <2> QED BY <1>1, <2>4, <2>5, FotosTipo, FueraDeTx DEF Limpiar
<1> QED BY <1>2, <1>3

-----------------------------------------------------------------------------
(* Commands on a captured venta *)

LEMMA PasoLeerCabecera ==
  ASSUME Nucleo, NEW p \in Peticion, NEW v \in Venta,
         NEW op \in DeLineas \cup DeDatos \cup DeEstado \cup DeImagen,
         LeerCabecera(p, v, op)
  PROVE  Nucleo'
<1>1. PICK c \in Cabecera :
        /\ hilo' = [hilo EXCEPT ![p] = [Ocioso EXCEPT !.pc = "lineas", !.op = op,
                                          !.venta = v, !.cab = c]]
        /\ op \notin DeImagen => c = fila[v]
  <2>1. CASE op \in DeImagen
    BY <2>1, OciosoTipo DEF LeerCabecera
  <2>2. CASE op \notin DeImagen
    <3>1. fila[v] \in Cabecera
      BY DEF Nucleo, TipoVentas
    <3> QED BY <2>2, <3>1 DEF LeerCabecera
  <2> QED BY <2>1, <2>2
<1> DEFINE g == [Ocioso EXCEPT !.pc = "lineas", !.op = op, !.venta = v, !.cab = c]
<1>2. /\ g \in Hilo /\ g.pc = "lineas" /\ g.op = op /\ g.venta = v /\ g.cab = c
  BY OciosoTipo DEF Hilo
<1>3. Mueve(p, g)
  BY <1>1, <1>2, MueveA
<1> HIDE DEF g
<1>4. Permite(op, fila[v]) /\ fila[v].sit # "ausente" /\ fila[v].version \in Nat
  BY DEF LeerCabecera, Nucleo, TipoVentas, Cabecera
<1>5. Vigente(g) /\ g.pc \notin EnTx /\ hilo[p].pc \notin EnTx
  BY <1>1, <1>2, <1>4 DEF Vigente, EnTx, LeerCabecera
<1>6. TipoFotos'
  BY DEF LeerCabecera, Nucleo, TipoFotos
<1> QED BY <1>3, <1>5, <1>6, FueraDeTx DEF LeerCabecera

\* What ReemplazarProductos writes keeps the warehouse it read.
LEMMA NuevasTipo ==
  ASSUME NEW op, NEW leidas \in Linea, NEW l \in Nuevas(op, leidas)
  PROVE  l \in Linea /\ (op = "productos" => l.origen = leidas.origen)
<1>1. CASE op = "productos"
  BY <1>1 DEF Nuevas, Linea
<1>2. CASE op = "lineas"
  BY <1>2 DEF Nuevas
<1>3. CASE op \notin {"productos", "lineas"}
  BY <1>3, OciosoTipo DEF Nuevas
<1> QED BY <1>1, <1>2, <1>3

LEMMA PasoLeerLineas ==
  ASSUME Nucleo, NEW p \in Peticion, LeerLineas(p) PROVE Nucleo'
<1>1. hilo[p].pc = "lineas" /\ hilo[p].pc \notin EnTx /\ TipoFotos'
  BY DEF LeerLineas, EnTx, Nucleo, TipoFotos
<1>2. ASSUME NEW g, Mueve(p, g), g.pc \notin EnTx, Vigente(g) PROVE Nucleo'
  BY <1>1, <1>2, FueraDeTx DEF LeerLineas
<1>3. CASE Terminar(p)
  <2>1. Vigente(Ocioso) /\ Ocioso.pc \notin EnTx
    BY OciosoTipo DEF Vigente, EnTx
  <2> QED BY <1>2, <1>3, <2>1, MueveAlFin
<1>4. ASSUME hilo[p].op \notin DeImagen,
             NEW l \in Nuevas(hilo[p].op, lineas[hilo[p].venta]),
             hilo' = [hilo EXCEPT ![p].pc = "guardar", ![p].linea = l]
      PROVE  Nucleo'
  <2> DEFINE g == [hilo[p] EXCEPT !.pc = "guardar", !.linea = l]
  <2>1. lineas[hilo[p].venta] \in Linea
    BY HiloTipo DEF Nucleo, TipoVentas
  <2>2. l \in Linea /\ (hilo[p].op = "productos" => l.origen = lineas[hilo[p].venta].origen)
    BY <1>4, <2>1, NuevasTipo
  <2>3. /\ g \in Hilo /\ g.pc = "guardar" /\ g.op = hilo[p].op /\ g.linea = l
        /\ g.venta = hilo[p].venta /\ g.cab = hilo[p].cab
    BY <2>2, HiloTipo DEF Hilo
  <2>4. hilo' = [hilo EXCEPT ![p] = g]
    BY <1>4
  <2> HIDE DEF g
  <2>5. Mueve(p, g)
    BY <2>3, <2>4, MueveA
  <2>6. Vigente(g)
    BY <1>1, <1>4, <2>2, <2>3, HiloTipo DEF Vigente
  <2> QED BY <1>2, <2>3, <2>5, <2>6 DEF EnTx
<1>5. ASSUME NEW i \in Imagen, NEW paso \in {"subir", "fila"},
             hilo' = [hilo EXCEPT ![p].pc = paso, ![p].falta = {i}]
      PROVE  Nucleo'
  <2> DEFINE g == [hilo[p] EXCEPT !.pc = paso, !.falta = {i}]
  <2>1. g \in Hilo /\ g.pc = paso
    BY HiloTipo DEF Hilo
  <2>2. hilo' = [hilo EXCEPT ![p] = g]
    BY <1>5
  <2> HIDE DEF g
  <2>3. Mueve(p, g)
    BY <2>1, <2>2, MueveA
  <2>4. Vigente(g) /\ g.pc \notin EnTx
    BY <2>1 DEF Vigente, EnTx
  <2> QED BY <1>2, <2>3, <2>4
<1>6. imagenes[hilo[p].venta] \subseteq Imagen
  BY HiloTipo DEF Nucleo, TipoFotos
<1> QED BY <1>3, <1>4, <1>5, <1>6 DEF LeerLineas

LEMMA PasoGuardar ==
  ASSUME Nucleo, NEW p \in Peticion, Guardar(p) PROVE Nucleo'
<1>1. hilo[p].pc = "guardar" /\ hilo[p].pc \notin EnTx /\ TipoFotos'
  BY DEF Guardar, EnTx, Nucleo, TipoFotos
<1>2. CASE Coincide(hilo[p]) /\ InventarioAcepta(hilo[p])
  <2> DEFINE g == [hilo[p] EXCEPT !.pc = "confirmar"]
  <2>1. Tomar(hilo[p].venta, p) /\ Ir(p, "confirmar")
    BY <1>2 DEF Guardar
  <2>2. g \in Hilo /\ Mueve(p, g)
    BY <2>1, MueveIr
  <2>3. /\ g.pc = "confirmar" /\ g.op = hilo[p].op /\ g.venta = hilo[p].venta
        /\ g.cab = hilo[p].cab /\ g.linea = hilo[p].linea
    BY <1>1, HiloTipo DEF Hilo
  <2> HIDE DEF g
  <2>4. /\ g.op \notin DeImagen /\ Permite(g.op, g.cab) /\ g.cab.sit # "ausente"
        /\ g.cab = fila[g.venta]
        /\ g.op = "productos" => g.linea.origen = lineas[g.venta].origen
    BY <1>1, <1>2, <2>3, HiloTipo DEF Vigente, Coincide
  <2>5. g.op # "aplicar" /\ g.op # "crear"
    BY <2>4 DEF Permite, DeLineas, DeDatos, DeImagen
  <2>6. Bloqueada(g) /\ g.pc \in EnTx \ {"marcar"}
    BY <2>3, <2>4, <2>5 DEF Bloqueada, EnTx
  <2> QED BY <1>1, <2>1, <2>2, <2>3, <2>6, EntraEnTx DEF Guardar
<1>3. CASE ~(Coincide(hilo[p]) /\ InventarioAcepta(hilo[p]))
  <2>1. Mueve(p, Ocioso) /\ candado' = candado
    BY <1>3, MueveAlFin DEF Guardar
  <2>2. Vigente(Ocioso) /\ Ocioso.pc \notin EnTx
    BY OciosoTipo DEF Vigente, EnTx
  <2> QED BY <1>1, <2>1, <2>2, FueraDeTx DEF Guardar
<1> QED BY <1>2, <1>3

LEMMA PasoBorrarFila ==
  ASSUME Nucleo, NEW p \in Peticion, BorrarFila(p) PROVE Nucleo'
<1>1. hilo[p].pc = "fila" /\ hilo[p].pc \notin EnTx
  BY DEF BorrarFila, EnTx
<1>2. CASE Ir(p, "blob")
  <2> DEFINE g == [hilo[p] EXCEPT !.pc = "blob"]
  <2>1. g \in Hilo /\ Mueve(p, g)
    BY <1>2, MueveIr
  <2>2. g.pc = "blob"
    BY <1>1, HiloTipo DEF Hilo
  <2> HIDE DEF g
  <2>3. Vigente(g) /\ g.pc \notin EnTx
    BY <2>2 DEF Vigente, EnTx
  <2> QED BY <1>1, <2>1, <2>3, FotosTipo, FueraDeTx DEF BorrarFila
<1>3. CASE Terminar(p)
  <2>1. Vigente(Ocioso) /\ Ocioso.pc \notin EnTx
    BY OciosoTipo DEF Vigente, EnTx
  <2> QED BY <1>1, <1>3, <2>1, MueveAlFin, FotosTipo, FueraDeTx DEF BorrarFila
<1> QED BY <1>2, <1>3 DEF BorrarFila

LEMMA PasoBorrarBlob ==
  ASSUME Nucleo, NEW p \in Peticion, BorrarBlob(p) PROVE Nucleo'
<1>1. Mueve(p, Ocioso)
  BY MueveAlFin DEF BorrarBlob
<1>2. Vigente(Ocioso) /\ Ocioso.pc \notin EnTx /\ hilo[p].pc \notin EnTx
  BY OciosoTipo DEF Vigente, EnTx, BorrarBlob
<1> QED BY <1>1, <1>2, FotosTipo, FueraDeTx DEF BorrarBlob

-----------------------------------------------------------------------------
(* AplicarVenta *)

LEMMA PasoTomarVenta ==
  ASSUME Nucleo, NEW p \in Peticion, NEW v \in Venta, TomarVenta(p, v)
  PROVE  Nucleo'
<1> DEFINE g == [Ocioso EXCEPT !.pc = "folio", !.op = "aplicar", !.venta = v,
                               !.cab = fila[v], !.linea = lineas[v]]
<1>1. fila[v] \in Cabecera /\ lineas[v] \in Linea
  BY DEF Nucleo, TipoVentas
<1>2. /\ g \in Hilo /\ g.pc = "folio" /\ g.op = "aplicar" /\ g.venta = v
      /\ g.cab = fila[v] /\ g.linea = lineas[v]
  BY <1>1, OciosoTipo DEF Hilo
<1>3. Mueve(p, g)
  BY <1>2, MueveA DEF TomarVenta
<1> HIDE DEF g
<1>4. fila[v].sit = "aprobada" /\ ~fila[v].aplicada
  BY DEF TomarVenta, Aplicable
<1>5. Bloqueada(g) /\ g.pc \in EnTx \ {"marcar"} /\ hilo[p].pc \notin EnTx
  BY <1>2, <1>4 DEF Bloqueada, EnTx, TomarVenta
<1>6. TipoFotos' /\ caja' = caja /\ Tomar(g.venta, p)
  BY <1>2 DEF TomarVenta, Nucleo, TipoFotos
<1> QED BY <1>2, <1>3, <1>5, <1>6, EntraEnTx DEF TomarVenta

\* The goroutine of AplicarVenta moves on with all it decided on.
LEMMA SigueAplicando ==
  ASSUME Nucleo, NEW p \in Peticion,
         hilo[p].pc \in {"folio", "materializar", "marcar"},
         NEW g \in Hilo, g.pc \in {"folio", "materializar", "marcar"},
         g.op = hilo[p].op, g.venta = hilo[p].venta, g.cab = hilo[p].cab,
         g.linea = hilo[p].linea
  PROVE  Bloqueada(g)
<1>1. Bloqueada(hilo[p])
  BY HiloTipo
<1> QED BY <1>1 DEF Bloqueada, EnTx

LEMMA PasoLeerFolio ==
  ASSUME Nucleo, NEW p \in Peticion, LeerFolio(p) PROVE Nucleo'
<1> DEFINE g == [hilo[p] EXCEPT !.pc = "materializar", !.folio = consecutivo]
<1>1. hilo[p].pc = "folio" /\ hilo[p].pc \in EnTx /\ consecutivo \in Nat
  BY DEF LeerFolio, EnTx, Nucleo, TipoVentas
<1>2. /\ g \in Hilo /\ g.pc = "materializar" /\ g.op = hilo[p].op
      /\ g.venta = hilo[p].venta /\ g.cab = hilo[p].cab /\ g.linea = hilo[p].linea
  BY <1>1, HiloTipo DEF Hilo
<1>3. hilo' = [hilo EXCEPT ![p] = g]
  BY DEF LeerFolio
<1> HIDE DEF g
<1>4. Mueve(p, g)
  BY <1>2, <1>3, MueveA
<1>5. Bloqueada(g) /\ g.pc \in EnTx
  BY <1>1, <1>2, SigueAplicando DEF EnTx
<1>6. CajaDeQuien' /\ caja' \in Peticion \cup {Nadie}
  BY <1>1, <1>2, <1>4 DEF Nucleo, TipoHilos, CajaDeQuien, Mueve, LeerFolio
<1>7. TipoFotos'
  BY DEF LeerFolio, Nucleo, TipoFotos
<1> QED BY <1>1, <1>2, <1>4, <1>5, <1>6, <1>7, SigueEnTx DEF LeerFolio

LEMMA PasoMaterializar ==
  ASSUME Nucleo, NEW p \in Peticion, Materializar(p) PROVE Nucleo'
<1> DEFINE g == [hilo[p] EXCEPT !.pc = "marcar"]
<1>1. hilo[p].pc = "materializar" /\ hilo[p].pc \in EnTx
  BY DEF Materializar, EnTx
<1>2. g \in Hilo /\ Mueve(p, g)
  BY MueveIr DEF Materializar
<1>3. /\ g.pc = "marcar" /\ g.op = hilo[p].op
      /\ g.venta = hilo[p].venta /\ g.cab = hilo[p].cab /\ g.linea = hilo[p].linea
  BY <1>1, HiloTipo DEF Hilo
<1> HIDE DEF g
<1>4. Bloqueada(g) /\ g.pc \in EnTx
  BY <1>1, <1>2, <1>3, SigueAplicando DEF EnTx
<1>5. CajaDeQuien' /\ caja' \in Peticion \cup {Nadie}
  <2>1. caja = Nadie /\ caja' = p
    BY DEF Materializar
  <2>2. \A q \in Peticion : hilo[q].pc # "marcar"
    BY <2>1 DEF Nucleo, CajaDeQuien, VentaAssumption
  <2> QED BY <1>2, <1>3, <2>1, <2>2 DEF CajaDeQuien, Mueve
<1>6. TipoFotos'
  BY DEF Materializar, Nucleo, TipoFotos
<1> QED BY <1>1, <1>2, <1>3, <1>4, <1>5, <1>6, SigueEnTx DEF Materializar

LEMMA PasoCaer ==
  ASSUME Nucleo, NEW p \in Peticion, Caer(p) PROVE Nucleo'
<1>1. Mueve(p, Ocioso) /\ TipoFotos'
  BY MueveAlFin, FotosTipo DEF Caer
<1>2. /\ Vigente(Ocioso) /\ Bloqueada(Ocioso)
      /\ Ocioso.pc \notin EnTx /\ Ocioso.pc # "marcar"
  BY OciosoTipo DEF Vigente, Bloqueada, EnTx
<1>3. candado' = [v \in Venta |-> IF candado[v] = p THEN Nadie ELSE candado[v]]
  BY DEF Caer
<1>4. candado' \in [Venta -> Peticion \cup {Nadie}]
  BY <1>3 DEF Nucleo, TipoHilos
<1>5. CandadoDeQuien'
  <2> SUFFICES ASSUME NEW q \in Peticion, NEW v \in Venta
               PROVE  (candado'[v] = q) <=> (hilo'[q].pc \in EnTx /\ hilo'[q].venta = v)
    BY DEF CandadoDeQuien
  <2>0. (candado[v] = q) <=> (hilo[q].pc \in EnTx /\ hilo[q].venta = v)
    BY DEF Nucleo, CandadoDeQuien
  <2>1. q # Nadie
    BY DEF VentaAssumption
  <2> QED BY <1>1, <1>2, <1>3, <2>0, <2>1 DEF Mueve
<1>6. CajaDeQuien' /\ caja' \in Peticion \cup {Nadie}
  <2>1. caja' = IF caja = p THEN Nadie ELSE caja
    BY DEF Caer
  <2>2. \A q \in Peticion : q # Nadie
    BY DEF VentaAssumption
  <2> QED BY <1>1, <1>2, <2>1, <2>2 DEF Nucleo, TipoHilos, CajaDeQuien, Mueve
<1> QED BY <1>1, <1>2, <1>4, <1>5, <1>6, SinEscribir DEF Caer

-----------------------------------------------------------------------------
(* The steps that write the row of a venta *)

LEMMA PasoConfirmarCreacion ==
  ASSUME Nucleo, NEW p \in Peticion, ConfirmarCreacion(p)
  PROVE  Nucleo' /\ \E v \in Venta : Efecto(v)
<1>0. PICK v \in Venta, l \in Linea : v = hilo[p].venta /\ l = hilo[p].linea
  BY HiloTipo
<1>1. PICK c \in BOOLEAN :
        fila' = [fila EXCEPT ![v] = [SinFila EXCEPT !.sit = "borrador", !.cliente = c]]
  BY <1>0 DEF ConfirmarCreacion
<1> DEFINE n == [SinFila EXCEPT !.sit = "borrador", !.cliente = c]
<1>2. /\ lineas' = [lineas EXCEPT ![v] = l]
      /\ directos' = [directos EXCEPT ![v] = Append(@, l)]
      /\ Soltar(v) /\ Terminar(p) /\ hilo[p].pc = "confirmar" /\ hilo[p].op = "crear"
      /\ UNCHANGED <<blobs, doctos, consecutivo, caja, subidas, aprobado, fallas>>
  BY <1>0 DEF ConfirmarCreacion
<1>3. v \in Venta /\ l \in Linea /\ Bloqueada(hilo[p])
  BY HiloTipo
<1>4. n \in Cabecera /\ n.sit = "borrador" /\ ~n.aplicada
  BY DEF SinFila, Cabecera, Situacion
<1> HIDE DEF n
<1>5. candado[v] = p
  BY <1>0, <1>2, <1>3 DEF Nucleo, CandadoDeQuien, EnTx
<1>6. fila[v] = SinFila
  BY <1>0, <1>2, <1>3 DEF Bloqueada, EnTx
<1>7. fila[v].sit = "ausente" /\ ~fila[v].aplicada
  BY <1>6 DEF SinFila
<1>8. Reservada(v) /\ Vendida(v) /\ TipoVentas
  BY <1>3 DEF Nucleo
<1>9. fila'[v] = n /\ lineas'[v] = l /\ directos'[v] = <<l>>
  <2>1. directos[v] = <<>>
    BY <1>7, <1>8 DEF Reservada
  <2>2. fila'[v] = n
    BY <1>1, <1>3, <1>8 DEF TipoVentas, n
  <2> QED BY <1>2, <1>3, <1>8, <2>1, <2>2 DEF TipoVentas
<1>10. (Aprobada(v) /\ Vendida(v) /\ Reservada(v))'
  <2>1. Aprobada(v)'
    BY <1>4, <1>9 DEF Aprobada
  <2>2. Vendida(v)'
    BY <1>2, <1>4, <1>7, <1>8, <1>9 DEF Vendida
  <2>3. Reservada(v)'
    BY <1>4, <1>9 DEF Reservada
  <2> QED BY <2>1, <2>2, <2>3
<1>11. TipoVentas'
  <2>1. fila' \in [Venta -> Cabecera]
    BY <1>1, <1>4, <1>8 DEF TipoVentas, n
  <2>2. directos' \in [Venta -> Seq(Linea)]
    BY <1>2, <1>3, <1>8 DEF TipoVentas
  <2> QED BY <1>2, <1>3, <1>8, <2>1, <2>2 DEF TipoVentas
<1>12. SoloVenta(v)
  BY <1>1, <1>2, <1>8 DEF TipoVentas, SoloVenta
<1>13. Mueve(p, Ocioso)
  BY <1>2, MueveAlFin
<1>14. CajaDeQuien' /\ caja' \in Peticion \cup {Nadie}
  BY <1>2, <1>13, OciosoTipo DEF Nucleo, TipoHilos, CajaDeQuien, Mueve
<1>15. Efecto(v)
  BY <1>4, <1>7, <1>9, <1>12 DEF Efecto, Vida
<1>16. Nucleo'
  BY <1>2, <1>3, <1>5, <1>6, <1>10, <1>11, <1>12, <1>13, <1>14, FotosTipo, Escribe
<1> QED BY <1>15, <1>16

\* What a transition decided on the row c leaves of it.
LEMMA Transicion ==
  ASSUME NEW op \in DeLineas \cup DeDatos \cup DeEstado, NEW c \in Cabecera,
         Permite(op, c), c.aplicada => c.sit = "aprobada"
  PROVE  /\ ~c.aplicada
         /\ c.sit # "cancelada"
         /\ op \in DeLineas => c.sit = "borrador" /\ SitTras(op, c) = "borrador"
         /\ op = "cancelar" <=> SitTras(op, c) = "cancelada"
         /\ op = "aprobar" <=> SitTras(op, c) = "aprobada"
         /\ c.sit # "ausente" => SitTras(op, c) \in Situacion \ {"ausente"}
BY DEF Permite, SitTras, Situacion, DeLineas, DeDatos, DeEstado, DeImagen, Cabecera

\* The row a command writes is the one it holds, one version further.
LEMMA Marcada ==
  ASSUME NEW m \in Cabecera
  PROVE  /\ markUpdated(m) \in Cabecera /\ markUpdated(m).sit = m.sit
         /\ markUpdated(m).aplicada = m.aplicada
         /\ markUpdated(m).version = m.version + 1
<1>1. m.version + 1 \in Nat
  BY DEF Cabecera
<1> QED BY <1>1 DEF markUpdated, Cabecera

LEMMA PasoConfirmar ==
  ASSUME Nucleo, NEW p \in Peticion, Confirmar(p)
  PROVE  Nucleo' /\ \E v \in Venta : Efecto(v)
<1>0. PICK v \in Venta, l \in Linea, k \in Cabecera, op \in {hilo[p].op} :
        v = hilo[p].venta /\ l = hilo[p].linea /\ k = hilo[p].cab /\ op = hilo[p].op
  BY HiloTipo
<1>1. PICK c \in BOOLEAN :
        fila' = [fila EXCEPT ![v] = markUpdated([k EXCEPT !.sit = SitTras(op, k),
                                                          !.cliente = c])]
  <2>1. PICK d \in IF op \in DeDatos THEN BOOLEAN ELSE {k.cliente} :
          fila' = [fila EXCEPT ![v] = markUpdated([k EXCEPT !.sit = SitTras(op, k),
                                                            !.cliente = d])]
    BY <1>0 DEF Confirmar
  <2>2. d \in BOOLEAN
    BY DEF Cabecera
  <2> QED BY <2>1, <2>2
<1> DEFINE n == markUpdated([k EXCEPT !.sit = SitTras(op, k), !.cliente = c])
<1>2. /\ lineas' = IF op \in DeLineas THEN [lineas EXCEPT ![v] = l] ELSE lineas
      /\ directos' = [directos EXCEPT ![v] =
                        CASE op \in DeLineas -> Resincronizar(@, l)
                          [] op = "cancelar" -> <<>>
                          [] OTHER -> @]
      /\ aprobado' = IF op = "aprobar" THEN [aprobado EXCEPT ![v] = lineas[v]]
                                       ELSE aprobado
      /\ Soltar(v) /\ Terminar(p) /\ hilo[p].pc = "confirmar" /\ op # "crear"
      /\ UNCHANGED <<imagenes, blobs, doctos, consecutivo, caja, subidas, fallas>>
  BY <1>0 DEF Confirmar
<1>3. candado[v] = p
  BY <1>0, <1>2 DEF Nucleo, CandadoDeQuien, EnTx
<1>4. /\ k = fila[v] /\ op \notin DeImagen \cup {"aplicar"}
      /\ Permite(op, k) /\ k.sit # "ausente"
  BY <1>0, <1>2, HiloTipo DEF Bloqueada, EnTx
<1>5. op \in DeLineas \cup DeDatos \cup DeEstado
  BY <1>4 DEF Permite, DeLineas, DeDatos, DeEstado, DeImagen
<1>6. Aprobada(v) /\ Reservada(v) /\ Vendida(v) /\ TipoVentas /\ TipoFotos
  BY DEF Nucleo
<1>7. /\ ~k.aplicada /\ k.sit # "cancelada"
      /\ op \in DeLineas => k.sit = "borrador" /\ SitTras(op, k) = "borrador"
      /\ op = "cancelar" <=> SitTras(op, k) = "cancelada"
      /\ op = "aprobar" <=> SitTras(op, k) = "aprobada"
      /\ SitTras(op, k) \in Situacion \ {"ausente"}
  <2>1. k.aplicada => k.sit = "aprobada"
    BY <1>4, <1>6 DEF Aprobada
  <2> QED BY <1>4, <1>5, <2>1, Transicion
<1>8. /\ n \in Cabecera /\ n.sit = SitTras(op, k) /\ ~n.aplicada
      /\ n.version = k.version + 1
  <2> DEFINE m == [k EXCEPT !.sit = SitTras(op, k), !.cliente = c]
  <2>1. SitTras(op, k) \in Situacion
    BY <1>7
  <2>2. /\ m \in Cabecera /\ m.sit = SitTras(op, k) /\ ~m.aplicada
        /\ m.version = k.version
    BY <1>7, <2>1 DEF Cabecera
  <2>3. n = markUpdated(m)
    OBVIOUS
  <2> HIDE DEF m, n
  <2> QED BY <2>2, <2>3, Marcada
<1> HIDE DEF n
<1>9. fila' = [fila EXCEPT ![v] = n] /\ fila'[v] = n
  BY <1>1, <1>6 DEF TipoVentas, n
<1>10. lineas' \in [Venta -> Linea] /\ lineas'[v] = IF op \in DeLineas THEN l ELSE lineas[v]
  BY <1>2, <1>6 DEF TipoVentas
<1>11. /\ directos' \in [Venta -> Seq(Linea)]
       /\ directos'[v] = IF n.sit = "cancelada" THEN <<>> ELSE <<lineas'[v]>>
  <2>1. directos[v] = <<lineas[v]>>
    BY <1>4, <1>6, <1>7 DEF Reservada
  <2>2. CASE op \in DeLineas
    <3>0. Resincronizar(directos[v], l) = <<l>>
      BY DEF Resincronizar
    <3>2. op # "cancelar"
      BY <2>2 DEF DeLineas
    <3>1. directos' = [directos EXCEPT ![v] = <<l>>]
      BY <1>2, <2>2, <3>0, <3>2
    <3> QED BY <1>6, <1>7, <1>8, <1>10, <2>2, <3>1, <3>2 DEF TipoVentas
  <2>3. CASE op = "cancelar"
    <3>1. op \notin DeLineas
      BY <2>3 DEF DeLineas
    <3>2. directos' = [directos EXCEPT ![v] = <<>>]
      BY <1>2, <2>3, <3>1
    <3>3. <<>> \in Seq(Linea)
      OBVIOUS
    <3> QED BY <1>6, <1>7, <1>8, <2>3, <3>2, <3>3 DEF TipoVentas
  <2>4. CASE op \notin DeLineas /\ op # "cancelar"
    <3>1. directos' = [directos EXCEPT ![v] = @]
      BY <1>2, <2>4
    <3>2. directos' = directos
      BY <3>1, <1>6 DEF TipoVentas
    <3> QED BY <1>6, <1>7, <1>8, <1>10, <2>1, <2>4, <3>2 DEF TipoVentas
  <2> QED BY <2>2, <2>3, <2>4
<1>12. /\ aprobado' \in [Venta -> Linea]
       /\ n.sit = "aprobada" => aprobado'[v] = lineas'[v]
  <2>1. op = "aprobar" => op \notin DeLineas
    BY DEF DeLineas
  <2> QED BY <1>2, <1>6, <1>7, <1>8, <1>10, <2>1 DEF TipoVentas
<1>13. (Aprobada(v) /\ Vendida(v) /\ Reservada(v))'
  <2>1. Aprobada(v)'
    BY <1>7, <1>8, <1>9, <1>12 DEF Aprobada
  <2>2. doctos'[v] = doctos[v] /\ Len(doctos[v]) = 0 /\ doctos[v] \in Seq(Docto)
    BY <1>2, <1>4, <1>6, <1>7 DEF Vendida, TipoVentas
  <2>3. Vendida(v)'
    BY <1>8, <1>9, <2>2 DEF Vendida
  <2>4. Reservada(v)'
    BY <1>7, <1>8, <1>9, <1>11 DEF Reservada
  <2> QED BY <2>1, <2>3, <2>4
<1>14. TipoVentas'
  <2>1. fila' \in [Venta -> Cabecera]
    BY <1>6, <1>8, <1>9 DEF TipoVentas
  <2> QED BY <1>2, <1>6, <1>10, <1>11, <1>12, <2>1 DEF TipoVentas
<1>15. SoloVenta(v)
  BY <1>2, <1>6, <1>9 DEF TipoVentas, SoloVenta
<1>16. Mueve(p, Ocioso) /\ TipoFotos'
  BY <1>2, <1>6, MueveAlFin DEF TipoFotos
<1>17. CajaDeQuien' /\ caja' \in Peticion \cup {Nadie}
  BY <1>2, <1>16, OciosoTipo DEF Nucleo, TipoHilos, CajaDeQuien, Mueve
<1>18. fila'[v].version = fila[v].version + 1
  BY <1>4, <1>8, <1>9
<1>19. Nucleo'
  BY <1>2, <1>3, <1>13, <1>14, <1>15, <1>16, <1>17, <1>18, Escribe
<1>20. Efecto(v)
  <2>1. Vida(v) = "abierta"
    BY <1>4, <1>7 DEF Vida
  <2>2. CASE n.sit = "cancelada"
    <3>1. Vida(v)' = "cancelada"
      BY <1>7, <1>8, <1>9, <2>2 DEF Vida
    <3>2. lineas'[v] = lineas[v]
      BY <1>7, <1>8, <1>10, <2>2 DEF DeLineas
    <3> QED BY <1>15, <2>1, <3>1, <3>2 DEF Efecto
  <2>3. CASE n.sit # "cancelada"
    <3>1. Vida(v)' = "abierta"
      BY <1>7, <1>8, <1>9, <2>3 DEF Vida
    <3> QED BY <1>15, <2>1, <3>1 DEF Efecto
  <2> QED BY <2>2, <2>3
<1> QED BY <1>19, <1>20

LEMMA PasoMarcarAplicada ==
  ASSUME Nucleo, NEW p \in Peticion, MarcarAplicada(p)
  PROVE  Nucleo' /\ \E v \in Venta : Efecto(v)
<1>0. PICK v \in Venta, k \in Cabecera, l \in Linea, f \in Nat :
        v = hilo[p].venta /\ k = hilo[p].cab /\ l = hilo[p].linea /\ f = hilo[p].folio
  BY HiloTipo
<1> DEFINE n == markUpdated([k EXCEPT !.aplicada = TRUE, !.cliente = TRUE])
           d == [folio |-> f, linea |-> l, nuevo |-> ~k.cliente]
<1>1. /\ fila' = [fila EXCEPT ![v] = n]
      /\ doctos' = [doctos EXCEPT ![v] = Append(@, d)]
      /\ consecutivo' = consecutivo + 1 /\ caja' = Nadie
      /\ Soltar(v) /\ Terminar(p) /\ hilo[p].pc = "marcar"
      /\ UNCHANGED <<lineas, imagenes, blobs, directos, subidas, aprobado, fallas>>
  BY <1>0 DEF MarcarAplicada
<1>2. candado[v] = p
  BY <1>0, <1>1 DEF Nucleo, CandadoDeQuien, EnTx
<1>3. k = fila[v] /\ k.sit = "aprobada" /\ ~k.aplicada /\ l = lineas[v]
  BY <1>0, <1>1, HiloTipo DEF Bloqueada, EnTx
<1>4. Aprobada(v) /\ Reservada(v) /\ Vendida(v) /\ TipoVentas /\ TipoFotos
  BY DEF Nucleo
<1>5. /\ n \in Cabecera /\ n.sit = "aprobada" /\ n.aplicada
      /\ n.version = k.version + 1 /\ d \in Docto /\ d.linea = l
  <2>1. d \in Docto /\ d.linea = l
    BY DEF Docto, Cabecera
  <2> DEFINE m == [k EXCEPT !.aplicada = TRUE, !.cliente = TRUE]
  <2>2. /\ m \in Cabecera /\ m.sit = k.sit /\ m.aplicada /\ m.version = k.version
    BY DEF Cabecera
  <2> HIDE DEF m
  <2>3. n = markUpdated(m)
    BY DEF m
  <2> HIDE DEF n
  <2> QED BY <1>3, <2>1, <2>2, <2>3, Marcada
<1> HIDE DEF n, d
<1>6. fila'[v] = n
  BY <1>1, <1>4 DEF TipoVentas
<1>7. doctos[v] = <<>> /\ doctos'[v] = <<d>>
  <2>1. doctos[v] \in Seq(Docto) /\ Len(doctos[v]) = 0
    BY <1>3, <1>4 DEF TipoVentas, Vendida
  <2>2. doctos[v] = <<>>
    BY <2>1
  <2> QED BY <1>1, <1>4, <2>2 DEF TipoVentas
<1>8. (Aprobada(v) /\ Vendida(v) /\ Reservada(v))'
  <2>1. Aprobada(v)'
    BY <1>1, <1>3, <1>4, <1>5, <1>6 DEF Aprobada
  <2>2. aprobado'[v] = l
    BY <1>1, <1>3, <1>4 DEF Aprobada
  <2>3. Vendida(v)'
    BY <1>5, <1>6, <1>7, <2>2 DEF Vendida
  <2>4. Reservada(v)'
    BY <1>1, <1>3, <1>4, <1>5, <1>6 DEF Reservada
  <2> QED BY <2>1, <2>3, <2>4
<1>9. TipoVentas' /\ TipoFotos'
  <2>1. doctos' \in [Venta -> Seq(Docto)]
    BY <1>1, <1>4, <1>5 DEF TipoVentas
  <2> QED BY <1>1, <1>4, <1>5, <2>1 DEF TipoVentas, TipoFotos
<1>10. SoloVenta(v)
  BY <1>1, <1>4 DEF TipoVentas, SoloVenta
<1>11. Mueve(p, Ocioso)
  BY <1>1, MueveAlFin
<1>12. CajaDeQuien' /\ caja' \in Peticion \cup {Nadie}
  <2>1. caja = p
    BY <1>1 DEF Nucleo, CajaDeQuien
  <2>2. \A q \in Peticion : q # p => hilo[q].pc # "marcar"
    BY <2>1 DEF Nucleo, CajaDeQuien
  <2>3. \A q \in Peticion : q # Nadie
    BY DEF VentaAssumption
  <2> QED BY <1>1, <1>11, <2>2, <2>3, OciosoTipo DEF CajaDeQuien, Mueve
<1>13. fila'[v].version = fila[v].version + 1
  BY <1>3, <1>5, <1>6
<1>14. Nucleo'
  BY <1>1, <1>2, <1>8, <1>9, <1>10, <1>11, <1>12, <1>13, Escribe
<1>15. Efecto(v)
  <2>1. Vida(v) = "abierta" /\ Vida(v)' = "vendida"
    BY <1>3, <1>5, <1>6 DEF Vida
  <2> QED BY <1>1, <1>10, <2>1 DEF Efecto
<1> QED BY <1>14, <1>15

-----------------------------------------------------------------------------
(* The theorems *)

LEMMA NucleoInit == Init => Nucleo
<1> SUFFICES ASSUME Init PROVE Nucleo
  OBVIOUS
<1>1. PICK foto \in Imagen, antes \in SUBSET Previas, sit \in {"revisada", "aprobada"} :
        /\ fila = [v \in Venta |-> IF v \in antes THEN [SinFila EXCEPT !.sit = sit]
                                                  ELSE SinFila]
        /\ lineas = [v \in Venta |-> Cualquiera]
        /\ imagenes = [v \in Venta |-> IF v \in antes THEN {foto} ELSE {}]
        /\ blobs = antes \X {foto}
        /\ directos = [v \in Venta |-> IF v \in antes THEN <<Cualquiera>> ELSE <<>>]
        /\ doctos = [v \in Venta |-> <<>>]
        /\ consecutivo = 1
        /\ candado = [v \in Venta |-> Nadie]
        /\ caja = Nadie
        /\ hilo = [p \in Peticion |-> Ocioso]
        /\ subidas = [b \in Venta \X Imagen |-> IF b \in blobs THEN 1 ELSE 0]
        /\ aprobado = lineas
        /\ fallas = 0
  BY Zenon DEF Init
<1>2. /\ lineas = [v \in Venta |-> Cualquiera]
      /\ doctos = [v \in Venta |-> <<>>]
      /\ consecutivo = 1 /\ caja = Nadie /\ fallas = 0
      /\ candado = [v \in Venta |-> Nadie]
      /\ hilo = [p \in Peticion |-> Ocioso]
      /\ subidas = [b \in Venta \X Imagen |-> IF b \in blobs THEN 1 ELSE 0]
      /\ aprobado = lineas
  BY DEF Init
<1> DEFINE n == [SinFila EXCEPT !.sit = sit]
<1>3. /\ n \in Cabecera /\ n.sit = sit /\ ~n.aplicada
      /\ SinFila.sit = "ausente" /\ ~SinFila.aplicada /\ sit \notin {"ausente", "cancelada"}
  BY OciosoTipo DEF SinFila, Cabecera, Situacion
<1> HIDE DEF n
<1>4. fila = [v \in Venta |-> IF v \in antes THEN n ELSE SinFila]
  BY <1>1 DEF n
<1>5. antes \subseteq Venta
  BY DEF VentaAssumption
<1>6. TipoFotos
  BY <1>1, <1>2, <1>5 DEF TipoFotos
<1>7. TipoVentas
  <2>1. fila \in [Venta -> Cabecera]
    BY <1>3, <1>4, OciosoTipo
  <2>2. directos \in [Venta -> Seq(Linea)]
    <3>1. <<Cualquiera>> \in Seq(Linea) /\ <<>> \in Seq(Linea)
      BY OciosoTipo
    <3> QED BY <1>1, <3>1
  <2> QED BY <1>2, <2>1, <2>2, OciosoTipo DEF TipoVentas
<1>8. TipoHilos
  BY <1>2, OciosoTipo DEF TipoHilos
<1>9. CandadoDeQuien /\ CajaDeQuien
  BY <1>2, OciosoTipo DEF CandadoDeQuien, CajaDeQuien, EnTx, VentaAssumption
<1>10. \A p \in Peticion : Vigente(hilo[p]) /\ Bloqueada(hilo[p])
  BY <1>2, OciosoTipo DEF Vigente, Bloqueada, EnTx
<1>11. ASSUME NEW v \in Venta PROVE Aprobada(v) /\ Vendida(v) /\ Reservada(v)
  <2>1. Aprobada(v)
    BY <1>2, <1>3, <1>4 DEF Aprobada
  <2>2. Vendida(v)
    <3>1. doctos[v] = <<>> /\ ~fila[v].aplicada
      BY <1>2, <1>3, <1>4
    <3> QED BY <3>1 DEF Vendida
  <2>3. Reservada(v)
    BY <1>1, <1>2, <1>3, <1>4 DEF Reservada
  <2> QED BY <2>1, <2>2, <2>3
<1> QED BY <1>6, <1>7, <1>8, <1>9, <1>10, <1>11 DEF Nucleo

LEMMA NucleoPaso == Nucleo /\ [Next]_vars => Nucleo'
<1> SUFFICES ASSUME Nucleo, [Next]_vars PROVE Nucleo'
  OBVIOUS
<1>1. CASE UNCHANGED vars
  BY <1>1 DEF vars, Nucleo, TipoFotos, TipoVentas, TipoHilos, CandadoDeQuien,
              CajaDeQuien, Vigente, Bloqueada, Aprobada, Vendida, Reservada
<1>2. ASSUME NEW p \in Peticion, Crear(p) PROVE Nucleo'
  BY <1>2, PasoCrearVentaConImagenes, PasoGuardarBlob, PasoGuardarFalla,
     PasoInsertarVenta, PasoConfirmarCreacion, PasoInsertarImagen, PasoAbortar,
     PasoLimpiar DEF Crear
<1>3. ASSUME NEW p \in Peticion, Editar(p) PROVE Nucleo'
  BY <1>3, PasoLeerCabecera, PasoLeerLineas, PasoGuardar, PasoConfirmar,
     PasoBorrarFila, PasoBorrarBlob DEF Editar
<1>4. ASSUME NEW p \in Peticion, AplicarVenta(p) PROVE Nucleo'
  BY <1>4, PasoTomarVenta, PasoLeerFolio, PasoMaterializar, PasoMarcarAplicada
     DEF AplicarVenta
<1> QED BY <1>1, <1>2, <1>3, <1>4, PasoCaer DEF Next

THEOREM NucleoSiempre == Spec => []Nucleo
BY NucleoInit, NucleoPaso, PTL DEF Spec

\* However the commands on a venta interleave and fail, Microsip holds one
\* document of it if it is aplicada and none otherwise, and its lines are the
\* ones Aprobar saw.
THEOREM VendidaUnaVez == Spec => []DoctoDeLoAprobado
<1>1. Nucleo => DoctoDeLoAprobado
  BY NucleoDice
<1> QED BY <1>1, NucleoSiempre, PTL

\* The traspasos of a venta reserve exactly the lines its rows hold, from its
\* creation until it is cancelled.
THEOREM ReservaSiempre == Spec => []ReservaNeta
<1>1. Nucleo => ReservaNeta
  BY NucleoDice
<1> QED BY <1>1, NucleoSiempre, PTL

-----------------------------------------------------------------------------
(* The refinement *)

SeVe ==
  \A v \in Venta :
    /\ Vida(v) \in {"nada", "abierta", "cancelada", "vendida"}
    /\ {directos[v][n] : n \in DOMAIN directos[v]}
         = IF Vida(v) \in {"nada", "cancelada"} THEN {} ELSE {lineas[v]}
    /\ {doctos[v][n].linea : n \in DOMAIN doctos[v]}
         = IF Vida(v) = "vendida" THEN {lineas[v]} ELSE {}

\* Under the invariant all that VentaUnaVez sees follows from the life of the
\* venta and from its lines.
LEMMA LoQueSeVe == Nucleo => SeVe
<1> SUFFICES ASSUME Nucleo, NEW v \in Venta
             PROVE  /\ Vida(v) \in {"nada", "abierta", "cancelada", "vendida"}
                    /\ {directos[v][n] : n \in DOMAIN directos[v]}
                         = IF Vida(v) \in {"nada", "cancelada"} THEN {} ELSE {lineas[v]}
                    /\ {doctos[v][n].linea : n \in DOMAIN doctos[v]}
                         = IF Vida(v) = "vendida" THEN {lineas[v]} ELSE {}
  BY DEF SeVe
<1>1. /\ Aprobada(v) /\ Vendida(v) /\ Reservada(v)
      /\ doctos[v] \in Seq(Docto) /\ fila[v].aplicada \in BOOLEAN
  BY DEF Nucleo, TipoVentas, Cabecera
<1>2. /\ Vida(v) \in {"nada", "abierta", "cancelada", "vendida"}
      /\ Vida(v) \in {"nada", "cancelada"} <=> fila[v].sit \in {"ausente", "cancelada"}
      /\ Vida(v) = "vendida" <=> fila[v].aplicada
  <2>1. fila[v].aplicada => fila[v].sit = "aprobada"
    BY <1>1 DEF Aprobada
  <2>2. CASE fila[v].sit = "ausente"
    <3>1. Vida(v) = "nada"
      BY <2>1, <2>2 DEF Vida
    <3> QED BY <2>1, <2>2, <3>1
  <2>3. CASE fila[v].sit = "cancelada"
    <3>1. Vida(v) = "cancelada"
      BY <2>1, <2>3 DEF Vida
    <3> QED BY <2>1, <2>3, <3>1
  <2>4. CASE fila[v].sit \notin {"ausente", "cancelada"} /\ fila[v].aplicada
    <3>1. Vida(v) = "vendida"
      BY <2>4 DEF Vida
    <3> QED BY <2>4, <3>1
  <2>5. CASE fila[v].sit \notin {"ausente", "cancelada"} /\ ~fila[v].aplicada
    <3>1. Vida(v) = "abierta"
      BY <2>5 DEF Vida
    <3> QED BY <2>5, <3>1
  <2> QED BY <2>2, <2>3, <2>4, <2>5
<1>3. {directos[v][n] : n \in DOMAIN directos[v]}
        = IF Vida(v) \in {"nada", "cancelada"} THEN {} ELSE {lineas[v]}
  BY <1>1, <1>2 DEF Reservada
<1>4. CASE fila[v].aplicada
  <2>1. Len(doctos[v]) = 1 /\ doctos[v][1].linea = lineas[v]
    BY <1>1, <1>4 DEF Vendida, Aprobada
  <2>2. DOMAIN doctos[v] = {1}
    BY <1>1, <2>1
  <2> QED BY <1>2, <1>3, <1>4, <2>1, <2>2
<1>5. CASE ~fila[v].aplicada
  <2>1. Len(doctos[v]) = 0
    BY <1>1, <1>5 DEF Vendida
  <2>2. DOMAIN doctos[v] = {}
    BY <1>1, <2>1
  <2> QED BY <1>2, <1>3, <1>5, <2>2
<1> QED BY <1>4, <1>5

LEMMA SeVeDespues == Nucleo' => SeVe'
BY LoQueSeVe, PTL

LEMMA EfectoAbstracto ==
  ASSUME Nucleo, Nucleo', NEW v \in Venta, Efecto(v)
  PROVE  Abstracta!Next
<1>1. SeVe /\ SeVe'
  BY LoQueSeVe, SeVeDespues
<1>2. /\ lineas \in [Venta -> Linea] /\ lineas' \in [Venta -> Linea]
  BY DEF Nucleo, TipoVentas
<1>3. \A w \in Venta : w # v => /\ Vida(w)' = Vida(w) /\ lineas'[w] = lineas[w]
                                 /\ directos'[w] = directos[w]
                                 /\ doctos'[w] = doctos[w]
  BY DEF Efecto, SoloVenta, Vida
<1> DEFINE vida == [w \in Venta |->
                     CASE fila[w].sit = "ausente" -> "nada"
                       [] fila[w].sit = "cancelada" -> "cancelada"
                       [] fila[w].aplicada -> "vendida"
                       [] OTHER -> "abierta"]
           reserva == [w \in Venta |-> {directos[w][n] : n \in DOMAIN directos[w]}]
           vendido == [w \in Venta |-> {doctos[w][n].linea : n \in DOMAIN doctos[w]}]
           l == lineas'[v]
<1>4. lineas' = [lineas EXCEPT ![v] = l] /\ l \in Linea
  BY <1>2, <1>3
<1>5. vida = [w \in Venta |-> Vida(w)] /\ vida' = [w \in Venta |-> Vida(w)']
  BY DEF Vida
<1>6. reserva' = [reserva EXCEPT ![v] = IF Vida(v)' \in {"nada", "cancelada"}
                                        THEN {} ELSE {l}]
  BY <1>1, <1>3 DEF SeVe
<1>7. vendido' = [vendido EXCEPT ![v] = IF Vida(v)' = "vendida" THEN {l} ELSE {}]
  BY <1>1, <1>3 DEF SeVe
<1>8. vendido[v] = IF Vida(v) = "vendida" THEN {lineas[v]} ELSE {}
  BY <1>1 DEF SeVe
<1>9. reserva[v] = IF Vida(v) \in {"nada", "cancelada"} THEN {} ELSE {lineas[v]}
  BY <1>1 DEF SeVe
<1>10. /\ reserva = [w \in Venta |-> reserva[w]]
       /\ vendido = [w \in Venta |-> vendido[w]]
  OBVIOUS
<1>11. /\ Abstracta!Next <=>
             \E w \in Venta :
               \/ \E m \in Linea :
                    /\ vida[w] \in {"nada", "abierta"}
                    /\ vida' = [vida EXCEPT ![w] = "abierta"]
                    /\ lineas' = [lineas EXCEPT ![w] = m]
                    /\ reserva' = [reserva EXCEPT ![w] = {m}]
                    /\ vendido' = vendido
               \/ /\ vida[w] = "abierta"
                  /\ vida' = [vida EXCEPT ![w] = "cancelada"]
                  /\ reserva' = [reserva EXCEPT ![w] = {}]
                  /\ lineas' = lineas /\ vendido' = vendido
               \/ /\ vida[w] = "abierta"
                  /\ vida' = [vida EXCEPT ![w] = "vendida"]
                  /\ vendido' = [vendido EXCEPT ![w] = {lineas[w]}]
                  /\ lineas' = lineas /\ reserva' = reserva
  BY Zenon DEF Abstracta!Next, Abstracta!Escribir, Abstracta!Cancelar, Abstracta!Vender
<1> HIDE DEF vida, reserva, vendido, l
<1>12. vida[v] = Vida(v) /\ vida' = [vida EXCEPT ![v] = Vida(v)']
  BY <1>3, <1>5
<1>13. CASE Vida(v) \in {"nada", "abierta"} /\ Vida(v)' = "abierta"
  <2>1. vendido' = vendido
    BY <1>7, <1>8, <1>10, <1>13
  <2>2. reserva' = [reserva EXCEPT ![v] = {l}]
    BY <1>6, <1>13
  <2> QED BY <1>4, <1>11, <1>12, <1>13, <2>1, <2>2
<1>14. CASE /\ Vida(v) = "abierta" /\ Vida(v)' = "cancelada"
            /\ lineas'[v] = lineas[v]
  <2>1. vendido' = vendido
    BY <1>7, <1>8, <1>10, <1>14
  <2>2. reserva' = [reserva EXCEPT ![v] = {}]
    BY <1>6, <1>14
  <2>3. lineas' = lineas
    BY <1>2, <1>3, <1>14
  <2> QED BY <1>11, <1>12, <1>14, <2>1, <2>2, <2>3
<1>15. CASE /\ Vida(v) = "abierta" /\ Vida(v)' = "vendida"
            /\ lineas'[v] = lineas[v]
  <2>1. vendido' = [vendido EXCEPT ![v] = {lineas[v]}]
    BY <1>7, <1>15 DEF l
  <2>2. reserva' = reserva
    BY <1>6, <1>9, <1>10, <1>15 DEF l
  <2>3. lineas' = lineas
    BY <1>2, <1>3, <1>15
  <2> QED BY <1>11, <1>12, <1>15, <2>1, <2>2, <2>3
<1> QED BY <1>13, <1>14, <1>15 DEF Efecto

\* Every other step changes nothing VentaUnaVez sees.
LEMMA SinEfecto ==
  ASSUME NEW p \in Peticion, Crear(p) \/ Editar(p) \/ AplicarVenta(p) \/ Caer(p)
  PROVE  \/ ConfirmarCreacion(p) \/ Confirmar(p) \/ MarcarAplicada(p)
         \/ UNCHANGED <<fila, lineas, directos, doctos>>
<1>1. CASE Crear(p)
  BY <1>1 DEF Crear, CrearVentaConImagenes, GuardarBlob, GuardarFalla,
              InsertarVenta, InsertarImagen, Abortar, Limpiar
<1>2. CASE Editar(p)
  BY <1>2 DEF Editar, LeerCabecera, LeerLineas, Guardar, BorrarFila, BorrarBlob
<1>3. CASE AplicarVenta(p)
  BY <1>3 DEF AplicarVenta, TomarVenta, LeerFolio, Materializar
<1>4. CASE Caer(p)
  BY <1>4 DEF Caer
<1> QED BY <1>1, <1>2, <1>3, <1>4

LEMMA PasoAbstracto ==
  Nucleo /\ Nucleo' /\ [Next]_vars => [Abstracta!Next]_(Abstracta!ventaVars)
<1> SUFFICES ASSUME Nucleo, Nucleo', [Next]_vars
             PROVE  Abstracta!Next \/ UNCHANGED Abstracta!ventaVars
  OBVIOUS
<1>1. CASE UNCHANGED <<fila, lineas, directos, doctos>>
  BY <1>1 DEF Abstracta!ventaVars
<1>2. ASSUME NEW p \in Peticion,
             ConfirmarCreacion(p) \/ Confirmar(p) \/ MarcarAplicada(p)
      PROVE  Abstracta!Next
  <2>1. \E v \in Venta : Efecto(v)
    BY <1>2, PasoConfirmarCreacion, PasoConfirmar, PasoMarcarAplicada
  <2> QED BY <2>1, EfectoAbstracto
<1>3. CASE UNCHANGED vars
  BY <1>1, <1>3 DEF vars
<1> QED BY <1>1, <1>2, <1>3, SinEfecto DEF Next

LEMMA InicioAbstracto == Init /\ Nucleo => Abstracta!Init
<1> SUFFICES ASSUME Init, Nucleo PROVE Abstracta!Init
  OBVIOUS
<1>1. SeVe
  BY LoQueSeVe
<1>2. \A v \in Venta : Vida(v) \in {"nada", "abierta"}
  <2>1. \A v \in Venta : fila[v].sit # "cancelada" /\ ~fila[v].aplicada
    BY DEF Init, SinFila
  <2> QED BY <2>1 DEF Vida
<1>3. lineas \in [Venta -> Linea]
  BY DEF Nucleo, TipoVentas
<1> DEFINE vida == [w \in Venta |->
                     CASE fila[w].sit = "ausente" -> "nada"
                       [] fila[w].sit = "cancelada" -> "cancelada"
                       [] fila[w].aplicada -> "vendida"
                       [] OTHER -> "abierta"]
           reserva == [w \in Venta |-> {directos[w][n] : n \in DOMAIN directos[w]}]
           vendido == [w \in Venta |-> {doctos[w][n].linea : n \in DOMAIN doctos[w]}]
<1>4. vida = [w \in Venta |-> Vida(w)]
  BY DEF Vida
<1>5. vida \in [Venta -> {"nada", "abierta"}]
  BY <1>2, <1>4
<1>6. reserva = [v \in Venta |-> IF vida[v] = "nada" THEN {} ELSE {lineas[v]}]
  BY <1>1, <1>2, <1>4 DEF SeVe
<1>7. vendido = [v \in Venta |-> {}]
  BY <1>1, <1>2 DEF SeVe
<1> QED BY Zenon, <1>3, <1>5, <1>6, <1>7 DEF Abstracta!Init

\* The ventas module implements VentaUnaVez for any number of ventas and
\* goroutines: captured, edited and reserved together, sold once or cancelled,
\* and then never touched again.
THEOREM Implementa == Spec => ImplementaVenta
<1>1. Init => Abstracta!Init
  BY InicioAbstracto, NucleoInit
<1>2. Nucleo /\ Nucleo' /\ [Next]_vars => [Abstracta!Next]_(Abstracta!ventaVars)
  BY PasoAbstracto
<1> QED BY <1>1, <1>2, NucleoSiempre, PTL DEF Spec, ImplementaVenta, Abstracta!Spec

-----------------------------------------------------------------------------
(* The photos *)

\* BlobDeUno and ImagenConBlob, one photo at a time.
Foto(v, i) ==
  /\ subidas[<<v, i>>] = 0 =>
       /\ i \notin imagenes[v]
       /\ \A p \in Peticion : /\ ~Guardada(p, v, i)
                              /\ ~Quitando(p, v, i, {"fila", "blob"})
  /\ subidas[<<v, i>>] = 1 =>
       /\ i \in imagenes[v] => <<v, i>> \in blobs
       /\ \A p \in Peticion :
            /\ Guardada(p, v, i) =>
                 /\ i \notin imagenes[v]
                 /\ \A q \in Peticion :
                      /\ Guardada(q, v, i) => p = q
                      /\ ~Quitando(q, v, i, {"fila", "blob"})
                 /\ hilo[p].pc # "limpiar" => <<v, i>> \in blobs
            /\ Quitando(p, v, i, {"blob"}) => i \notin imagenes[v]

Fotos == \A v \in Venta, i \in Imagen : Foto(v, i)

LEMMA FotosDice ==
  ASSUME Nucleo
  PROVE  Fotos <=> BlobDeUno /\ ImagenConBlob
<1>1. \A v \in Venta : imagenes[v] \subseteq Imagen
  BY DEF Nucleo, TipoFotos
<1>2. Fotos => BlobDeUno
  BY DEF Fotos, Foto, BlobDeUno
<1>3. Fotos => ImagenConBlob
  BY <1>1 DEF Fotos, Foto, ImagenConBlob
<1>4. BlobDeUno /\ ImagenConBlob => Fotos
  BY DEF Fotos, Foto, BlobDeUno, ImagenConBlob
<1> QED BY <1>2, <1>3, <1>4

\* The other goroutines wait.
LosDemas(p) == \A q \in Peticion : q # p => hilo'[q] = hilo[q]

LEMMA UnoMueve ==
  ASSUME Nucleo, NEW p \in Peticion,
         Crear(p) \/ Editar(p) \/ AplicarVenta(p) \/ Caer(p)
  PROVE  LosDemas(p)
<1>1. hilo \in [Peticion -> Hilo]
  BY DEF Nucleo, TipoHilos
<1>2. ASSUME NEW g, hilo' = [hilo EXCEPT ![p] = g] PROVE LosDemas(p)
  BY <1>1, <1>2 DEF LosDemas
<1>3. Terminar(p) => LosDemas(p)
  BY <1>1 DEF LosDemas, Terminar
<1>4. ASSUME NEW paso, Ir(p, paso) PROVE LosDemas(p)
  BY <1>1, <1>4 DEF LosDemas, Ir
<1>5. CASE Crear(p)
  <2>1. ASSUME NEW v \in Venta, NEW l \in Linea, NEW fotos \in SUBSET Imagen,
               CrearVentaConImagenes(p, v, l, fotos)
        PROVE  LosDemas(p)
    BY <1>2, <2>1 DEF CrearVentaConImagenes
  <2>2. ASSUME NEW i \in Imagen, GuardarBlob(p, i) PROVE LosDemas(p)
    BY <1>1, <2>2 DEF GuardarBlob, LosDemas
  <2>3. ASSUME Limpiar(p) PROVE LosDemas(p)
    BY <1>1, <1>3, <2>3 DEF Limpiar, LosDemas
  <2> QED BY <1>3, <1>4, <1>5, <2>1, <2>2, <2>3
          DEF Crear, GuardarFalla, InsertarVenta, ConfirmarCreacion, InsertarImagen,
              Abortar
<1>6. CASE Editar(p)
  <2>1. ASSUME NEW v \in Venta, NEW op, LeerCabecera(p, v, op) PROVE LosDemas(p)
    BY <1>2, <2>1 DEF LeerCabecera
  <2>2. ASSUME LeerLineas(p) PROVE LosDemas(p)
    BY <1>1, <1>3, <2>2 DEF LeerLineas, LosDemas
  <2> QED BY <1>3, <1>4, <1>6, <2>1, <2>2
          DEF Editar, Guardar, Confirmar, BorrarFila, BorrarBlob
<1>7. CASE AplicarVenta(p)
  <2>1. ASSUME NEW v \in Venta, TomarVenta(p, v) PROVE LosDemas(p)
    BY <1>2, <2>1 DEF TomarVenta
  <2>2. ASSUME LeerFolio(p) PROVE LosDemas(p)
    BY <1>1, <2>2 DEF LeerFolio, LosDemas
  <2> QED BY <1>3, <1>4, <1>7, <2>1, <2>2 DEF AplicarVenta, Materializar, MarcarAplicada
<1>8. CASE Caer(p)
  BY <1>3, <1>8 DEF Caer
<1> QED BY <1>5, <1>6, <1>7, <1>8

\* A step that neither begins nor ends anything with photo i of v, where the
\* goroutine may let go of it.
LEMMA FotoQuieta ==
  ASSUME NEW v \in Venta, NEW i \in Imagen, Foto(v, i), NEW p \in Peticion,
         LosDemas(p),
         i \in imagenes'[v] <=> i \in imagenes[v],
         <<v, i>> \in blobs' <=> <<v, i>> \in blobs,
         subidas'[<<v, i>>] = subidas[<<v, i>>],
         Guardada(p, v, i)' =>
           Guardada(p, v, i) /\ (hilo[p].pc = "limpiar" => hilo'[p].pc = "limpiar"),
         Quitando(p, v, i, {"fila", "blob"})' => Quitando(p, v, i, {"fila", "blob"}),
         Quitando(p, v, i, {"blob"})' => Quitando(p, v, i, {"blob"})
  PROVE  Foto(v, i)'
<1>1. \A q \in Peticion : q # p =>
        /\ Guardada(q, v, i)' <=> Guardada(q, v, i)
        /\ Quitando(q, v, i, {"fila", "blob"})' <=> Quitando(q, v, i, {"fila", "blob"})
        /\ Quitando(q, v, i, {"blob"})' <=> Quitando(q, v, i, {"blob"})
        /\ hilo'[q] = hilo[q]
  BY DEF LosDemas, Guardada, Quitando
<1> QED BY <1>1 DEF Foto

\* A goroutine that stores, keeps and takes away no photo.
Ajeno(p) ==
  /\ hilo'[p].pc \notin {"fila", "blob"}
  /\ \/ hilo'[p].subidos = {}
     \/ /\ hilo'[p].subidos = hilo[p].subidos
        /\ hilo'[p].venta = hilo[p].venta
        /\ hilo[p].pc # "limpiar"

LEMMA FotosAjenas ==
  ASSUME Fotos, NEW p \in Peticion, LosDemas(p), Ajeno(p),
         UNCHANGED <<imagenes, blobs, subidas>>
  PROVE  Fotos'
<1> SUFFICES ASSUME NEW v \in Venta, NEW i \in Imagen PROVE Foto(v, i)'
  BY DEF Fotos
<1>1. Foto(v, i)
  BY DEF Fotos
<1>2. Guardada(p, v, i)' =>
        Guardada(p, v, i) /\ (hilo[p].pc = "limpiar" => hilo'[p].pc = "limpiar")
  BY DEF Ajeno, Guardada
<1>3. ~Quitando(p, v, i, {"fila", "blob"})' /\ ~Quitando(p, v, i, {"blob"})'
  BY DEF Ajeno, Quitando
<1> QED BY <1>1, <1>2, <1>3, FotoQuieta

LEMMA AjenoAlFin ==
  ASSUME Nucleo, NEW p \in Peticion, Terminar(p) PROVE Ajeno(p)
<1>1. hilo'[p] = Ocioso
  BY DEF Nucleo, TipoHilos, Terminar
<1> QED BY <1>1, OciosoTipo DEF Ajeno

LEMMA AjenoIr ==
  ASSUME Nucleo, NEW p \in Peticion, NEW paso, Ir(p, paso),
         paso \notin {"fila", "blob"}, hilo[p].pc # "limpiar"
  PROVE  Ajeno(p)
<1>1. hilo'[p] = [hilo[p] EXCEPT !.pc = paso]
  BY DEF Nucleo, TipoHilos, Ir
<1>2. hilo[p] \in Hilo
  BY HiloTipo
<1> QED BY <1>1, <1>2 DEF Ajeno, Hilo

LEMMA PasoAjeno ==
  ASSUME Nucleo, Fotos, NEW p \in Peticion, LosDemas(p),
         \/ \E v \in Venta, l \in Linea, fotos \in SUBSET Imagen :
              CrearVentaConImagenes(p, v, l, fotos)
         \/ GuardarFalla(p) \/ InsertarVenta(p) \/ Abortar(p) \/ Guardar(p)
         \/ Confirmar(p)
         \/ \E v \in Venta, op \in DeLineas \cup DeDatos \cup DeEstado \cup DeImagen :
              LeerCabecera(p, v, op)
         \/ \E v \in Venta : TomarVenta(p, v)
         \/ LeerFolio(p) \/ Materializar(p) \/ MarcarAplicada(p) \/ Caer(p)
  PROVE  Fotos'
<1>0. hilo \in [Peticion -> Hilo]
  BY DEF Nucleo, TipoHilos
<1>1. ASSUME NEW v \in Venta, NEW l \in Linea, NEW fotos \in SUBSET Imagen,
             CrearVentaConImagenes(p, v, l, fotos)
      PROVE  Fotos'
  <2>1. hilo'[p] = [Ocioso EXCEPT !.pc = "subir", !.venta = v, !.linea = l,
                                  !.falta = fotos]
    BY <1>0, <1>1 DEF CrearVentaConImagenes
  <2>2. Ajeno(p)
    BY <2>1, OciosoTipo DEF Ajeno, Hilo
  <2> QED BY <1>1, <2>2, FotosAjenas DEF CrearVentaConImagenes
<1>2. CASE GuardarFalla(p)
  BY <1>2, AjenoIr, FotosAjenas DEF GuardarFalla
<1>3. CASE InsertarVenta(p)
  <2>1. (Ir(p, "confirmar") \/ Ir(p, "limpiar")) /\ hilo[p].pc = "insertar"
    BY <1>3 DEF InsertarVenta
  <2>2. Ajeno(p)
    BY <2>1, AjenoIr
  <2> QED BY <1>3, <2>2, FotosAjenas DEF InsertarVenta
<1>4. CASE Abortar(p)
  <2>1. Ir(p, "limpiar") /\ hilo[p].pc # "limpiar"
    BY <1>4 DEF Abortar
  <2>2. Ajeno(p)
    BY <2>1, AjenoIr
  <2> QED BY <1>4, <2>2, FotosAjenas DEF Abortar
<1>5. CASE Guardar(p)
  <2>1. Ir(p, "confirmar") \/ Terminar(p)
    BY <1>5 DEF Guardar
  <2>2. Ajeno(p)
    BY <1>5, <2>1, AjenoIr, AjenoAlFin DEF Guardar
  <2> QED BY <1>5, <2>2, FotosAjenas DEF Guardar
<1>6. CASE Confirmar(p)
  BY <1>6, AjenoAlFin, FotosAjenas DEF Confirmar
<1>7. ASSUME NEW v \in Venta,
             NEW op \in DeLineas \cup DeDatos \cup DeEstado \cup DeImagen,
             LeerCabecera(p, v, op)
      PROVE  Fotos'
  <2>1. PICK c : hilo'[p] = [Ocioso EXCEPT !.pc = "lineas", !.op = op,
                                           !.venta = v, !.cab = c]
    BY <1>0, <1>7 DEF LeerCabecera
  <2>2. Ajeno(p)
    BY <2>1, OciosoTipo DEF Ajeno, Hilo
  <2> QED BY <1>7, <2>2, FotosAjenas DEF LeerCabecera
<1>8. ASSUME NEW v \in Venta, TomarVenta(p, v) PROVE Fotos'
  <2>1. hilo'[p] = [Ocioso EXCEPT !.pc = "folio", !.op = "aplicar", !.venta = v,
                                  !.cab = fila[v], !.linea = lineas[v]]
    BY <1>0, <1>8 DEF TomarVenta
  <2>2. Ajeno(p)
    BY <2>1, OciosoTipo DEF Ajeno, Hilo
  <2> QED BY <1>8, <2>2, FotosAjenas DEF TomarVenta
<1>9. CASE LeerFolio(p)
  <2>1. hilo'[p] = [hilo[p] EXCEPT !.pc = "materializar", !.folio = consecutivo]
    BY <1>0, <1>9 DEF LeerFolio
  <2>2. Ajeno(p)
    BY <1>0, <1>9, <2>1 DEF Ajeno, Hilo, LeerFolio
  <2> QED BY <1>9, <2>2, FotosAjenas DEF LeerFolio
<1>10. CASE Materializar(p)
  <2>1. Ajeno(p)
    BY <1>10, AjenoIr DEF Materializar
  <2> QED BY <1>10, <2>1, FotosAjenas DEF Materializar
<1>11. CASE MarcarAplicada(p)
  BY <1>11, AjenoAlFin, FotosAjenas DEF MarcarAplicada
<1>12. CASE Caer(p)
  BY <1>12, AjenoAlFin, FotosAjenas DEF Caer
<1> QED BY <1>1, <1>2, <1>3, <1>4, <1>5, <1>6, <1>7, <1>8, <1>9, <1>10, <1>11, <1>12

LEMMA FotosGuardarBlob ==
  ASSUME Nucleo, Fotos, NEW p \in Peticion, LosDemas(p),
         NEW j \in Imagen, GuardarBlob(p, j)
  PROVE  Fotos'
<1> SUFFICES ASSUME NEW v \in Venta, NEW i \in Imagen PROVE Foto(v, i)'
  BY DEF Fotos
<1>1. PICK paso \in {"subir", "insertar"} :
        hilo'[p] = [hilo[p] EXCEPT !.falta = @ \ {j}, !.subidos = @ \cup {j},
                                   !.pc = paso]
  BY DEF GuardarBlob, Nucleo, TipoHilos
<1>2. /\ hilo'[p].pc = paso /\ hilo'[p].venta = hilo[p].venta
      /\ hilo'[p].subidos = hilo[p].subidos \cup {j} /\ hilo[p].pc = "subir"
  <2>1. hilo[p] \in Hilo
    BY HiloTipo
  <2>2. hilo[p].pc = "subir"
    BY DEF GuardarBlob
  <2> QED BY <1>1, <2>1, <2>2 DEF Hilo
<1>3. /\ imagenes' = imagenes /\ blobs' = blobs \cup {<<hilo[p].venta, j>>}
      /\ subidas' = [subidas EXCEPT ![<<hilo[p].venta, j>>] = IF @ < 2 THEN @ + 1 ELSE @]
      /\ hilo[p].venta \in Venta /\ subidas \in [Venta \X Imagen -> 0..2]
  BY HiloTipo DEF GuardarBlob, Nucleo, TipoFotos
<1>4. Foto(v, i)
  BY DEF Fotos
<1>5. CASE v = hilo[p].venta /\ i = j
  <2>1. subidas'[<<v, i>>] = 1 => subidas[<<v, i>>] = 0
    <3>1. subidas[<<v, i>>] \in 0..2
      BY <1>3
    <3>2. subidas'[<<v, i>>] = IF subidas[<<v, i>>] < 2 THEN subidas[<<v, i>>] + 1
                                                      ELSE subidas[<<v, i>>]
      BY <1>3, <1>5
    <3> QED BY <3>1, <3>2
  <2>2. subidas'[<<v, i>>] # 0
    <3>1. subidas[<<v, i>>] \in 0..2
      BY <1>3
    <3>2. subidas'[<<v, i>>] = IF subidas[<<v, i>>] < 2 THEN subidas[<<v, i>>] + 1
                                                      ELSE subidas[<<v, i>>]
      BY <1>3, <1>5
    <3> QED BY <3>1, <3>2
  <2>3. <<v, i>> \in blobs'
    BY <1>3, <1>5
  <2>4. ASSUME subidas[<<v, i>>] = 0
        PROVE  /\ i \notin imagenes'[v]
               /\ \A q \in Peticion : /\ Guardada(q, v, i)' => q = p
                                      /\ ~Quitando(q, v, i, {"fila", "blob"})'
                                      /\ ~Quitando(q, v, i, {"blob"})'
    <3>1. /\ i \notin imagenes[v]
          /\ \A q \in Peticion : ~Guardada(q, v, i) /\ ~Quitando(q, v, i, {"fila", "blob"})
      BY <1>4, <2>4 DEF Foto
    <3>2. ASSUME NEW q \in Peticion, q # p
          PROVE  /\ ~Guardada(q, v, i)'
                 /\ ~Quitando(q, v, i, {"fila", "blob"})' /\ ~Quitando(q, v, i, {"blob"})'
      BY <3>1, <3>2 DEF LosDemas, Guardada, Quitando
    <3>3. ~Quitando(p, v, i, {"fila", "blob"})' /\ ~Quitando(p, v, i, {"blob"})'
      BY <1>2 DEF Quitando
    <3> QED BY <1>3, <3>1, <3>2, <3>3
  <2> QED BY <2>1, <2>2, <2>3, <2>4 DEF Foto
<1>6. CASE ~(v = hilo[p].venta /\ i = j)
  <2>1. /\ <<v, i>> \in blobs' <=> <<v, i>> \in blobs
        /\ subidas'[<<v, i>>] = subidas[<<v, i>>]
    BY <1>3, <1>6
  <2>2. Guardada(p, v, i)' => Guardada(p, v, i)
    BY <1>2, <1>6 DEF Guardada
  <2>3. ~Quitando(p, v, i, {"fila", "blob"})' /\ ~Quitando(p, v, i, {"blob"})'
    BY <1>2 DEF Quitando
  <2> QED BY <1>2, <1>3, <1>4, <2>1, <2>2, <2>3, FotoQuieta
<1> QED BY <1>5, <1>6

\* The goroutine hands the photos it stored over to their rows.
LEMMA FotosEntregadas ==
  ASSUME Nucleo, Fotos, NEW p \in Peticion, LosDemas(p), Terminar(p),
         hilo[p].pc # "limpiar", UNCHANGED <<blobs, subidas>>,
         \A v \in Venta : \A i \in imagenes'[v] :
           i \in imagenes[v] \/ Guardada(p, v, i)
  PROVE  Fotos'
<1> SUFFICES ASSUME NEW v \in Venta, NEW i \in Imagen PROVE Foto(v, i)'
  BY DEF Fotos
<1>1. Foto(v, i)
  BY DEF Fotos
<1>2. hilo'[p] = Ocioso
  BY DEF Nucleo, TipoHilos, Terminar
<1>3. /\ ~Guardada(p, v, i)' /\ ~Quitando(p, v, i, {"fila", "blob"})'
      /\ ~Quitando(p, v, i, {"blob"})'
  BY <1>2, OciosoTipo DEF Guardada, Quitando
<1>4. \A q \in Peticion : q # p =>
        /\ Guardada(q, v, i)' <=> Guardada(q, v, i)
        /\ Quitando(q, v, i, {"fila", "blob"})' <=> Quitando(q, v, i, {"fila", "blob"})
        /\ Quitando(q, v, i, {"blob"})' <=> Quitando(q, v, i, {"blob"})
        /\ Quitando(q, v, i, {"blob"}) => Quitando(q, v, i, {"fila", "blob"})
        /\ hilo'[q] = hilo[q]
  BY DEF LosDemas, Guardada, Quitando
<1>5. i \in imagenes'[v] => i \in imagenes[v] \/ Guardada(p, v, i)
  OBVIOUS
<1> QED BY <1>1, <1>3, <1>4, <1>5 DEF Foto

LEMMA FotosConfirmarCreacion ==
  ASSUME Nucleo, Fotos, NEW p \in Peticion, LosDemas(p), ConfirmarCreacion(p)
  PROVE  Fotos'
<1>1. \A v \in Venta : \A i \in imagenes'[v] :
        i \in imagenes[v] \/ Guardada(p, v, i)
  <2>1. imagenes' = [imagenes EXCEPT ![hilo[p].venta] = hilo[p].subidos]
    BY DEF ConfirmarCreacion
  <2> QED BY <2>1 DEF Guardada, Nucleo, TipoFotos
<1> QED BY <1>1, FotosEntregadas DEF ConfirmarCreacion

LEMMA FotosInsertarImagen ==
  ASSUME Nucleo, Fotos, NEW p \in Peticion, LosDemas(p), InsertarImagen(p)
  PROVE  Fotos'
<1>1. \A v \in Venta : \A i \in imagenes'[v] :
        i \in imagenes[v] \/ Guardada(p, v, i)
  <2>1. imagenes' = [imagenes EXCEPT ![hilo[p].venta] = @ \cup hilo[p].subidos]
    BY DEF InsertarImagen
  <2> QED BY <2>1 DEF Guardada, Nucleo, TipoFotos
<1> QED BY <1>1, FotosEntregadas DEF InsertarImagen

LEMMA FotosLimpiar ==
  ASSUME Nucleo, Fotos, NEW p \in Peticion, LosDemas(p), Limpiar(p)
  PROVE  Fotos'
<1>1. CASE hilo[p].subidos = {}
  BY <1>1, AjenoAlFin, FotosAjenas DEF Limpiar
<1>2. CASE hilo[p].subidos # {}
  <2>1. PICK j \in hilo[p].subidos :
          /\ hilo' = [hilo EXCEPT ![p].subidos = @ \ {j}]
          /\ blobs' = blobs \ {<<hilo[p].venta, j>>} \/ blobs' = blobs
          /\ imagenes' = imagenes /\ subidas' = subidas
    BY <1>2 DEF Limpiar
  <2>2. /\ hilo'[p].pc = "limpiar" /\ hilo'[p].venta = hilo[p].venta
        /\ hilo'[p].subidos = hilo[p].subidos \ {j}
    <3>1. hilo[p] \in Hilo /\ hilo'[p] = [hilo[p] EXCEPT !.subidos = @ \ {j}]
      BY <2>1, HiloTipo DEF Nucleo, TipoHilos
    <3>2. hilo[p].pc = "limpiar"
      BY DEF Limpiar
    <3> QED BY <3>1, <3>2 DEF Hilo
  <2> SUFFICES ASSUME NEW v \in Venta, NEW i \in Imagen PROVE Foto(v, i)'
    BY DEF Fotos
  <2>3. Foto(v, i)
    BY DEF Fotos
  <2>4. ~Quitando(p, v, i, {"fila", "blob"})' /\ ~Quitando(p, v, i, {"blob"})'
    BY <2>2 DEF Quitando
  <2>5. CASE v = hilo[p].venta /\ i = j
    <3>1. Guardada(p, v, i) /\ ~Guardada(p, v, i)'
      BY <2>1, <2>2, <2>5 DEF Guardada
    <3>2. \A q \in Peticion : q # p =>
            /\ Guardada(q, v, i)' <=> Guardada(q, v, i)
            /\ Quitando(q, v, i, {"blob"})' <=> Quitando(q, v, i, {"blob"})
      BY DEF LosDemas, Guardada, Quitando
    <3> QED BY <2>1, <2>3, <2>4, <3>1, <3>2 DEF Foto
  <2>6. CASE ~(v = hilo[p].venta /\ i = j)
    <3>1. /\ <<v, i>> \in blobs' <=> <<v, i>> \in blobs
          /\ i \in imagenes'[v] <=> i \in imagenes[v]
          /\ subidas'[<<v, i>>] = subidas[<<v, i>>]
      BY <2>1, <2>6
    <3>2. Guardada(p, v, i)' =>
            Guardada(p, v, i) /\ (hilo[p].pc = "limpiar" => hilo'[p].pc = "limpiar")
      BY <2>2 DEF Guardada
    <3> QED BY <2>3, <2>4, <3>1, <3>2, FotoQuieta
  <2> QED BY <2>5, <2>6
<1> QED BY <1>1, <1>2

LEMMA FotosBorrarFila ==
  ASSUME Nucleo, Fotos, NEW p \in Peticion, LosDemas(p), BorrarFila(p)
  PROVE  Fotos'
<1>1. CASE Terminar(p) /\ imagenes' = imagenes
  BY <1>1, AjenoAlFin, FotosAjenas DEF BorrarFila
<1>2. CASE /\ Ir(p, "blob")
           /\ imagenes' = [imagenes EXCEPT ![hilo[p].venta] = @ \ hilo[p].falta]
  <2>1. /\ hilo'[p].pc = "blob" /\ hilo'[p].venta = hilo[p].venta
        /\ hilo'[p].subidos = hilo[p].subidos /\ hilo'[p].falta = hilo[p].falta
        /\ hilo[p].pc = "fila"
    <3>1. hilo[p] \in Hilo /\ hilo'[p] = [hilo[p] EXCEPT !.pc = "blob"]
      BY <1>2, HiloTipo DEF Nucleo, TipoHilos, Ir
    <3>2. hilo[p].pc = "fila"
      BY DEF BorrarFila
    <3> QED BY <3>1, <3>2 DEF Hilo
  <2>2. /\ blobs' = blobs /\ subidas' = subidas
        /\ imagenes \in [Venta -> SUBSET Imagen]
    BY DEF BorrarFila, Nucleo, TipoFotos
  <2> SUFFICES ASSUME NEW v \in Venta, NEW i \in Imagen PROVE Foto(v, i)'
    BY DEF Fotos
  <2>3. Foto(v, i)
    BY DEF Fotos
  <2>4. CASE v = hilo[p].venta /\ i \in hilo[p].falta
    <3>1. Quitando(p, v, i, {"fila", "blob"}) /\ i \notin imagenes'[v]
      BY <1>2, <2>1, <2>2, <2>4 DEF Quitando
    <3>2. subidas[<<v, i>>] # 0
      BY <2>3, <3>1 DEF Foto
    <3>3. subidas[<<v, i>>] = 1 => \A q \in Peticion : ~Guardada(q, v, i)'
      <4>1. subidas[<<v, i>>] = 1 => \A q \in Peticion : ~Guardada(q, v, i)
        BY <2>3, <3>1 DEF Foto
      <4> QED BY <2>1, <4>1 DEF Guardada, LosDemas
    <3> QED BY <2>2, <3>1, <3>2, <3>3 DEF Foto
  <2>5. CASE ~(v = hilo[p].venta /\ i \in hilo[p].falta)
    <3>1. i \in imagenes'[v] <=> i \in imagenes[v]
      BY <1>2, <2>2, <2>5
    <3>2. ~Quitando(p, v, i, {"fila", "blob"})' /\ ~Quitando(p, v, i, {"blob"})'
      BY <2>1, <2>5 DEF Quitando
    <3>3. Guardada(p, v, i)' =>
            Guardada(p, v, i) /\ (hilo[p].pc = "limpiar" => hilo'[p].pc = "limpiar")
      BY <2>1 DEF Guardada
    <3> QED BY <2>2, <2>3, <3>1, <3>2, <3>3, FotoQuieta
  <2> QED BY <2>4, <2>5
<1> QED BY <1>1, <1>2 DEF BorrarFila

LEMMA FotosBorrarBlob ==
  ASSUME Nucleo, Fotos, NEW p \in Peticion, LosDemas(p), BorrarBlob(p)
  PROVE  Fotos'
<1> SUFFICES ASSUME NEW v \in Venta, NEW i \in Imagen PROVE Foto(v, i)'
  BY DEF Fotos
<1>1. Foto(v, i)
  BY DEF Fotos
<1>2. hilo'[p] = Ocioso
  BY DEF Nucleo, TipoHilos, Terminar, BorrarBlob
<1>3. /\ ~Guardada(p, v, i)' /\ ~Quitando(p, v, i, {"fila", "blob"})'
      /\ ~Quitando(p, v, i, {"blob"})'
  BY <1>2, OciosoTipo DEF Guardada, Quitando
<1>4. /\ blobs' = blobs \ ({hilo[p].venta} \X hilo[p].falta) \/ blobs' = blobs
      /\ imagenes' = imagenes /\ subidas' = subidas /\ hilo[p].pc = "blob"
  BY DEF BorrarBlob
<1>5. CASE Quitando(p, v, i, {"blob"})
  <2>1. Quitando(p, v, i, {"fila", "blob"})
    BY <1>5 DEF Quitando
  <2>2. \A q \in Peticion : q # p =>
          /\ Guardada(q, v, i)' <=> Guardada(q, v, i)
          /\ Quitando(q, v, i, {"blob"})' <=> Quitando(q, v, i, {"blob"})
    BY DEF LosDemas, Guardada, Quitando
  <2> QED BY <1>1, <1>3, <1>4, <1>5, <2>1, <2>2 DEF Foto
<1>6. CASE ~Quitando(p, v, i, {"blob"})
  <2>1. <<v, i>> \in blobs' <=> <<v, i>> \in blobs
    BY <1>4, <1>6 DEF Quitando
  <2> QED BY <1>1, <1>3, <1>4, <2>1, FotoQuieta
<1> QED BY <1>5, <1>6

LEMMA FotosLeerLineas ==
  ASSUME Nucleo, Fotos, NEW p \in Peticion, LosDemas(p), LeerLineas(p)
  PROVE  Fotos'
<1>1. /\ hilo[p].pc = "lineas" /\ hilo[p] \in Hilo /\ hilo \in [Peticion -> Hilo]
      /\ UNCHANGED <<imagenes, blobs, subidas>>
  BY HiloTipo DEF LeerLineas, Nucleo, TipoHilos
<1>2. CASE Terminar(p)
  BY <1>1, <1>2, AjenoAlFin, FotosAjenas
<1>3. ASSUME NEW l, hilo' = [hilo EXCEPT ![p].pc = "guardar", ![p].linea = l]
      PROVE  Fotos'
  <2>1. hilo'[p] = [hilo[p] EXCEPT !.pc = "guardar", !.linea = l]
    BY <1>1, <1>3
  <2>2. Ajeno(p)
    BY <1>1, <2>1 DEF Ajeno, Hilo
  <2> QED BY <1>1, <2>2, FotosAjenas
<1>4. ASSUME NEW j, hilo' = [hilo EXCEPT ![p].pc = "subir", ![p].falta = {j}]
      PROVE  Fotos'
  <2>1. hilo'[p] = [hilo[p] EXCEPT !.pc = "subir", !.falta = {j}]
    BY <1>1, <1>4
  <2>2. Ajeno(p)
    BY <1>1, <2>1 DEF Ajeno, Hilo
  <2> QED BY <1>1, <2>2, FotosAjenas
<1>5. ASSUME NEW j \in imagenes[hilo[p].venta],
             hilo' = [hilo EXCEPT ![p].pc = "fila", ![p].falta = {j}]
      PROVE  Fotos'
  <2>1. hilo'[p] = [hilo[p] EXCEPT !.pc = "fila", !.falta = {j}]
    BY <1>1, <1>5
  <2>2. /\ hilo'[p].pc = "fila" /\ hilo'[p].venta = hilo[p].venta
        /\ hilo'[p].subidos = hilo[p].subidos /\ hilo'[p].falta = {j}
    BY <1>1, <2>1 DEF Hilo
  <2> SUFFICES ASSUME NEW v \in Venta, NEW i \in Imagen PROVE Foto(v, i)'
    BY DEF Fotos
  <2>3. Foto(v, i)
    BY DEF Fotos
  <2>4. CASE v = hilo[p].venta /\ i = j
    <3>1. i \in imagenes[v]
      BY <1>5, <2>4
    <3>2. \A q \in Peticion :
            /\ Guardada(q, v, i)' <=> Guardada(q, v, i)
            /\ Quitando(q, v, i, {"blob"})' => Quitando(q, v, i, {"blob"})
      BY <2>2 DEF LosDemas, Guardada, Quitando
    <3> QED BY <1>1, <2>3, <3>1, <3>2 DEF Foto
  <2>5. CASE ~(v = hilo[p].venta /\ i = j)
    <3>1. ~Quitando(p, v, i, {"fila", "blob"})' /\ ~Quitando(p, v, i, {"blob"})'
      BY <2>2, <2>5 DEF Quitando
    <3>2. Guardada(p, v, i)' =>
            Guardada(p, v, i) /\ (hilo[p].pc = "limpiar" => hilo'[p].pc = "limpiar")
      BY <1>1, <2>2 DEF Guardada
    <3> QED BY <1>1, <2>3, <3>1, <3>2, FotoQuieta
  <2> QED BY <2>4, <2>5
<1> QED BY <1>2, <1>3, <1>4, <1>5 DEF LeerLineas

LEMMA FotosInit == Init => Fotos
<1> SUFFICES ASSUME Init, NEW v \in Venta, NEW i \in Imagen PROVE Foto(v, i)
  BY DEF Fotos
<1>1. \A p \in Peticion : /\ ~Guardada(p, v, i)
                         /\ ~Quitando(p, v, i, {"fila", "blob"})
                         /\ ~Quitando(p, v, i, {"blob"})
  <2>1. hilo = [p \in Peticion |-> Ocioso]
    BY DEF Init
  <2> QED BY <2>1, OciosoTipo DEF Guardada, Quitando
<1>2. i \in imagenes[v] => <<v, i>> \in blobs
  BY DEF Init
<1>3. subidas = [b \in Venta \X Imagen |-> IF b \in blobs THEN 1 ELSE 0]
  BY DEF Init
<1>4. subidas[<<v, i>>] = 0 => <<v, i>> \notin blobs
  BY <1>3
<1> QED BY <1>1, <1>2, <1>4 DEF Foto

LEMMA FotosPaso == Nucleo /\ Fotos /\ [Next]_vars => Fotos'
<1> SUFFICES ASSUME Nucleo, Fotos, [Next]_vars PROVE Fotos'
  OBVIOUS
<1>1. CASE UNCHANGED vars
  <2>1. UNCHANGED <<imagenes, blobs, hilo, subidas>>
    BY <1>1 DEF vars
  <2> SUFFICES ASSUME NEW v \in Venta, NEW i \in Imagen PROVE Foto(v, i)'
    BY DEF Fotos
  <2>2. Foto(v, i)
    BY DEF Fotos
  <2> QED BY <2>1, <2>2 DEF Foto, Guardada, Quitando
<1>2. ASSUME NEW p \in Peticion,
             Crear(p) \/ Editar(p) \/ AplicarVenta(p) \/ Caer(p)
      PROVE  Fotos'
  <2>0. LosDemas(p)
    BY <1>2, UnoMueve
  <2>1. CASE Crear(p)
    BY <2>0, <2>1, PasoAjeno, FotosGuardarBlob, FotosConfirmarCreacion,
       FotosInsertarImagen, FotosLimpiar DEF Crear
  <2>2. CASE Editar(p)
    BY <2>0, <2>2, PasoAjeno, FotosLeerLineas, FotosBorrarFila, FotosBorrarBlob
       DEF Editar
  <2>3. CASE AplicarVenta(p) \/ Caer(p)
    BY <2>0, <2>3, PasoAjeno DEF AplicarVenta
  <2> QED BY <1>2, <2>1, <2>2, <2>3
<1> QED BY <1>1, <1>2 DEF Next

\* All that the run checks of the ventas holds for any number of them: the
\* strengthening Nucleo /\ Fotos is inductive.
THEOREM Invariante == Spec => []IInv
<1>1. Nucleo /\ Fotos => IInv
  BY NucleoDice, FotosDice DEF IInv
<1>2. Spec => []Fotos
  BY FotosInit, FotosPaso, NucleoSiempre, PTL DEF Spec
<1> QED BY <1>1, <1>2, NucleoSiempre, PTL

\* A photo whose key was written once keeps its blob for as long as it has a
\* row, whatever uploads, deletions, rollbacks and crashes surround it.
THEOREM FotoConBlob == Spec => []ImagenConBlob
<1>1. Nucleo /\ Fotos => ImagenConBlob
  BY FotosDice
<1>2. Spec => []Fotos
  BY FotosInit, FotosPaso, NucleoSiempre, PTL DEF Spec
<1> QED BY <1>1, <1>2, NucleoSiempre, PTL

==============================================================================
