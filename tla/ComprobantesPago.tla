--------------------------- MODULE ComprobantesPago ---------------------------
(***************************************************************************)
(* The comprobantes of a pago: a row of MSP_PAGOS_IMAGENES in Firebird and *)
(* a blob in the filesystem, which no transaction encloses.  Creation      *)
(* stores the blobs first and deletes them again when its transaction does *)
(* not commit; attaching does the same for one blob; deleting removes the  *)
(* row first.  Requests interleave at every storage call.                  *)
(***************************************************************************)
EXTENDS Naturals

CONSTANTS
  Pago,        \* the client-generated pago UUIDs
  Imagen,      \* imagen UUIDs; the storage key is made of both
  Peticion,    \* HTTP requests, each served once
  Escenarios,  \* what the requests ask: a subset of [Peticion -> Solicitud]
  MaxFallas,   \* bound: infrastructure faults and crashes per behaviour
  Nadie        \* no request is inserting the pago

\* What a request asks: the images it carries, or the one it attaches or
\* deletes.
Solicitud == [tipo: {"crear", "adjuntar", "eliminar"}, pago: Pago,
              imagenes: SUBSET Imagen]

ASSUME ComprobantesAssumption ==
  /\ Nadie \notin Peticion
  /\ \A f \in Escenarios :
       /\ f \in [Peticion -> Solicitud]
       /\ \A r \in Peticion :
            f[r].tipo # "crear" => \E i \in Imagen : f[r].imagenes = {i}
  /\ MaxFallas \in Nat

VARIABLES
  pagos,       \* the committed pagos
  imagenes,    \* the committed imagen rows, [pago, imagen]
  blobs,       \* the files in storage, by key [pago, imagen]
  insertando,  \* [Pago -> Peticion or Nadie]: whose Insert is uncommitted
  pc,          \* [Peticion -> Paso]
  pide,        \* [Peticion -> Solicitud]
  porHacer,    \* [Peticion -> keys left to store or to delete]
  guardadas,   \* [Peticion -> storedKeys]
  inciertos,   \* pagos whose COMMIT went through but was reported as failed
  fallas,      \* faults injected so far
  subidas      \* auxiliary: [Peticion -> keys it called storage.Store with]

vars == <<pagos, imagenes, blobs, insertando, pc, pide, porHacer, guardadas,
          inciertos, fallas, subidas>>

Clave == [pago: Pago, imagen: Imagen]
Paso == {"inicio", "guardar", "tx", "confirmar", "borrar", "limpiar", "fin"}

\* newStorageKeyPago: the key names the pago and the imagen, so the retry of
\* an upload that sends the same id_<n> writes the same file.
Claves(s) == [pago: {s.pago}, imagen: s.imagenes]

Falla == fallas < MaxFallas /\ fallas' = fallas + 1

Init ==
  /\ pagos \in SUBSET Pago
  /\ imagenes = {}
  /\ blobs = {}
  /\ insertando = [x \in Pago |-> Nadie]
  /\ pc = [r \in Peticion |-> "inicio"]
  /\ pide \in Escenarios
  /\ porHacer = [r \in Peticion |-> {}]
  /\ guardadas = [r \in Peticion |-> {}]
  /\ inciertos = {}
  /\ fallas = 0
  /\ subidas = [r \in Peticion |-> {}]

-----------------------------------------------------------------------------
(* The common parts *)

\* Request r calls storage.Store with key k.
Sube(r, k) == subidas' = [subidas EXCEPT ![r] = @ \cup {k}]

\* The request goes on to delete the keys ks and answer.
Limpiar(r, ks) ==
  /\ pc' = [pc EXCEPT ![r] = IF ks = {} THEN "fin" ELSE "limpiar"]
  /\ porHacer' = [porHacer EXCEPT ![r] = ks]

Responder(r) ==
  /\ pc' = [pc EXCEPT ![r] = "fin"]
  /\ porHacer' = [porHacer EXCEPT ![r] = {}]

\* A request with something to store begins with it; one without goes
\* straight to its transaction.
Empezar(r) ==
  /\ pc' = [pc EXCEPT ![r] = IF Claves(pide[r]) = {} THEN "tx" ELSE "guardar"]
  /\ porHacer' = [porHacer EXCEPT ![r] = Claves(pide[r])]

\* Nothing is inserted until Insert succeeds, and nobody else's Insert of the
\* same UUID ends before ours does.
Soltar(r) ==
  insertando' = [x \in Pago |-> IF insertando[x] = r THEN Nadie
                                ELSE insertando[x]]

-----------------------------------------------------------------------------
(* Creation and attachment *)

\* CrearPagoConImagenes up to storeAllBlobs; a refused validation ends here
\* and touches nothing.
CrearPagoConImagenes(r) ==
  /\ pc[r] = "inicio"
  /\ pide[r].tipo = "crear"
  /\ Empezar(r) \/ Responder(r)
  /\ UNCHANGED <<pagos, imagenes, blobs, insertando, pide, guardadas, inciertos,
                 fallas, subidas>>

\* AdjuntarImagenPago verifies that the pago exists before touching storage.
AdjuntarImagenPago(r) ==
  /\ pc[r] = "inicio"
  /\ pide[r].tipo = "adjuntar"
  /\ IF pide[r].pago \in pagos THEN Empezar(r) ELSE Responder(r)
  /\ UNCHANGED <<pagos, imagenes, blobs, insertando, pide, guardadas, inciertos,
                 fallas, subidas>>

\* One storage.Store: the file is replaced whole, and its key remembered.
Guardar(r) ==
  /\ pc[r] = "guardar"
  /\ \E k \in porHacer[r] :
       /\ Sube(r, k)
       /\ blobs' = blobs \cup {k}
       /\ guardadas' = [guardadas EXCEPT ![r] = @ \cup {k}]
       /\ porHacer' = [porHacer EXCEPT ![r] = @ \ {k}]
       /\ pc' = [pc EXCEPT ![r] = IF porHacer[r] = {k} THEN "tx" ELSE "guardar"]
  /\ UNCHANGED <<pagos, imagenes, insertando, pide, inciertos, fallas>>

\* Mutant: what was stored before the failure stays behind.
GuardarFallaSinLimpiar(r) ==
  /\ pc[r] = "guardar"
  /\ \E k \in porHacer[r] :
       \/ UNCHANGED <<blobs, fallas, subidas>>
       \/ Falla /\ blobs' = blobs \ {k} /\ Sube(r, k)
  /\ Responder(r)
  /\ UNCHANGED <<pagos, imagenes, insertando, pide, guardadas, inciertos>>

\* A blob that cannot be processed (a bad image) or stored (a failed sidecar
\* removes the file) undoes the ones before it.
GuardarFalla(r) ==
  /\ pc[r] = "guardar"
  /\ \E k \in porHacer[r] :
       \/ UNCHANGED <<blobs, fallas, subidas>>
       \/ Falla /\ blobs' = blobs \ {k} /\ Sube(r, k)
  /\ Limpiar(r, guardadas[r])
  /\ UNCHANGED <<pagos, imagenes, insertando, pide, guardadas, inciertos>>

\* persistPagoTx: the Insert goes through, uncommitted.
Insertar(r) ==
  /\ pc[r] = "tx"
  /\ pide[r].tipo = "crear"
  /\ pide[r].pago \notin pagos
  /\ insertando[pide[r].pago] = Nadie
  /\ insertando' = [insertando EXCEPT ![pide[r].pago] = r]
  /\ pc' = [pc EXCEPT ![r] = "confirmar"]
  /\ UNCHANGED <<pagos, imagenes, blobs, pide, porHacer, guardadas, inciertos,
                 fallas, subidas>>

\* persistPagoTx on ErrPagoYaExiste: the existing pago is the answer and the
\* blobs of this request are deleted.
InsertarDuplicado(r) ==
  /\ pc[r] = "tx"
  /\ pide[r].tipo = "crear"
  /\ pide[r].pago \in pagos
  /\ Limpiar(r, guardadas[r])
  /\ UNCHANGED <<pagos, imagenes, blobs, insertando, pide, guardadas, inciertos,
                 fallas, subidas>>

\* No imagen row of the request exists yet: the primary key is the imagen id.
FilasNuevas(s) == \A i \in imagenes : i.imagen \notin s.imagenes

\* Mutant: the pago is committed before its imagen rows.
EscribirSinFilas(r) ==
  /\ pagos' = pagos \cup {pide[r].pago}
  /\ imagenes' = imagenes

\* The rows of the request become visible together.
Escribir(r) ==
  /\ pagos' = pagos \cup {pide[r].pago}
  /\ imagenes' = imagenes \cup Claves(pide[r])

\* attachAllImagenes, the Microsip write and COMMIT, or InsertImagen alone.
EnTx(r) ==
  \/ pc[r] = "confirmar"
  \/ pc[r] = "tx" /\ pide[r].tipo = "adjuntar"

\* Mutant: the cleanup is deferred and runs on success too.
ConfirmarYLimpiar(r) ==
  /\ EnTx(r)
  /\ FilasNuevas(pide[r])
  /\ Escribir(r)
  /\ Soltar(r)
  /\ Limpiar(r, guardadas[r])
  /\ UNCHANGED <<blobs, pide, guardadas, inciertos, fallas, subidas>>

Confirmar(r) ==
  /\ EnTx(r)
  /\ FilasNuevas(pide[r])
  /\ Escribir(r)
  /\ Soltar(r)
  /\ Responder(r)
  /\ UNCHANGED <<blobs, pide, guardadas, inciertos, fallas, subidas>>

\* An imagen row, Microsip or the database refuses: rollback, then cleanup.
Rechazar(r) ==
  /\ EnTx(r)
  /\ Soltar(r)
  /\ Limpiar(r, guardadas[r])
  /\ UNCHANGED <<pagos, imagenes, blobs, pide, guardadas, inciertos, fallas,
                 subidas>>

\* The COMMIT went through and its answer was lost: the code sees an error.
ConfirmarIncierto(r) ==
  /\ EnTx(r)
  /\ FilasNuevas(pide[r])
  /\ Falla
  /\ Escribir(r)
  /\ Soltar(r)
  /\ inciertos' = inciertos \cup {pide[r].pago}
  /\ Limpiar(r, guardadas[r])
  /\ UNCHANGED <<blobs, pide, guardadas, subidas>>

-----------------------------------------------------------------------------
(* Deletion and cleanup *)

\* EliminarImagenPago, FindImagenDePago: an imagen of another pago is a 404.
EliminarImagenPago(r) ==
  /\ pc[r] = "inicio"
  /\ pide[r].tipo = "eliminar"
  /\ IF Claves(pide[r]) \subseteq imagenes
     THEN pc' = [pc EXCEPT ![r] = "borrar"] /\ UNCHANGED porHacer
     ELSE Responder(r)
  /\ UNCHANGED <<pagos, imagenes, blobs, insertando, pide, guardadas, inciertos,
                 fallas, subidas>>

\* DeleteImagenDePago: of two deletions of one row, the second affects none.
BorrarFila(r) ==
  /\ pc[r] = "borrar"
  /\ IF Claves(pide[r]) \subseteq imagenes
     THEN /\ imagenes' = imagenes \ Claves(pide[r])
          /\ Limpiar(r, Claves(pide[r]))
     ELSE Responder(r) /\ UNCHANGED imagenes
  /\ UNCHANGED <<pagos, blobs, insertando, pide, guardadas, inciertos, fallas,
                 subidas>>

\* bestEffortDeleteBlob, one key at a time; a failed delete is only logged.
BorrarBlob(r) ==
  /\ pc[r] = "limpiar"
  /\ \E k \in porHacer[r] :
       /\ \/ blobs' = blobs \ {k} /\ UNCHANGED fallas
          \/ Falla /\ UNCHANGED blobs
       /\ porHacer' = [porHacer EXCEPT ![r] = @ \ {k}]
       /\ pc' = [pc EXCEPT ![r] = IF porHacer[r] = {k} THEN "fin" ELSE "limpiar"]
  /\ UNCHANGED <<pagos, imagenes, insertando, pide, guardadas, inciertos,
                 subidas>>

\* The process dies: transactions roll back, files stay as they are.
Reinicio ==
  /\ Falla
  /\ insertando' = [x \in Pago |-> Nadie]
  /\ pc' = [r \in Peticion |-> IF pc[r] = "inicio" THEN "inicio" ELSE "fin"]
  /\ porHacer' = [r \in Peticion |-> {}]
  /\ UNCHANGED <<pagos, imagenes, blobs, pide, guardadas, inciertos, subidas>>

Next ==
  \/ \E r \in Peticion :
       \/ CrearPagoConImagenes(r) \/ AdjuntarImagenPago(r)
       \/ Guardar(r) \/ GuardarFalla(r)
       \/ Insertar(r) \/ InsertarDuplicado(r)
       \/ Confirmar(r) \/ Rechazar(r) \/ ConfirmarIncierto(r)
       \/ EliminarImagenPago(r) \/ BorrarFila(r) \/ BorrarBlob(r)
  \/ Reinicio

Spec == Init /\ [][Next]_vars

-----------------------------------------------------------------------------
(* Properties *)

\* Every variable has its type.
TypeOK ==
  /\ pagos \subseteq Pago
  /\ imagenes \subseteq Clave
  /\ blobs \subseteq Clave
  /\ insertando \in [Pago -> Peticion \cup {Nadie}]
  /\ pc \in [Peticion -> Paso]
  /\ pide \in Escenarios
  /\ porHacer \in [Peticion -> SUBSET Clave]
  /\ guardadas \in [Peticion -> SUBSET Clave]
  /\ inciertos \subseteq Pago
  /\ fallas \in Nat
  /\ subidas \in [Peticion -> SUBSET Clave]

Escritora(r) == pide[r].tipo # "eliminar"
EnObra == {"guardar", "tx", "confirmar"}

\* What a request holds at each step: the keys it has stored and those left.
EnSuPaso(r) ==
  /\ guardadas[r] \subseteq Claves(pide[r]) /\ porHacer[r] \subseteq Claves(pide[r])
  /\ guardadas[r] \subseteq subidas[r]
  /\ pc[r] = "limpiar" /\ Escritora(r) => porHacer[r] \subseteq guardadas[r]
  /\ pc[r] \in EnObra => Escritora(r)
  /\ pc[r] = "borrar" => ~Escritora(r)
  /\ pc[r] = "inicio" \/ ~Escritora(r) => guardadas[r] = {}
  /\ pc[r] = "guardar" => guardadas[r] \cup porHacer[r] = Claves(pide[r])
  /\ pc[r] \in {"tx", "confirmar"} => guardadas[r] = Claves(pide[r])
  /\ pc[r] \in EnObra /\ pide[r].tipo = "adjuntar" => pide[r].pago \in pagos
  /\ pc[r] = "confirmar" => pide[r].tipo = "crear"

\* Request r is going to write the row of blob k, or to delete the blob.
Responde(r, k) ==
  \/ pc[r] \in EnObra /\ k \in guardadas[r]
  \/ pc[r] = "limpiar" /\ k \in porHacer[r]

\* Compensation is complete: while nothing fails, a blob without a row belongs
\* to a request that is still going to write the row or delete the blob.
HuerfanoConDueno ==
  fallas = 0 => \A k \in blobs \ imagenes : \E r \in Peticion : Responde(r, k)

\* Two requests have uploaded the imagen: a retry with the id_<n> of the first
\* attempt, or an id used again after a deletion.
Repetida(k) ==
  \E r, s \in Peticion : r # s /\ k \in subidas[r] /\ k \in subidas[s]

\* A comprobante on record can be opened: its blob is there, unless the
\* transaction that created it was reported as failed, or the imagen was uploaded
\* by another request too.  That exception is no caution: the retry of a stored
\* creation under the same ids is answered with the pago and deletes its blobs.
FilaConBlob == \A i \in imagenes : i \in blobs \/ i.pago \in inciertos \/ Repetida(i)

\* Whoever uploaded key k has ended its transaction, and cleans up only what it
\* believes it did not commit.
Terminada(k) ==
  /\ \E s \in Peticion : k \in subidas[s]
  /\ \A s \in Peticion : k \in subidas[s] =>
       pc[s] = "fin" \/ (pc[s] = "limpiar" /\ k.pago \in inciertos)

\* Of an imagen only one request uploaded: its blob is there until the transaction
\* ends, and who deletes the blob deletes one that no row names or will name.
BlobsPropios ==
  /\ \A r \in Peticion : \A k \in guardadas[r] :
       pc[r] \in EnObra => k \in blobs \/ Repetida(k)
  /\ \A k \in imagenes : Terminada(k) \/ Repetida(k)
  /\ \A r \in Peticion : \A k \in porHacer[r] :
       pc[r] = "limpiar" /\ ~Escritora(r) =>
         (k \notin imagenes /\ Terminada(k)) \/ Repetida(k)

IInv ==
  /\ TypeOK /\ \A r \in Peticion : EnSuPaso(r)
  /\ HuerfanoConDueno /\ BlobsPropios /\ FilaConBlob

\* A pago becomes visible with every comprobante it was sent with, or not at all:
\* the rows always, and the blobs of all imagenes nobody else uploaded.
PagoConSusImagenes ==
  [][\A x \in pagos' \ pagos : \E r \in Peticion :
       /\ pide[r].tipo = "crear" /\ pide[r].pago = x
       /\ Claves(pide[r]) \subseteq imagenes'
       /\ \A k \in Claves(pide[r]) : k \in blobs' \/ Repetida(k)']_vars
=============================================================================
