------------------------ MODULE ComprobantesPago_proofs ------------------------
(***************************************************************************)
(* What the comprobantes promise for any number of pagos, imagenes and     *)
(* requests, under crashes, failed storage calls and lost COMMIT answers:  *)
(* compensation is complete; a pago appears with the rows of all of its    *)
(* images; and an image only one request uploaded keeps its blob, whatever *)
(* other uploads repeat.                                                   *)
(***************************************************************************)
EXTENDS ComprobantesPago, TLAPS

LEMMA LosTipos ==
  ASSUME TypeOK
  PROVE  /\ pide \in [Peticion -> Solicitud] /\ Nadie \notin Peticion
         /\ MaxFallas \in Nat /\ fallas \in Nat
         /\ \A r \in Peticion :
              /\ pide[r].pago \in Pago /\ Claves(pide[r]) \subseteq Clave
              /\ pide[r].tipo \in {"crear", "adjuntar", "eliminar"}
              /\ \A k \in Claves(pide[r]) : k.pago = pide[r].pago
              /\ porHacer[r] \subseteq Clave /\ guardadas[r] \subseteq Clave
              /\ subidas[r] \subseteq Clave
              /\ pc[r] \in Paso
<1>1. pide \in [Peticion -> Solicitud] /\ Nadie \notin Peticion /\ MaxFallas \in Nat
  BY ComprobantesAssumption DEF TypeOK
<1>2. \A r \in Peticion : pide[r] \in Solicitud
  BY <1>1
<1>3. \A r \in Peticion : /\ pide[r].pago \in Pago
                          /\ pide[r].imagenes \subseteq Imagen
                          /\ pide[r].tipo \in {"crear", "adjuntar", "eliminar"}
  BY <1>2 DEF Solicitud
<1>4. \A r \in Peticion : /\ Claves(pide[r]) \subseteq Clave
                          /\ \A k \in Claves(pide[r]) : k.pago = pide[r].pago
  BY <1>3 DEF Claves, Clave
<1> QED BY <1>1, <1>3, <1>4 DEF TypeOK

\* A step of request r leaves the others where they are.
Ajenas(r) ==
  /\ pc' \in [Peticion -> Paso]
  /\ porHacer' \in [Peticion -> SUBSET Clave]
  /\ guardadas' \in [Peticion -> SUBSET Clave]
  /\ subidas' \in [Peticion -> SUBSET Clave]
  /\ \A s \in Peticion \ {r} : /\ pc'[s] = pc[s] /\ porHacer'[s] = porHacer[s]
                               /\ guardadas'[s] = guardadas[s]
                               /\ subidas'[s] = subidas[s]
  /\ pide' = pide
  /\ subidas[r] \subseteq subidas'[r]
  /\ subidas'[r] # subidas[r] => pc[r] = "guardar"
  /\ pc[r] # "fin"
  /\ pc[r] = "limpiar" => pc'[r] \in {"limpiar", "fin"}

LEMMA SigueEnSuPaso ==
  ASSUME NEW r \in Peticion, Ajenas(r), pagos \subseteq pagos',
         \A s \in Peticion : EnSuPaso(s), EnSuPaso(r)'
  PROVE  \A s \in Peticion : EnSuPaso(s)'
<1> SUFFICES ASSUME NEW s \in Peticion, s # r PROVE EnSuPaso(s)'
  OBVIOUS
<1> QED BY DEF EnSuPaso, Ajenas, Escritora

LEMMA SigueHuerfano ==
  ASSUME NEW r \in Peticion, Ajenas(r), HuerfanoConDueno, fallas \in Nat,
         fallas' = 0 => fallas = 0,
         fallas' = 0 => \A k \in blobs' \ imagenes' :
           \/ Responde(r, k)'
           \/ k \in blobs \ imagenes /\ ~Responde(r, k)
  PROVE  HuerfanoConDueno'
<1> SUFFICES ASSUME fallas' = 0, NEW k \in blobs' \ imagenes'
             PROVE  \E s \in Peticion : Responde(s, k)'
  BY DEF HuerfanoConDueno
<1>1. CASE Responde(r, k)'
  BY <1>1
<1>2. CASE k \in blobs \ imagenes /\ ~Responde(r, k)
  <2>1. PICK s \in Peticion : Responde(s, k)
    BY <1>2 DEF HuerfanoConDueno
  <2>2. s # r
    BY <1>2, <2>1
  <2>3. Responde(s, k)'
    BY <2>1, <2>2 DEF Responde, Ajenas, EnObra
  <2> QED BY <2>3
<1> QED BY <1>1, <1>2

LEMMA SigueRepetida ==
  ASSUME NEW r \in Peticion, Ajenas(r), NEW k, Repetida(k)
  PROVE  Repetida(k)'
BY DEF Repetida, Ajenas

LEMMA SigueTerminada ==
  ASSUME NEW r \in Peticion, Ajenas(r), inciertos \subseteq inciertos',
         NEW k, Terminada(k), ~Repetida(k)'
  PROVE  Terminada(k)'
<1>1. PICK q \in Peticion : k \in subidas[q]
  BY DEF Terminada
<1>2. k \in subidas'[q]
  BY <1>1 DEF Ajenas
<1>3. ASSUME NEW s \in Peticion, k \in subidas'[s]
      PROVE  pc'[s] = "fin" \/ (pc'[s] = "limpiar" /\ k.pago \in inciertos')
  <2>1. s = q
    BY <1>2, <1>3 DEF Repetida
  <2>2. pc[s] = "fin" \/ (pc[s] = "limpiar" /\ k.pago \in inciertos)
    BY <1>1, <2>1 DEF Terminada
  <2> QED BY <2>2 DEF Ajenas
<1> QED BY <1>2, <1>3 DEF Terminada

\* A step that adds no row.
LEMMA SinFilasNuevas ==
  ASSUME NEW r \in Peticion, Ajenas(r), BlobsPropios, FilaConBlob,
         imagenes' \subseteq imagenes, inciertos' = inciertos,
         \A k \in blobs \ blobs' :
           \/ Repetida(k)'
           \/ /\ k \notin imagenes' \/ k.pago \in inciertos
              /\ \A s \in Peticion \ {r} : pc[s] \in EnObra => k \notin guardadas[s],
         pc'[r] \in EnObra => \A k \in guardadas'[r] : k \in blobs' \/ Repetida(k)',
         pc'[r] = "limpiar" /\ ~Escritora(r) =>
           \A k \in porHacer'[r] : (k \notin imagenes' /\ Terminada(k)) \/ Repetida(k)
  PROVE  BlobsPropios' /\ FilaConBlob'
<1>1. ASSUME NEW s \in Peticion, NEW k \in guardadas'[s], pc'[s] \in EnObra
      PROVE  k \in blobs' \/ Repetida(k)'
  <2>1. CASE s = r
    BY <1>1, <2>1
  <2>2. CASE s # r
    <3>1. k \in guardadas[s] /\ pc[s] \in EnObra
      BY <1>1, <2>2 DEF Ajenas
    <3>2. k \in blobs \/ Repetida(k)
      BY <3>1 DEF BlobsPropios
    <3> QED BY <2>2, <3>1, <3>2, SigueRepetida
  <2> QED BY <2>1, <2>2
<1>2. ASSUME NEW k \in imagenes' PROVE Terminada(k)' \/ Repetida(k)'
  <2>1. Terminada(k) \/ Repetida(k)
    BY DEF BlobsPropios
  <2> QED BY <2>1, SigueTerminada, SigueRepetida
<1>3. ASSUME NEW s \in Peticion, NEW k \in porHacer'[s],
             pc'[s] = "limpiar", ~Escritora(s)
      PROVE  (k \notin imagenes' /\ Terminada(k)') \/ Repetida(k)'
  <2>1. (k \notin imagenes' /\ Terminada(k)) \/ Repetida(k)
    BY <1>3 DEF Ajenas, BlobsPropios
  <2> QED BY <2>1, SigueTerminada, SigueRepetida
<1>4. \A s \in Peticion : Escritora(s)' <=> Escritora(s)
  BY DEF Ajenas, Escritora
<1>5. ASSUME NEW k \in imagenes'
      PROVE  k \in blobs' \/ k.pago \in inciertos' \/ Repetida(k)'
  <2>1. k \in blobs \/ k.pago \in inciertos \/ Repetida(k)
    BY DEF FilaConBlob
  <2> QED BY <2>1, SigueRepetida
<1>6. EnObra' = EnObra
  BY DEF EnObra
<1> QED BY <1>1, <1>2, <1>3, <1>4, <1>5, <1>6 DEF BlobsPropios, FilaConBlob

-----------------------------------------------------------------------------
(* What the proofs keep apart, and what a step keeps *)

Base == TypeOK /\ (\A r \in Peticion : EnSuPaso(r)) /\ HuerfanoConDueno
Propios == BlobsPropios /\ FilaConBlob
Fija == Base' /\ (Propios => Propios')

\* The types of what only this module's actions build.
LEMMA PasosDe ==
  ASSUME TypeOK, NEW r \in Peticion
  PROVE  /\ Paso = {"inicio", "guardar", "tx", "confirmar", "borrar", "limpiar", "fin"}
         /\ EnObra = {"guardar", "tx", "confirmar"}
         /\ pc \in [Peticion -> Paso] /\ porHacer \in [Peticion -> SUBSET Clave]
         /\ guardadas \in [Peticion -> SUBSET Clave]
         /\ subidas \in [Peticion -> SUBSET Clave]
BY DEF TypeOK, Paso, EnObra

\* The request moves on, and nothing else does.
LEMMA Quieta ==
  ASSUME Base, NEW r \in Peticion, Ajenas(r), EnSuPaso(r)',
         UNCHANGED <<pagos, imagenes, blobs, inciertos, fallas>>,
         insertando' \in [Pago -> Peticion \cup {Nadie}],
         \A k \in blobs : Responde(r, k) => Responde(r, k)',
         pc'[r] \in EnObra => \/ pc[r] \in EnObra /\ guardadas'[r] = guardadas[r]
                              \/ guardadas'[r] = {},
         pc'[r] = "limpiar" => Escritora(r)
  PROVE  Fija
<1>1. TypeOK'
  BY DEF Base, TypeOK, Ajenas
<1>2. \A s \in Peticion : EnSuPaso(s)'
  BY SigueEnSuPaso DEF Base
<1>3. HuerfanoConDueno'
  BY LosTipos, SigueHuerfano DEF Base
<1>4. ASSUME Propios PROVE Propios'
  <2>1. pc'[r] \in EnObra => \A k \in guardadas'[r] : k \in blobs' \/ Repetida(k)'
    BY <1>4, SigueRepetida DEF Propios, BlobsPropios
  <2> QED BY <1>4, <2>1, SinFilasNuevas DEF Propios
<1> QED BY <1>1, <1>2, <1>3, <1>4 DEF Fija, Base

LEMMA EmpezarEs ==
  ASSUME Base, NEW r \in Peticion, Empezar(r), pc[r] = "inicio",
         UNCHANGED <<pide, guardadas, subidas>>
  PROVE  /\ Ajenas(r) /\ guardadas'[r] = {} /\ porHacer'[r] = Claves(pide[r])
         /\ (pc'[r] = "tx" /\ Claves(pide[r]) = {}) \/ pc'[r] = "guardar"
<1>1. guardadas[r] = {}
  BY DEF Base, EnSuPaso
<1>2. Claves(pide[r]) \in SUBSET Clave /\ pc \in [Peticion -> Paso]
      /\ porHacer \in [Peticion -> SUBSET Clave]
      /\ guardadas \in [Peticion -> SUBSET Clave]
      /\ subidas \in [Peticion -> SUBSET Clave]
  BY LosTipos, PasosDe DEF Base
<1> QED BY <1>1, <1>2 DEF Empezar, Ajenas, Paso

LEMMA ResponderEs ==
  ASSUME Base, NEW r \in Peticion, Responder(r), pc[r] # "fin",
         UNCHANGED <<pide, guardadas, subidas>>
  PROVE  /\ Ajenas(r) /\ guardadas'[r] = guardadas[r] /\ porHacer'[r] = {}
         /\ pc'[r] = "fin"
BY PasosDe DEF Base, Responder, Ajenas, Paso

LEMMA LimpiarEs ==
  ASSUME Base, NEW r \in Peticion, NEW ks \in SUBSET Clave, Limpiar(r, ks),
         pc[r] \notin {"fin", "limpiar"}, UNCHANGED <<pide, guardadas, subidas>>
  PROVE  /\ Ajenas(r) /\ guardadas'[r] = guardadas[r] /\ porHacer'[r] = ks
         /\ (pc'[r] = "fin" /\ ks = {}) \/ pc'[r] = "limpiar"
BY PasosDe DEF Base, Limpiar, Ajenas, Paso

LEMMA SoltarEs ==
  ASSUME TypeOK, NEW r \in Peticion, Soltar(r)
  PROVE  insertando' \in [Pago -> Peticion \cup {Nadie}]
BY DEF TypeOK, Soltar

-----------------------------------------------------------------------------
(* The steps *)

LEMMA CrearFija ==
  ASSUME Base, NEW r \in Peticion, CrearPagoConImagenes(r)
  PROVE  Fija
<1>1. /\ pc[r] = "inicio" /\ pide[r].tipo = "crear" /\ guardadas[r] = {}
      /\ Empezar(r) \/ Responder(r)
      /\ UNCHANGED <<pagos, imagenes, blobs, insertando, pide, guardadas,
                     inciertos, fallas, subidas>>
  BY DEF CrearPagoConImagenes, Base, EnSuPaso
<1>2. /\ Ajenas(r) /\ guardadas'[r] = {}
      /\ porHacer'[r] \in {{}, Claves(pide[r])}
      /\ \/ pc'[r] = "tx" /\ Claves(pide[r]) = {}
         \/ pc'[r] = "guardar" /\ porHacer'[r] = Claves(pide[r])
         \/ pc'[r] = "fin"
  BY <1>1, EmpezarEs, ResponderEs
<1>3. EnSuPaso(r)'
  BY <1>1, <1>2 DEF EnSuPaso, EnObra, Escritora
<1>4. insertando' \in [Pago -> Peticion \cup {Nadie}]
  BY <1>1 DEF Base, TypeOK
<1> QED BY <1>1, <1>2, <1>3, <1>4, Quieta DEF Responde, EnObra

LEMMA AdjuntarFija ==
  ASSUME Base, NEW r \in Peticion, AdjuntarImagenPago(r)
  PROVE  Fija
<1>1. /\ pc[r] = "inicio" /\ pide[r].tipo = "adjuntar" /\ guardadas[r] = {}
      /\ IF pide[r].pago \in pagos THEN Empezar(r) ELSE Responder(r)
      /\ UNCHANGED <<pagos, imagenes, blobs, insertando, pide, guardadas,
                     inciertos, fallas, subidas>>
  BY DEF AdjuntarImagenPago, Base, EnSuPaso
<1>2. /\ Ajenas(r) /\ guardadas'[r] = {}
      /\ porHacer'[r] \in {{}, Claves(pide[r])}
      /\ \/ pc'[r] = "tx" /\ Claves(pide[r]) = {} /\ pide[r].pago \in pagos
         \/ /\ pc'[r] = "guardar" /\ porHacer'[r] = Claves(pide[r])
            /\ pide[r].pago \in pagos
         \/ pc'[r] = "fin"
  BY <1>1, EmpezarEs, ResponderEs
<1>3. EnSuPaso(r)'
  BY <1>1, <1>2 DEF EnSuPaso, EnObra, Escritora
<1>4. insertando' \in [Pago -> Peticion \cup {Nadie}]
  BY <1>1 DEF Base, TypeOK
<1> QED BY <1>1, <1>2, <1>3, <1>4, Quieta DEF Responde, EnObra

LEMMA InsertarFija ==
  ASSUME Base, NEW r \in Peticion, Insertar(r)
  PROVE  Fija
<1>1. /\ pc[r] = "tx" /\ pide[r].tipo = "crear" /\ pc'[r] = "confirmar"
      /\ UNCHANGED <<pagos, imagenes, blobs, pide, porHacer, guardadas,
                     inciertos, fallas, subidas>>
  BY PasosDe DEF Insertar, Base, Paso
<1>2. Ajenas(r)
  BY PasosDe DEF Insertar, Base, Paso, Ajenas
<1>3. EnSuPaso(r)'
  BY <1>1 DEF Base, EnSuPaso, EnObra, Escritora
<1>4. insertando' \in [Pago -> Peticion \cup {Nadie}]
  BY DEF Insertar, Base, TypeOK
<1> QED BY <1>1, <1>2, <1>3, <1>4, Quieta DEF Responde, EnObra

\* A transaction that does not commit hands what was stored to the cleanup.
LEMMA DescartarFija ==
  ASSUME Base, NEW r \in Peticion, InsertarDuplicado(r) \/ Rechazar(r)
  PROVE  Fija
<1>1. /\ pc[r] \in {"tx", "confirmar"} /\ Limpiar(r, guardadas[r])
      /\ UNCHANGED <<pagos, imagenes, blobs, pide, guardadas, inciertos, fallas,
                     subidas>>
  BY DEF InsertarDuplicado, Rechazar, EnTx
<1>2. /\ Escritora(r) /\ guardadas[r] = Claves(pide[r]) /\ guardadas[r] \in SUBSET Clave
      /\ guardadas[r] \subseteq subidas[r]
  BY <1>1, PasosDe DEF Base, EnSuPaso, EnObra
<1>3. /\ Ajenas(r) /\ guardadas'[r] = guardadas[r] /\ porHacer'[r] = guardadas[r]
      /\ (pc'[r] = "fin" /\ guardadas[r] = {}) \/ pc'[r] = "limpiar"
  BY <1>1, <1>2, LimpiarEs
<1>4. EnSuPaso(r)'
  BY <1>1, <1>2, <1>3 DEF EnSuPaso, EnObra, Escritora
<1>5. insertando' \in [Pago -> Peticion \cup {Nadie}]
  BY SoltarEs DEF InsertarDuplicado, Rechazar, Base, TypeOK
<1>6. pc'[r] \notin EnObra
  BY <1>3 DEF EnObra
<1> QED BY <1>1, <1>2, <1>3, <1>4, <1>5, <1>6, Quieta DEF Responde, EnObra

LEMMA EliminarFija ==
  ASSUME Base, NEW r \in Peticion, EliminarImagenPago(r)
  PROVE  Fija
<1>1. /\ pc[r] = "inicio" /\ pide[r].tipo = "eliminar"
      /\ UNCHANGED <<pagos, imagenes, blobs, insertando, pide, guardadas,
                     inciertos, fallas, subidas>>
  BY DEF EliminarImagenPago
<1>2. /\ Ajenas(r) /\ porHacer'[r] \in {{}, porHacer[r]}
      /\ pc'[r] \in {"borrar", "fin"}
  BY <1>1, ResponderEs, PasosDe DEF EliminarImagenPago, Base, Ajenas, Paso
<1>3. EnSuPaso(r)'
  BY <1>1, <1>2 DEF Base, EnSuPaso, EnObra, Escritora
<1>4. insertando' \in [Pago -> Peticion \cup {Nadie}]
  BY <1>1 DEF Base, TypeOK
<1> QED BY <1>1, <1>2, <1>3, <1>4, Quieta DEF Responde, EnObra

LEMMA GuardarFija ==
  ASSUME Base, NEW r \in Peticion, Guardar(r)
  PROVE  Fija
<1>1. PICK k \in porHacer[r] :
        /\ subidas' = [subidas EXCEPT ![r] = @ \cup {k}]
        /\ blobs' = blobs \cup {k}
        /\ guardadas' = [guardadas EXCEPT ![r] = @ \cup {k}]
        /\ porHacer' = [porHacer EXCEPT ![r] = @ \ {k}]
        /\ pc' = [pc EXCEPT ![r] = IF porHacer[r] = {k} THEN "tx" ELSE "guardar"]
  BY DEF Guardar, Sube
<1>2. /\ pc[r] = "guardar"
      /\ UNCHANGED <<pagos, imagenes, insertando, pide, inciertos, fallas>>
  BY DEF Guardar
<1>3. /\ k \in Clave /\ porHacer[r] \subseteq Clave /\ guardadas[r] \subseteq Clave
      /\ subidas[r] \subseteq Clave
  BY LosTipos DEF Base
<1>4. /\ Ajenas(r) /\ guardadas'[r] = guardadas[r] \cup {k}
      /\ porHacer'[r] = porHacer[r] \ {k} /\ subidas'[r] = subidas[r] \cup {k}
      /\ (pc'[r] = "tx" /\ porHacer[r] = {k}) \/ pc'[r] = "guardar"
  BY <1>1, <1>2, <1>3, PasosDe DEF Base, Ajenas, Paso
<1>5. /\ Escritora(r) /\ guardadas[r] \cup porHacer[r] = Claves(pide[r])
      /\ guardadas[r] \subseteq subidas[r]
      /\ pide[r].tipo = "adjuntar" => pide[r].pago \in pagos
  BY <1>2 DEF Base, EnSuPaso, EnObra
<1>6. EnSuPaso(r)'
  BY <1>2, <1>4, <1>5 DEF EnSuPaso, EnObra, Escritora
<1>7. TypeOK'
  BY <1>1, <1>2, <1>3, <1>4 DEF Base, TypeOK, Ajenas
<1>8. HuerfanoConDueno'
  BY <1>1, <1>2, <1>4, LosTipos, SigueHuerfano DEF Base, Responde, EnObra
<1>9. ASSUME Propios PROVE Propios'
  <2>1. \A j \in guardadas[r] : j \in blobs \/ Repetida(j)
    BY <1>2, <1>9 DEF Propios, BlobsPropios, EnObra
  <2>2. \A j \in guardadas'[r] : j \in blobs' \/ Repetida(j)'
    BY <1>1, <1>4, <2>1, SigueRepetida
  <2> QED BY <1>1, <1>2, <1>4, <1>9, <2>2, SinFilasNuevas DEF Propios
<1> QED BY <1>2, <1>4, <1>6, <1>7, <1>8, <1>9, SigueEnSuPaso DEF Fija, Base

\* What r has uploaded, and nobody else, is in no other hands, nor in a row unless
\* r has ended.
LEMMA NadaAjeno ==
  ASSUME Base, Propios, NEW r \in Peticion, Ajenas(r), NEW k \in subidas'[r],
         ~Repetida(k)'
  PROVE  /\ \A s \in Peticion \ {r} : k \notin guardadas[s]
         /\ k \in imagenes =>
              pc[r] = "fin" \/ (pc[r] = "limpiar" /\ k.pago \in inciertos)
<1>1. \A s \in Peticion \ {r} : k \notin subidas[s]
  BY DEF Ajenas, Repetida
<1>2. \A s \in Peticion \ {r} : k \notin guardadas[s]
  BY <1>1 DEF Base, EnSuPaso
<1>3. ASSUME k \in imagenes
      PROVE  pc[r] = "fin" \/ (pc[r] = "limpiar" /\ k.pago \in inciertos)
  <2>1. Terminada(k)
    BY <1>3, SigueRepetida DEF Propios, BlobsPropios
  <2>2. k \in subidas[r]
    BY <1>1, <2>1 DEF Terminada
  <2> QED BY <2>1, <2>2 DEF Terminada
<1> QED BY <1>2, <1>3

LEMMA GuardarFallaFija ==
  ASSUME Base, NEW r \in Peticion, GuardarFalla(r)
  PROVE  Fija
<1>1. PICK k \in porHacer[r] :
        \/ UNCHANGED <<blobs, fallas, subidas>>
        \/ /\ Falla /\ blobs' = blobs \ {k}
           /\ subidas' = [subidas EXCEPT ![r] = @ \cup {k}]
  BY DEF GuardarFalla, Sube
<1>2. /\ pc[r] = "guardar" /\ Limpiar(r, guardadas[r])
      /\ UNCHANGED <<pagos, imagenes, insertando, pide, guardadas, inciertos>>
  BY DEF GuardarFalla
<1>3. /\ Escritora(r) /\ guardadas[r] \subseteq Claves(pide[r])
      /\ k \in Clave /\ guardadas[r] \in SUBSET Clave
      /\ guardadas[r] \subseteq subidas[r]
      /\ fallas \in Nat /\ fallas' \in Nat /\ fallas' >= fallas
  BY <1>1, <1>2, LosTipos DEF Base, EnSuPaso, EnObra, Falla
<1>4. /\ Ajenas(r) /\ guardadas'[r] = guardadas[r] /\ porHacer'[r] = guardadas[r]
      /\ (pc'[r] = "fin" /\ guardadas[r] = {}) \/ pc'[r] = "limpiar"
      /\ blobs' # blobs => k \in subidas'[r]
  <2>1. /\ subidas' \in [Peticion -> SUBSET Clave] /\ subidas[r] \subseteq subidas'[r]
        /\ \A s \in Peticion \ {r} : subidas'[s] = subidas[s]
        /\ blobs' # blobs => k \in subidas'[r]
    BY <1>1, <1>3, PasosDe DEF Base
  <2> QED BY <1>2, <1>3, <2>1, PasosDe DEF Base, Limpiar, Ajenas, Paso
<1>5. EnSuPaso(r)' /\ pc'[r] \notin EnObra
  BY <1>2, <1>3, <1>4 DEF EnSuPaso, EnObra, Escritora, Ajenas
<1>6. blobs' \subseteq blobs /\ blobs \ blobs' \subseteq {k}
  BY <1>1
<1>7. TypeOK'
  BY <1>2, <1>3, <1>4, <1>6 DEF Base, TypeOK, Ajenas
<1>8. HuerfanoConDueno'
  BY <1>2, <1>3, <1>4, <1>6, SigueHuerfano DEF Base, Responde, EnObra
<1>9. ASSUME Propios PROVE Propios'
  <2>1. k \in subidas'[r] => \/ Repetida(k)'
                             \/ /\ k \notin imagenes
                                /\ \A s \in Peticion \ {r} : k \notin guardadas[s]
    BY <1>2, <1>4, <1>9, NadaAjeno
  <2> QED BY <1>2, <1>3, <1>4, <1>5, <1>6, <1>9, <2>1, SinFilasNuevas DEF Propios
<1> QED BY <1>2, <1>4, <1>5, <1>7, <1>8, <1>9, SigueEnSuPaso DEF Fija, Base

\* The rows of r become visible, whether or not r is told.
LEMMA EscribirFija ==
  ASSUME Base, NEW r \in Peticion, Confirmar(r) \/ ConfirmarIncierto(r)
  PROVE  Fija
<1>1. /\ pc[r] \in {"tx", "confirmar"} /\ Escribir(r) /\ Soltar(r)
      /\ UNCHANGED <<blobs, pide, guardadas, subidas>>
      /\ EnTx(r)
  BY DEF Confirmar, ConfirmarIncierto, EnTx
<1>2. /\ Escritora(r) /\ guardadas[r] = Claves(pide[r])
      /\ guardadas[r] \in SUBSET Clave /\ pide[r].pago \in Pago
      /\ guardadas[r] \subseteq subidas[r]
      /\ \A k \in Claves(pide[r]) : k.pago = pide[r].pago
  BY <1>1, LosTipos DEF Base, EnSuPaso, EnObra
<1>3. /\ Ajenas(r) /\ guardadas'[r] = guardadas[r]
      /\ porHacer'[r] \in {{}, guardadas[r]}
      /\ inciertos \subseteq inciertos' /\ inciertos' \subseteq Pago
      /\ fallas \in Nat /\ fallas' \in Nat /\ fallas' >= fallas
      /\ \/ pc'[r] = "fin"
         \/ pc'[r] = "limpiar" /\ pide[r].pago \in inciertos'
  <2>1. CASE Confirmar(r)
    BY <1>1, <2>1, ResponderEs, LosTipos DEF Confirmar, Base, TypeOK
  <2>2. CASE ConfirmarIncierto(r)
    <3>1. /\ Limpiar(r, guardadas[r]) /\ inciertos' = inciertos \cup {pide[r].pago}
          /\ fallas' = fallas + 1
      BY <2>2 DEF ConfirmarIncierto, Falla
    <3>2. pc[r] \notin {"fin", "limpiar"}
      BY <1>1
    <3>3. fallas \in Nat /\ inciertos \subseteq Pago
      BY DEF Base, TypeOK
    <3>4. fallas' \in Nat /\ fallas' >= fallas
      BY <3>1, <3>3
    <3> QED BY <1>1, <1>2, <3>1, <3>2, <3>3, <3>4, LimpiarEs
  <2> QED BY <2>1, <2>2
<1>4. pagos' = pagos \cup {pide[r].pago} /\ imagenes' = imagenes \cup Claves(pide[r])
  BY <1>1 DEF Escribir
<1>5. EnSuPaso(r)' /\ pc'[r] \notin EnObra
  BY <1>1, <1>2, <1>3 DEF EnSuPaso, EnObra, Escritora
<1>6. TypeOK'
  BY <1>1, <1>2, <1>3, <1>4, SoltarEs DEF Base, TypeOK, Ajenas
<1>7. HuerfanoConDueno'
  <2>1. \A k \in blobs' \ imagenes' : k \in blobs \ imagenes /\ ~Responde(r, k)
    BY <1>1, <1>2, <1>4 DEF Responde
  <2> QED BY <1>3, <2>1, SigueHuerfano DEF Base
<1>8. ASSUME Propios PROVE Propios'
  <2>1. \A k : Repetida(k)' <=> Repetida(k)
    BY <1>1 DEF Repetida
  <2>2. ASSUME NEW s \in Peticion, NEW k \in guardadas'[s], pc'[s] \in EnObra
        PROVE  k \in blobs' \/ Repetida(k)'
    BY <1>1, <1>3, <1>5, <1>8, <2>1, <2>2 DEF Propios, BlobsPropios, Ajenas
  <2>3. ASSUME NEW k \in imagenes' PROVE Terminada(k)' \/ Repetida(k)'
    <3>1. CASE k \in imagenes
      BY <1>3, <1>8, <2>1, <3>1, SigueTerminada DEF Propios, BlobsPropios
    <3>2. CASE k \in Claves(pide[r])
      <4>1. k \in subidas'[r]
        BY <1>1, <1>2, <3>2
      <4>2. pc'[r] = "fin" \/ (pc'[r] = "limpiar" /\ k.pago \in inciertos')
        BY <1>2, <1>3, <3>2
      <4> QED BY <4>1, <4>2 DEF Terminada, Repetida
    <3> QED BY <1>4, <3>1, <3>2
  <2>4. ASSUME NEW s \in Peticion, NEW k \in porHacer'[s],
               pc'[s] = "limpiar", ~Escritora(s)
        PROVE  (k \notin imagenes' /\ Terminada(k)') \/ Repetida(k)'
    <3>1. s # r /\ pc[s] = "limpiar" /\ k \in porHacer[s]
      BY <1>2, <2>4, <1>3 DEF Ajenas
    <3>2. (k \notin imagenes /\ Terminada(k)) \/ Repetida(k)
      BY <1>8, <2>4, <3>1 DEF Propios, BlobsPropios
    <3>3. Terminada(k) => k \notin Claves(pide[r])
      BY <1>1, <1>2 DEF Terminada
    <3> QED BY <1>3, <1>4, <2>1, <3>2, <3>3, SigueTerminada
  <2>5. \A s \in Peticion : Escritora(s)' <=> Escritora(s)
    BY <1>1 DEF Escritora
  <2>6. \A k \in Claves(pide[r]) : k \in blobs \/ Repetida(k)
    BY <1>1, <1>2, <1>8 DEF Propios, BlobsPropios, EnObra
  <2>7. ASSUME NEW k \in imagenes'
        PROVE  k \in blobs' \/ k.pago \in inciertos' \/ Repetida(k)'
    BY <1>1, <1>3, <1>4, <1>8, <2>1, <2>6 DEF Propios, FilaConBlob
  <2>8. EnObra' = EnObra
    BY DEF EnObra
  <2> QED BY <2>2, <2>3, <2>4, <2>5, <2>7, <2>8 DEF Propios, BlobsPropios, FilaConBlob
<1>9. pagos \subseteq pagos'
  BY <1>4
<1> QED BY <1>3, <1>5, <1>6, <1>7, <1>8, <1>9, SigueEnSuPaso DEF Fija, Base

LEMMA BorrarFilaFija ==
  ASSUME Base, NEW r \in Peticion, BorrarFila(r)
  PROVE  Fija
<1>1. /\ pc[r] = "borrar" /\ Claves(pide[r]) \in SUBSET Clave
      /\ UNCHANGED <<pagos, blobs, insertando, pide, guardadas, inciertos, fallas,
                     subidas>>
  BY LosTipos DEF BorrarFila, Base
<1>2. /\ Ajenas(r) /\ guardadas'[r] = guardadas[r] /\ pc'[r] \in {"limpiar", "fin"}
      /\ \/ porHacer'[r] = {} /\ pc'[r] = "fin" /\ imagenes' = imagenes
         \/ /\ porHacer'[r] = Claves(pide[r]) /\ Claves(pide[r]) \subseteq imagenes
            /\ imagenes' = imagenes \ Claves(pide[r])
            /\ Claves(pide[r]) = {} \/ pc'[r] = "limpiar"
  <2>1. CASE Claves(pide[r]) \subseteq imagenes
    <3>1. Limpiar(r, Claves(pide[r])) /\ imagenes' = imagenes \ Claves(pide[r])
      BY <2>1 DEF BorrarFila
    <3> QED BY <1>1, <2>1, <3>1, LimpiarEs
  <2>2. CASE ~(Claves(pide[r]) \subseteq imagenes)
    BY <1>1, <2>2, ResponderEs DEF BorrarFila
  <2> QED BY <2>1, <2>2
<1>3. EnSuPaso(r)' /\ pc'[r] \notin EnObra
  BY <1>1, <1>2 DEF Base, EnSuPaso, EnObra, Escritora
<1>4. TypeOK'
  BY <1>1, <1>2 DEF Base, TypeOK, Ajenas
<1>5. HuerfanoConDueno'
  <2>1. \A k \in blobs' \ imagenes' :
          Responde(r, k)' \/ (k \in blobs \ imagenes /\ ~Responde(r, k))
    BY <1>1, <1>2 DEF Responde, EnObra
  <2> QED BY <1>1, <1>2, <2>1, LosTipos, SigueHuerfano DEF Base
<1>6. ASSUME Propios PROVE Propios'
  <2>1. \A k \in porHacer'[r] :
          (k \notin imagenes' /\ Terminada(k)) \/ Repetida(k)
    BY <1>2, <1>6 DEF Propios, BlobsPropios
  <2> QED BY <1>1, <1>2, <1>3, <1>6, <2>1, SinFilasNuevas DEF Propios
<1> QED BY <1>1, <1>2, <1>3, <1>4, <1>5, <1>6, SigueEnSuPaso DEF Fija, Base

LEMMA BorrarBlobFija ==
  ASSUME Base, NEW r \in Peticion, BorrarBlob(r)
  PROVE  Fija
<1>1. PICK k \in porHacer[r] :
        /\ \/ blobs' = blobs \ {k} /\ UNCHANGED fallas
           \/ Falla /\ UNCHANGED blobs
        /\ porHacer' = [porHacer EXCEPT ![r] = @ \ {k}]
        /\ pc' = [pc EXCEPT ![r] = IF porHacer[r] = {k} THEN "fin" ELSE "limpiar"]
  BY DEF BorrarBlob
<1>2. /\ pc[r] = "limpiar" /\ k \in Claves(pide[r])
      /\ UNCHANGED <<pagos, imagenes, insertando, pide, guardadas, inciertos,
                     subidas>>
  BY DEF BorrarBlob, Base, EnSuPaso
<1>3. /\ Ajenas(r) /\ porHacer'[r] = porHacer[r] \ {k} /\ guardadas'[r] = guardadas[r]
      /\ (pc'[r] = "fin" /\ porHacer[r] = {k}) \/ pc'[r] = "limpiar"
  BY <1>1, <1>2, PasosDe DEF Base, Ajenas, Paso
<1>4. EnSuPaso(r)' /\ pc'[r] \notin EnObra
  BY <1>2, <1>3 DEF Base, EnSuPaso, EnObra, Escritora
<1>5. fallas \in Nat /\ fallas' \in Nat /\ fallas' >= fallas
      /\ (fallas' = 0 => blobs' = blobs \ {k})
      /\ blobs' \subseteq blobs /\ blobs \ blobs' \subseteq {k}
  BY <1>1, LosTipos DEF Base, Falla
<1>6. TypeOK'
  BY <1>2, <1>3, <1>5 DEF Base, TypeOK, Ajenas
<1>7. HuerfanoConDueno'
  <2>1. fallas' = 0 => \A j \in blobs' \ imagenes' :
          Responde(r, j)' \/ (j \in blobs \ imagenes /\ ~Responde(r, j))
    BY <1>2, <1>3, <1>5 DEF Responde, EnObra
  <2> QED BY <1>3, <1>5, <2>1, SigueHuerfano DEF Base
<1>8. ASSUME Propios PROVE Propios'
  <2>1. \/ Repetida(k)'
        \/ /\ k \notin imagenes \/ k.pago \in inciertos
           /\ \A s \in Peticion \ {r} : pc[s] \in EnObra => k \notin guardadas[s]
    <3>1. CASE Escritora(r)
      <4>1. k \in subidas[r]
        BY <1>2, <3>1 DEF Base, EnSuPaso
      <4> QED BY <1>2, <1>3, <1>8, <4>1, NadaAjeno
    <3>2. CASE ~Escritora(r)
      <4>1. (k \notin imagenes /\ Terminada(k)) \/ Repetida(k)
        BY <1>2, <1>8, <3>2 DEF Propios, BlobsPropios
      <4>2. ASSUME NEW s \in Peticion, pc[s] \in EnObra, Terminada(k)
            PROVE  k \notin guardadas[s]
        BY <4>2 DEF Base, EnSuPaso, Terminada, EnObra
      <4> QED BY <1>3, <4>1, <4>2, SigueRepetida
    <3> QED BY <3>1, <3>2
  <2>2. ~Escritora(r) => \A j \in porHacer'[r] :
          (j \notin imagenes /\ Terminada(j)) \/ Repetida(j)
    BY <1>2, <1>3, <1>8 DEF Propios, BlobsPropios
  <2> QED BY <1>2, <1>3, <1>4, <1>5, <1>8, <2>1, <2>2, SinFilasNuevas DEF Propios
<1> QED BY <1>2, <1>3, <1>4, <1>6, <1>7, <1>8, SigueEnSuPaso DEF Fija, Base

LEMMA ReinicioFija == ASSUME Base, Reinicio PROVE Fija
<1>1. /\ \A r \in Peticion : /\ porHacer'[r] = {} /\ pc'[r] \in {"inicio", "fin"}
                             /\ pc[r] # "inicio" => pc'[r] = "fin"
                             /\ pc[r] = "inicio" => pc'[r] = "inicio"
      /\ UNCHANGED <<pagos, imagenes, blobs, pide, guardadas, inciertos, subidas>>
      /\ fallas' = fallas + 1 /\ fallas \in Nat
  BY LosTipos DEF Reinicio, Falla, Base
<1>2. TypeOK'
  <2>1. pc' \in [Peticion -> Paso] /\ porHacer' \in [Peticion -> SUBSET Clave]
        /\ insertando' \in [Pago -> Peticion \cup {Nadie}]
    BY DEF Reinicio, Base, TypeOK, Paso
  <2> QED BY <1>1, <2>1 DEF Base, TypeOK
<1>3. \A r \in Peticion : EnSuPaso(r)'
  BY <1>1 DEF Base, EnSuPaso, EnObra, Escritora
<1>4. HuerfanoConDueno'
  BY <1>1 DEF HuerfanoConDueno
<1>5. ASSUME Propios PROVE Propios'
  <2>1. ASSUME NEW k \in imagenes PROVE Terminada(k)' \/ Repetida(k)'
    BY <1>1, <1>5 DEF Propios, BlobsPropios, Terminada, Repetida
  <2>2. FilaConBlob'
    BY <1>1, <1>5 DEF Propios, FilaConBlob, Repetida
  <2> QED BY <1>1, <2>1, <2>2 DEF Propios, BlobsPropios, EnObra
<1> QED BY <1>2, <1>3, <1>4, <1>5 DEF Fija, Base

LEMMA Inicial == Init => Base /\ Propios
<1> SUFFICES ASSUME Init PROVE Base /\ Propios
  OBVIOUS
<1>1. TypeOK
  BY DEF Init, TypeOK, Paso
<1>2. \A r \in Peticion : EnSuPaso(r)
  BY DEF Init, EnSuPaso, EnObra
<1>3. HuerfanoConDueno /\ Propios
  BY DEF Init, HuerfanoConDueno, Propios, BlobsPropios, FilaConBlob, EnObra
<1> QED BY <1>1, <1>2, <1>3 DEF Base

LEMMA PasoFija == Base /\ [Next]_vars => Fija
<1> SUFFICES ASSUME Base, [Next]_vars PROVE Fija
  OBVIOUS
<1>1. CASE UNCHANGED vars
  BY <1>1 DEF vars, Fija, Base, TypeOK, EnSuPaso, Escritora, HuerfanoConDueno,
     Responde, Propios, BlobsPropios, Terminada, Repetida, FilaConBlob
<1>2. CASE \E r \in Peticion :
             \/ CrearPagoConImagenes(r) \/ AdjuntarImagenPago(r)
             \/ Guardar(r) \/ GuardarFalla(r)
             \/ Insertar(r) \/ InsertarDuplicado(r)
             \/ Confirmar(r) \/ Rechazar(r) \/ ConfirmarIncierto(r)
             \/ EliminarImagenPago(r) \/ BorrarFila(r) \/ BorrarBlob(r)
  BY <1>2, CrearFija, AdjuntarFija, GuardarFija, GuardarFallaFija, InsertarFija,
     DescartarFija, EscribirFija, EliminarFija, BorrarFilaFija, BorrarBlobFija
<1> QED BY <1>1, <1>2, ReinicioFija DEF Next

LEMMA InvBase == Spec => []Base
<1>1. Base /\ [Next]_vars => Base'
  BY PasoFija DEF Fija
<1> QED BY <1>1, Inicial, PTL DEF Spec

-----------------------------------------------------------------------------
(* The theorems *)

\* While nothing fails, every blob without a row has a request that will write
\* the row or delete the blob, whatever ids the phones reuse.
THEOREM CompensacionCompleta == Spec => []HuerfanoConDueno
<1>1. Base => HuerfanoConDueno
  BY DEF Base
<1> QED BY <1>1, InvBase, PTL

\* The inductive invariant: whose each key is, at every step of uploads, retries,
\* deletions, cleanups and restarts.
THEOREM Invariante == Spec => []IInv
<1>1. Base /\ Propios /\ [Next]_vars => Propios'
  BY PasoFija DEF Fija
<1>2. Base /\ Propios => IInv
  BY DEF Base, Propios, IInv
<1> QED BY <1>1, <1>2, InvBase, Inicial, PTL DEF Spec

\* A comprobante on record can be opened, unless its transaction was reported as
\* failed or another request uploaded the same imagen.
THEOREM ComprobanteAbre == Spec => []FilaConBlob
<1>1. IInv => FilaConBlob
  BY DEF IInv
<1> QED BY <1>1, Invariante, PTL

Completo ==
  \A x \in pagos' \ pagos : \E r \in Peticion :
    /\ pide[r].tipo = "crear" /\ pide[r].pago = x
    /\ Claves(pide[r]) \subseteq imagenes'
    /\ \A k \in Claves(pide[r]) : k \in blobs' \/ Repetida(k)'

\* A pago appears with the rows of every image it was sent with, and the blobs of
\* those no other request uploaded.
THEOREM PagoCompleto == Spec => PagoConSusImagenes
<1>1. IInv /\ [Next]_vars => [Completo]_vars
  <2> SUFFICES ASSUME IInv, Next, NEW x \in pagos' \ pagos
               PROVE  \E r \in Peticion :
                        /\ pide[r].tipo = "crear" /\ pide[r].pago = x
                        /\ Claves(pide[r]) \subseteq imagenes'
                        /\ \A k \in Claves(pide[r]) : k \in blobs' \/ Repetida(k)'
    BY DEF Completo
  <2>1. PICK r \in Peticion : Confirmar(r) \/ ConfirmarIncierto(r)
    BY DEF Next, CrearPagoConImagenes, AdjuntarImagenPago, Guardar, GuardarFalla,
       Insertar, InsertarDuplicado, Rechazar, EliminarImagenPago, BorrarFila,
       BorrarBlob, Reinicio
  <2>2. EnTx(r) /\ Escribir(r) /\ UNCHANGED <<blobs, subidas>>
    BY <2>1 DEF Confirmar, ConfirmarIncierto
  <2>3. pc[r] \in {"tx", "confirmar"} /\ EnSuPaso(r)
    BY <2>2 DEF EnTx, IInv
  <2>4. /\ \A k \in Claves(pide[r]) : k \in blobs \/ Repetida(k)
        /\ pide[r].tipo = "adjuntar" => pide[r].pago \in pagos
    BY <2>3 DEF EnSuPaso, EnObra, IInv, BlobsPropios
  <2>5. x = pide[r].pago /\ pide[r].tipo # "adjuntar"
    BY <2>2, <2>4 DEF Escribir
  <2>6. pide[r].tipo = "crear"
    BY <2>2, <2>3, <2>5 DEF EnTx, EnSuPaso
  <2>7. \A k : Repetida(k) => Repetida(k)'
    BY <2>2 DEF Repetida
  <2> QED BY <2>2, <2>4, <2>5, <2>6, <2>7 DEF Escribir
<1> QED BY <1>1, Invariante, PTL DEF Spec, PagoConSusImagenes, Completo
=============================================================================
