------------------------- MODULE Reactivacion_proofs -------------------------
(***************************************************************************)
(* The two halves of Reactivacion.  The sending channel, for any clientes, *)
(* drains, batch limits, stamps, runs, cap, crashes and days: no message   *)
(* that is not in doubt is in two hands (UnaSolaMano), so the count of a   *)
(* drain has whatever that drain sent today and is not in doubt, and       *)
(* everything that was recorded today as long as nobody else sends         *)
(* (Cuentas).  The copiloto, for any conversations, messages and           *)
(* operations: what its conditional updates and its last look at the       *)
(* channel keep.                                                           *)
(***************************************************************************)
EXTENDS EnviosReactivacion, Copiloto, FiniteSetTheorems, SequenceTheorems, TLAPS

\* The part of the invariant about the queue and the part about the drains.
Cola == SinMensaje /\ Guardia /\ AperturaUnica

EnOrdenLasManos == EnSuPaso /\ UnaSolaMano /\ Medicion

BienContado == Cuentas /\ TopeDeLosContados /\ TopeConCausa

Drenado == EnOrdenLasManos /\ BienContado

LEMMA DosPartes == IInv <=> TypeOK /\ Cola /\ Drenado
BY DEF IInv, Cola, Drenado, EnOrdenLasManos, BienContado

LEMMA Finitos ==
  /\ IsFiniteSet(Ids)
  /\ \A S \in SUBSET Ids : IsFiniteSet(S) /\ Cardinality(S) \in Nat
  <1>1. IsFiniteSet(1..MaxPorCliente)
    <2>1. 1 \in Int /\ MaxPorCliente \in Int
      BY EnviosAssumption DEF EnviosAssumption
    <2> QED BY <2>1, FS_Interval
  <1>2. IsFiniteSet(Ids)
    BY <1>1, FS_Product, EnviosAssumption DEF EnviosAssumption, Ids
  <1>3. ASSUME NEW S \in SUBSET Ids PROVE IsFiniteSet(S) /\ Cardinality(S) \in Nat
    <2>1. IsFiniteSet(S)
      BY <1>2, FS_Subset
    <2> QED BY <2>1, FS_CardinalityType
  <1> QED BY <1>2, <1>3

\* A smaller set of messages stays under every bound.
LEMMA Menos ==
  ASSUME NEW A \in SUBSET Ids, NEW B \in SUBSET A
  PROVE  /\ IsFiniteSet(A) /\ Cardinality(A) \in Nat /\ Cardinality(B) \in Nat
         /\ Cardinality(B) <= Cardinality(A)
         /\ \A n \in Nat : Cardinality(A) <= n => Cardinality(B) <= n
  <1>1. IsFiniteSet(A) /\ Cardinality(A) \in Nat /\ Cardinality(B) \in Nat
    BY Finitos
  <1>2. Cardinality(B) <= Cardinality(A)
    BY <1>1, FS_Subset
  <1>3. \A n \in Nat : Cardinality(A) <= n => Cardinality(B) <= n
    BY <1>1, <1>2
  <1> QED BY <1>1, <1>2, <1>3

\* One message more.
LEMMA UnoMas ==
  ASSUME NEW A \in SUBSET Ids, NEW m \in Ids, NEW B \in SUBSET (A \cup {m}),
         NEW n \in Nat, Cardinality(A) <= n
  PROVE  Cardinality(B) <= n + 1
  <1>1. IsFiniteSet(A) /\ Cardinality(A) \in Nat
    BY Finitos
  <1>2. Cardinality(A \cup {m}) \in Nat /\ Cardinality(A \cup {m}) <= Cardinality(A) + 1
    BY <1>1, FS_AddElement
  <1>3. A \cup {m} \in SUBSET Ids
    OBVIOUS
  <1>4. Cardinality(B) \in Nat /\ Cardinality(B) <= Cardinality(A \cup {m})
    BY <1>3, Menos
  <1> QED BY <1>1, <1>2, <1>4

LEMMA Tipos ==
  ASSUME TypeOK
  PROVE  /\ \A m \in Ids :
              /\ m[1] \in Clientes
              /\ fila[m] \in Fila
              /\ fila[m].estado \in {"ninguno", "encolado", "enviado", "fallido"}
              /\ fila[m].apertura \in BOOLEAN
              /\ fila[m].entregas \in {0, 1, 2}
         /\ \A p \in Proc :
              /\ hilo[p] \in Hilo
              /\ hilo[p].paso \in {"libre", "lista", "envia", "mano"}
              /\ hilo[p].lote \subseteq Ids /\ hilo[p].mano \subseteq Ids
              /\ hilo[p].cuenta \in Nat /\ hilo[p].acepto \in BOOLEAN
              /\ hilo[p].hoy \in BOOLEAN
              /\ EnManos(p) \subseteq Ids /\ SinAnotar(p) \subseteq EnManos(p)
              /\ PorContar(p) \subseteq SinAnotar(p)
              /\ salioPor[p] \subseteq Ids
  <1>1. \A m \in Ids : m[1] \in Clientes
    BY DEF Ids
  <1>2. \A m \in Ids : fila[m] \in Fila
    BY DEF TypeOK
  <1>3. \A r \in Fila : /\ r.estado \in {"ninguno", "encolado", "enviado", "fallido"}
                        /\ r.apertura \in BOOLEAN /\ r.entregas \in {0, 1, 2}
    <2>1. 0..2 = {0, 1, 2}
      OBVIOUS
    <2> QED BY <2>1 DEF Fila
  <1>4. \A p \in Proc : hilo[p] \in Hilo
    BY DEF TypeOK
  <1>5. \A h \in Hilo :
          /\ h.paso \in {"libre", "lista", "envia", "mano"}
          /\ h.lote \subseteq Ids /\ h.mano \subseteq Ids
          /\ h.cuenta \in Nat /\ h.acepto \in BOOLEAN /\ h.hoy \in BOOLEAN
    BY DEF Hilo
  <1>6. \A p \in Proc : EnManos(p) \subseteq Ids /\ SinAnotar(p) \subseteq EnManos(p)
    BY <1>4, <1>5 DEF EnManos, SinAnotar
  <1>7. \A p \in Proc : PorContar(p) \subseteq SinAnotar(p) /\ salioPor[p] \subseteq Ids
    BY DEF PorContar, TypeOK
  <1> QED BY <1>1, <1>2, <1>3, <1>4, <1>5, <1>6, <1>7

\* What a step of p does to the other drains: nothing.
LEMMA LosOtros ==
  ASSUME TypeOK, NEW p \in Proc, NEW h, Pasa(p, h)
  PROVE  /\ hilo'[p] = h
         /\ \A q \in Proc : q # p =>
              /\ hilo'[q] = hilo[q]
              /\ EnManos(q)' = EnManos(q) /\ SinAnotar(q)' = SinAnotar(q)
              /\ PorContar(q)' = PorContar(q)
  BY DEF TypeOK, Pasa, EnManos, SinAnotar, PorContar

-----------------------------------------------------------------------------
(* Types *)

LEMMA Registros ==
  /\ SinFila \in Fila /\ Libre \in Hilo /\ Terminada \in Corrida
  /\ \A a \in BOOLEAN : \A t \in Nat :
       /\ Nuevo(a, t) \in Fila /\ Nuevo(a, t).estado = "encolado"
       /\ Nuevo(a, t).apertura = a /\ Nuevo(a, t).entregas = 0
BY DEF SinFila, Fila, Libre, Hilo, Terminada, Corrida, Nuevo

LEMMA TipoDelPaso ==
  ASSUME TypeOK, NEW p \in Proc, NEW h \in Hilo, Pasa(p, h)
  PROVE  hilo' \in [Proc -> Hilo]
BY DEF TypeOK, Pasa

LEMMA TipoDeLaFila ==
  ASSUME TypeOK, NEW m \in Ids, NEW f \in Fila, fila' = [fila EXCEPT ![m] = f]
  PROVE  fila' \in [Ids -> Fila]
BY DEF TypeOK

LEMMA TipoSigue == TypeOK /\ [Next]_vars => TypeOK'
  <1> SUFFICES ASSUME TypeOK, [Next]_vars PROVE TypeOK'
    OBVIOUS
  <1> USE Registros DEF UnchangedTablas, UnchangedAuxiliares, auxiliares
  <1>1. ASSUME NEW r \in Corridas, Encolar(r) PROVE TypeOK'
    <2>1. PICK t \in hora..MaxHora :
            /\ hora' = t
            /\ Corre(r, [activa |-> TRUE, ahora |-> t, destinos |-> Faltan])
      BY <1>1 DEF Encolar
    <2>2. t \in Nat
      BY <2>1, EnviosAssumption DEF EnviosAssumption, TypeOK
    <2>3. [activa |-> TRUE, ahora |-> t, destinos |-> Faltan] \in Corrida
      BY <2>2 DEF Corrida, Faltan
    <2> QED BY <1>1, <2>1, <2>2, <2>3 DEF Encolar, Corre, TypeOK
  <1>2. ASSUME NEW r \in Corridas, InsertarAperturas(r) PROVE TypeOK'
    <2>1. fila' \in [Ids -> Fila]
      <3>1. corrida[r].ahora \in Nat
        BY DEF TypeOK, Corrida
      <3> QED BY <1>2, <3>1 DEF InsertarAperturas, TypeOK
    <2> QED BY <1>2, <2>1 DEF InsertarAperturas, Corre, TypeOK
  <1>3. ASSUME NEW r \in Corridas, FallaEncolar(r) PROVE TypeOK'
    BY <1>3 DEF FallaEncolar, Corre, TypeOK
  <1>4. CASE EncolarAprobado
    <2>1. PICK m \in Ids, t \in 0..MaxHora :
            /\ fila' = [fila EXCEPT ![m] = Nuevo(FALSE, t)]
            /\ hora' = IF t > hora THEN t ELSE hora
      BY <1>4 DEF EncolarAprobado
    <2>2. t \in Nat
      BY EnviosAssumption DEF EnviosAssumption
    <2>3. fila' \in [Ids -> Fila] /\ hora' \in Nat
      BY <2>1, <2>2 DEF TypeOK
    <2> QED BY <1>4, <2>3 DEF EncolarAprobado, TypeOK
  <1>5. ASSUME NEW p \in Proc, ListarPendientes(p) PROVE TypeOK'
    <2>1. PICK S \in SUBSET Pendientes :
            /\ Pasa(p, [Libre EXCEPT !.paso = "lista", !.lote = S])
            /\ dudosos' = dudosos \cup (S \cap UNION {EnManos(q) : q \in Proc})
      BY <1>5 DEF ListarPendientes
    <2>2. S \subseteq Ids
      BY DEF Pendientes
    <2>3. [Libre EXCEPT !.paso = "lista", !.lote = S] \in Hilo
      BY <2>2 DEF Libre, Hilo
    <2>4. hilo' \in [Proc -> Hilo]
      BY <2>1, <2>3, TipoDelPaso
    <2> QED BY <1>5, <2>1, <2>2, <2>4 DEF ListarPendientes, TypeOK
  <1>6. ASSUME NEW p \in Proc, Contar(p) PROVE TypeOK'
    <2>1. Cardinality(enviadosHoy) \in Nat
      BY Finitos DEF TypeOK
    <2>2. [hilo[p] EXCEPT !.paso = "envia", !.cuenta = Cardinality(enviadosHoy)] \in Hilo
      BY <2>1, Tipos DEF Hilo
    <2>3. hilo' \in [Proc -> Hilo]
      BY <1>6, <2>2, TipoDelPaso DEF Contar
    <2> QED BY <1>6, <2>3 DEF Contar, Cuenta, TypeOK
  <1>7. ASSUME NEW p \in Proc, Enviar(p) PROVE TypeOK'
    <2>1. PICK m \in hilo[p].lote, acepta \in BOOLEAN :
            /\ Pasa(p, [hilo[p] EXCEPT !.paso = "mano", !.lote = @ \ {m}, !.mano = {m},
                                       !.acepto = acepta, !.hoy = acepta])
            /\ IF acepta THEN Sale(p, m)
                         ELSE UNCHANGED <<fila, salioPor, rezagados, desfasados>>
      BY <1>7 DEF Enviar
    <2>2. m \in Ids /\ hilo[p] \in Hilo
      BY Tipos
    <2>3. [hilo[p] EXCEPT !.paso = "mano", !.lote = @ \ {m}, !.mano = {m},
                          !.acepto = acepta, !.hoy = acepta] \in Hilo
      BY <2>2 DEF Hilo
    <2>4. hilo' \in [Proc -> Hilo]
      BY <2>1, <2>3, TipoDelPaso
    <2>5. Otra(fila[m].entregas) \in 0..2
      BY DEF Otra
    <2>6. fila' \in [Ids -> Fila]
      <3>1. fila[m] \in Fila
        BY <2>2 DEF TypeOK
      <3>2. [fila[m] EXCEPT !.entregas = Otra(@)] \in Fila
        BY <3>1, <2>5 DEF Fila
      <3> QED BY <2>1, <2>2, <3>2 DEF TypeOK, Sale
    <2>7. /\ salioPor' \in [Proc -> SUBSET Ids]
          /\ rezagados' \subseteq Proc /\ desfasados' \subseteq Ids
      BY <2>1, <2>2 DEF TypeOK, Sale
    <2> QED BY <1>7, <2>4, <2>6, <2>7 DEF Enviar, TypeOK
  <1>8. ASSUME NEW p \in Proc, NEW c \in Nat, Sigue(p, c) PROVE hilo' \in [Proc -> Hilo]
    <2>1. [hilo[p] EXCEPT !.paso = "envia", !.cuenta = c, !.mano = {}, !.acepto = FALSE,
                          !.hoy = FALSE] \in Hilo
      BY Tipos DEF Hilo
    <2> QED BY <1>8, <2>1, TipoDelPaso DEF Sigue
  <1>9. \A m \in Ids : \A e \in {"enviado", "fallido"} : [fila[m] EXCEPT !.estado = e] \in Fila
    BY Tipos DEF Fila
  <1>10. ASSUME NEW p \in Proc, RegistrarEnviado(p) PROVE TypeOK'
    <2>1. PICK m \in hilo[p].mano : /\ fila' = [fila EXCEPT ![m].estado = "enviado"]
                                    /\ enviadosHoy' = IF hilo[p].hoy
                                                       THEN enviadosHoy \cup {m}
                                                       ELSE enviadosHoy \ {m}
                                    /\ contactados' = contactados \cup {m[1]}
      BY <1>10 DEF RegistrarEnviado
    <2>2. m \in Ids /\ m[1] \in Clientes /\ hilo[p].cuenta + 1 \in Nat
      BY Tipos
    <2>3. hilo' \in [Proc -> Hilo]
      BY <1>8, <1>10, <2>2 DEF RegistrarEnviado
    <2>4. fila' \in [Ids -> Fila]
      BY <1>9, <2>1, <2>2 DEF TypeOK
    <2> QED BY <1>10, <2>1, <2>2, <2>3, <2>4 DEF RegistrarEnviado, TypeOK
  <1>11. ASSUME NEW p \in Proc, RegistrarFallido(p) PROVE TypeOK'
    <2>1. PICK m \in hilo[p].mano : /\ fila' = [fila EXCEPT ![m].estado = "fallido"]
                                    /\ enviadosHoy' = enviadosHoy \ {m}
      BY <1>11 DEF RegistrarFallido
    <2>2. m \in Ids /\ hilo[p].cuenta \in Nat
      BY Tipos
    <2>3. hilo' \in [Proc -> Hilo]
      BY <1>8, <1>11, <2>2 DEF RegistrarFallido
    <2>4. fila' \in [Ids -> Fila]
      BY <1>9, <2>1, <2>2 DEF TypeOK
    <2> QED BY <1>11, <2>1, <2>2, <2>3, <2>4 DEF RegistrarFallido, TypeOK
  <1>12. MaxFallas \in Nat
    BY EnviosAssumption DEF EnviosAssumption
  <1>13. ASSUME fallas < MaxFallas, fallas' = fallas + 1 PROVE fallas' \in 0..MaxFallas
    BY <1>12, <1>13 DEF TypeOK
  <1>14. ASSUME NEW p \in Proc, FallaRegistro(p) PROVE TypeOK'
    <2>1. hilo' \in [Proc -> Hilo] /\ fallas' \in 0..MaxFallas
      BY <1>13, <1>14, TipoDelPaso DEF FallaRegistro
    <2>2. SinAnotar(p) \subseteq Ids
      BY Tipos
    <2> QED BY <1>14, <2>1, <2>2 DEF FallaRegistro, TypeOK
  <1>15. ASSUME NEW p \in Proc, TerminarLote(p) PROVE TypeOK'
    <2>1. hilo' \in [Proc -> Hilo]
      BY <1>15, TipoDelPaso DEF TerminarLote
    <2> QED BY <1>15, <2>1 DEF TerminarLote, TypeOK
  <1>16. CASE Caida
    <2>1. UNION {SinAnotar(p) : p \in Proc} \subseteq Ids
      BY Tipos
    <2>2. fallas' \in 0..MaxFallas
      BY <1>13, <1>16 DEF Caida
    <2> QED BY <1>16, <2>1, <2>2 DEF Caida, TypeOK
  <1>17. CASE NuevoDia
    <2>1. \A h \in Hilo : [h EXCEPT !.hoy = FALSE] \in Hilo
      BY DEF Hilo
    <2>2. hilo' \in [Proc -> Hilo]
      BY <1>17, <2>1 DEF NuevoDia, TypeOK
    <2> QED BY <1>17, <2>2 DEF NuevoDia, TypeOK
  <1>18. CASE UNCHANGED vars
    BY <1>18 DEF vars, TypeOK
  <1> QED BY <1>1, <1>2, <1>3, <1>4, <1>5, <1>6, <1>7, <1>10, <1>11, <1>14, <1>15,
             <1>16, <1>17, <1>18 DEF Next

-----------------------------------------------------------------------------
(* The queue: rows, the single flight, the openers *)

\* No new row, and nobody's opener changes.
LEMMA ColaFija ==
  ASSUME Cola, UNCHANGED <<encolando, corrida>>,
         \A m \in Ids : /\ fila'[m].apertura = fila[m].apertura
                        /\ \/ fila'[m] = fila[m]
                           \/ Existe(m) /\ fila'[m].estado # "ninguno"
  PROVE  Cola'
  <1>1. SinMensaje'
    BY DEF Cola, SinMensaje, Existe
  <1>2. Guardia'
    BY DEF Cola, Guardia
  <1>3. AperturaUnica'
    BY DEF Cola, AperturaUnica
  <1> QED BY <1>1, <1>2, <1>3 DEF Cola

LEMMA SiguienteUnica ==
  ASSUME NEW m \in Ids, NEW n \in Ids, Siguiente(m), Siguiente(n), m[1] = n[1]
  PROVE  m = n
  <1>1. m = <<m[1], m[2]>> /\ n = <<n[1], n[2]>>
    BY DEF Ids
  <1>2. m[2] \in 1..MaxPorCliente /\ n[2] \in 1..MaxPorCliente
    BY DEF Ids
  <1>3. m[2] \in Int /\ n[2] \in Int
    BY <1>2
  <1>4. ~(m[2] < n[2])
    BY DEF Siguiente
  <1>5. ~(n[2] < m[2])
    BY DEF Siguiente
  <1>6. m[2] = n[2]
    BY <1>3, <1>4, <1>5
  <1> QED BY <1>1, <1>6

LEMMA EncolarCola ==
  ASSUME TypeOK, Cola, NEW r \in Corridas, Encolar(r)
  PROVE  Cola'
  <1>1. fila' = fila
    BY DEF Encolar, UnchangedTablas
  <1>2. \A q \in Corridas : ~corrida[q].activa
    BY DEF Encolar, Cola, Guardia
  <1>3. /\ corrida'[r].activa /\ corrida'[r].destinos = Faltan
        /\ \A q \in Corridas : q # r => corrida'[q] = corrida[q]
    <2>1. PICK t : Corre(r, [activa |-> TRUE, ahora |-> t, destinos |-> Faltan])
      BY DEF Encolar
    <2> QED BY <2>1 DEF Corre, TypeOK
  <1>4. \A m \in Ids : m[1] \in Faltan => ~fila[m].apertura
    <2>1. \A m \in Ids : m[1] \in Faltan => ~Existe(m)
      BY Tipos DEF Faltan, ClientesConMensaje
    <2> QED BY <2>1 DEF Cola, SinMensaje, SinFila
  <1>5. Guardia'
    BY <1>1, <1>2, <1>3, <1>4 DEF Guardia, Encolar
  <1>6. SinMensaje' /\ AperturaUnica'
    BY <1>1 DEF Cola, SinMensaje, Existe, AperturaUnica
  <1> QED BY <1>5, <1>6 DEF Cola

\* A run ends, having inserted nothing but openers of clientes it found
\* without messages.
LEMMA TerminaCola ==
  ASSUME TypeOK, Cola, NEW r \in Corridas, corrida[r].activa, Corre(r, Terminada),
         \/ UNCHANGED fila
         \/ fila' = [m \in Ids |-> IF m \in Aperturas(r) THEN Nuevo(TRUE, corrida[r].ahora)
                                                         ELSE fila[m]]
  PROVE  Cola'
  <1>1. /\ corrida'[r] = Terminada
        /\ \A q \in Corridas : q # r => corrida'[q] = corrida[q]
    BY DEF Corre, TypeOK
  <1>2. \A q \in Corridas : corrida[q].activa => q = r
    BY DEF Cola, Guardia
  <1>3. Guardia'
    BY <1>1, <1>2 DEF Guardia, Terminada
  <1>4. \A m \in Ids : m[1] \in corrida[r].destinos => ~fila[m].apertura
    BY DEF Cola, Guardia
  <1>5. corrida[r].ahora \in Nat
    BY DEF TypeOK, Corrida
  <1>6. SinMensaje'
    BY <1>5, Registros DEF Cola, SinMensaje, Existe
  <1>7. CASE UNCHANGED fila
    BY <1>3, <1>6, <1>7 DEF Cola, AperturaUnica
  <1>8. CASE fila' = [m \in Ids |-> IF m \in Aperturas(r) THEN Nuevo(TRUE, corrida[r].ahora)
                                                          ELSE fila[m]]
    <2>1. ASSUME NEW m \in Ids, NEW n \in Ids, fila'[m].apertura, fila'[n].apertura,
                 m[1] = n[1]
          PROVE  m = n
      <3>1. CASE m \in Aperturas(r) /\ n \in Aperturas(r)
        BY <2>1, <3>1, SiguienteUnica DEF Aperturas
      <3>2. CASE m \in Aperturas(r) /\ n \notin Aperturas(r)
        <4>1. n[1] \in corrida[r].destinos /\ fila[n].apertura
          BY <1>8, <2>1, <3>2 DEF Aperturas
        <4> QED BY <1>4, <4>1
      <3>3. CASE m \notin Aperturas(r) /\ n \in Aperturas(r)
        <4>1. m[1] \in corrida[r].destinos /\ fila[m].apertura
          BY <1>8, <2>1, <3>3 DEF Aperturas
        <4> QED BY <1>4, <4>1
      <3>4. CASE m \notin Aperturas(r) /\ n \notin Aperturas(r)
        BY <1>8, <2>1, <3>4 DEF Cola, AperturaUnica
      <3> QED BY <3>1, <3>2, <3>3, <3>4
    <2>2. AperturaUnica'
      BY <2>1 DEF AperturaUnica
    <2> QED BY <1>3, <1>6, <2>2 DEF Cola
  <1> QED BY <1>7, <1>8

LEMMA EncolarAprobadoCola ==
  ASSUME TypeOK, Cola, EncolarAprobado
  PROVE  Cola'
  <1>1. PICK m \in Ids, t \in 0..MaxHora :
          Siguiente(m) /\ fila' = [fila EXCEPT ![m] = Nuevo(FALSE, t)]
    BY DEF EncolarAprobado
  <1>2. t \in Nat
    BY EnviosAssumption DEF EnviosAssumption
  <1>3. /\ fila'[m] = Nuevo(FALSE, t)
        /\ \A n \in Ids : n # m => fila'[n] = fila[n]
    BY <1>1 DEF TypeOK
  <1>4. \A n \in Ids : fila'[n].apertura => fila[n].apertura
    BY <1>2, <1>3, Registros
  <1>5. SinMensaje'
    BY <1>2, <1>3, Registros DEF Cola, SinMensaje, Existe
  <1>6. Guardia'
    BY <1>4 DEF Cola, Guardia, EncolarAprobado
  <1>7. AperturaUnica'
    BY <1>4 DEF Cola, AperturaUnica
  <1> QED BY <1>5, <1>6, <1>7 DEF Cola

LEMMA CaidaCola ==
  ASSUME TypeOK, Cola, Caida
  PROVE  Cola'
  <1>1. fila' = fila /\ \A r \in Corridas : corrida'[r] = Terminada
    BY DEF Caida, UnchangedTablas
  <1>2. Guardia'
    BY <1>1 DEF Guardia, Terminada
  <1> QED BY <1>1, <1>2 DEF Cola, SinMensaje, Existe, AperturaUnica

-----------------------------------------------------------------------------
(* The drains: what they hold *)

\* Hands, rows and doubts do not change.
LEMMA ManosIguales ==
  ASSUME EnOrdenLasManos, UNCHANGED <<fila, contactados, dudosos>>,
         \A p \in Proc :
           /\ hilo'[p].paso \in {"lista", "envia", "mano"}
                <=> hilo[p].paso \in {"lista", "envia", "mano"}
           /\ hilo'[p].paso = "mano" <=> hilo[p].paso = "mano"
           /\ hilo'[p].lote = hilo[p].lote /\ hilo'[p].mano = hilo[p].mano
           /\ hilo'[p].acepto = hilo[p].acepto
  PROVE  EnOrdenLasManos'
  <1>1. \A p \in Proc : EnManos(p)' = EnManos(p) /\ SinAnotar(p)' = SinAnotar(p)
    BY DEF EnManos, SinAnotar
  <1>2. EnSuPaso'
    BY <1>1 DEF EnOrdenLasManos, EnSuPaso, EnSuPasoDe, Existe
  <1>3. UnaSolaMano'
    BY <1>1 DEF EnOrdenLasManos, UnaSolaMano
  <1>4. Medicion'
    BY <1>1 DEF EnOrdenLasManos, Medicion
  <1> QED BY <1>2, <1>3, <1>4 DEF EnOrdenLasManos

\* New rows concern nobody who is draining.
LEMMA ManosConNuevas ==
  ASSUME TypeOK, SinMensaje, EnOrdenLasManos, UNCHANGED <<contactados, hilo, dudosos>>,
         \A m \in Ids : \/ fila'[m] = fila[m]
                        \/ /\ ~Existe(m)
                           /\ fila'[m].estado = "encolado" /\ fila'[m].entregas = 0
  PROVE  EnOrdenLasManos'
  <1>1. \A p \in Proc : EnManos(p)' = EnManos(p) /\ SinAnotar(p)' = SinAnotar(p)
    BY DEF EnManos, SinAnotar
  <1>2. \A p \in Proc : \A m \in EnManos(p) : m \in Ids /\ Existe(m) /\ fila'[m] = fila[m]
    BY Tipos DEF EnOrdenLasManos, EnSuPaso, EnSuPasoDe
  <1>3. \A m \in Ids : fila'[m].entregas = fila[m].entregas
    BY DEF SinMensaje, SinFila
  <1>4. \A m \in Ids : fila'[m].estado \in {"enviado", "fallido"} =>
          fila'[m].estado = fila[m].estado
    OBVIOUS
  <1>5. \A m \in Ids : fila[m].estado = "enviado" => fila'[m].estado = "enviado"
    BY DEF Existe
  <1>6. EnSuPaso'
    <2>1. \A p \in Proc : /\ \A m \in EnManos(p) : Existe(m)'
                          /\ \A m \in SinAnotar(p) : fila'[m].entregas > 0
      BY <1>2, Tipos DEF EnOrdenLasManos, EnSuPaso, EnSuPasoDe, Existe
    <2> QED BY <1>1, <2>1 DEF EnOrdenLasManos, EnSuPaso, EnSuPasoDe
  <1>7. UnaSolaMano'
    BY <1>1, <1>2 DEF EnOrdenLasManos, UnaSolaMano
  <1>8. Medicion'
    <2>1. \A m \in Ids \ dudosos :
            /\ fila'[m].entregas <= 1
            /\ fila'[m].estado = "enviado" => fila'[m].entregas = 1
            /\ fila'[m].estado = "fallido" => fila'[m].entregas = 0
            /\ fila'[m].entregas = 1 =>
                 fila'[m].estado = "enviado" \/ \E p \in Proc : m \in SinAnotar(p)'
      BY <1>1, <1>3, <1>4, <1>5 DEF EnOrdenLasManos, Medicion
    <2>2. \A m \in Ids : fila'[m].estado = "enviado" => m[1] \in contactados'
      BY <1>4 DEF EnOrdenLasManos, Medicion
    <2>3. \A c \in contactados' : \E m \in Ids : m[1] = c /\ fila'[m].entregas > 0
      BY <1>3 DEF EnOrdenLasManos, Medicion
    <2> QED BY <2>1, <2>2, <2>3 DEF Medicion
  <1> QED BY <1>6, <1>7, <1>8 DEF EnOrdenLasManos

LEMMA OtrosEnSuPaso ==
  ASSUME TypeOK, EnOrdenLasManos, NEW p \in Proc, EnSuPasoDe(p)',
         \A q \in Proc : q # p =>
           hilo'[q] = hilo[q] /\ EnManos(q)' = EnManos(q) /\ SinAnotar(q)' = SinAnotar(q),
         \A m \in Ids : /\ fila[m].estado # "ninguno" => fila'[m].estado # "ninguno"
                        /\ fila[m].entregas > 0 => fila'[m].entregas > 0
  PROVE  EnSuPaso'
  <1>1. ASSUME NEW q \in Proc, q # p PROVE EnSuPasoDe(q)'
    <2>1. EnSuPasoDe(q) /\ EnManos(q) \subseteq Ids /\ SinAnotar(q) \subseteq Ids
      BY Tipos DEF EnOrdenLasManos, EnSuPaso
    <2> QED BY <1>1, <2>1 DEF EnSuPasoDe, Existe
  <1> QED BY <1>1 DEF EnSuPaso

\* What a batch takes from the hands of others is in doubt from then on.
LEMMA ListarManos ==
  ASSUME TypeOK, EnOrdenLasManos, NEW p \in Proc, NEW S \in SUBSET Pendientes,
         hilo[p].paso = "libre",
         Pasa(p, [Libre EXCEPT !.paso = "lista", !.lote = S]),
         dudosos' = dudosos \cup (S \cap UNION {EnManos(q) : q \in Proc}),
         UNCHANGED <<fila, contactados>>
  PROVE  /\ EnOrdenLasManos'
         /\ hilo'[p].paso = "lista"
         /\ \A q \in Proc : SinAnotar(q)' = SinAnotar(q) /\ PorContar(q)' = PorContar(q)
  <1>1. /\ hilo[p].lote = {} /\ hilo[p].mano = {} /\ ~hilo[p].acepto
        /\ EnManos(p) = {} /\ SinAnotar(p) = {} /\ PorContar(p) = {}
    BY DEF EnOrdenLasManos, EnSuPaso, EnSuPasoDe, EnManos, SinAnotar, PorContar
  <1>2. /\ hilo'[p].paso = "lista" /\ hilo'[p].lote = S
        /\ hilo'[p].mano = {} /\ ~hilo'[p].acepto
    <2>1. hilo'[p] = [Libre EXCEPT !.paso = "lista", !.lote = S]
      BY LosOtros
    <2> QED BY <2>1 DEF Libre
  <1>3. EnManos(p)' = S /\ SinAnotar(p)' = {} /\ PorContar(p)' = {}
    BY <1>2 DEF EnManos, SinAnotar, PorContar
  <1>4. \A q \in Proc : q # p =>
          /\ hilo'[q] = hilo[q] /\ EnManos(q)' = EnManos(q)
          /\ SinAnotar(q)' = SinAnotar(q) /\ PorContar(q)' = PorContar(q)
    BY LosOtros
  <1>5. \A m \in S : m \in Ids /\ fila[m].estado = "encolado"
    BY DEF Pendientes
  <1>6. \A q \in Proc : SinAnotar(q)' = SinAnotar(q) /\ PorContar(q)' = PorContar(q)
    BY <1>1, <1>3, <1>4
  <1>7. EnSuPaso'
    <2>1. \A m \in EnManos(p)' : Existe(m)'
      BY <1>3, <1>5 DEF Existe
    <2>2. EnSuPasoDe(p)'
      BY <1>2, <1>3, <2>1 DEF EnSuPasoDe
    <2> QED BY <1>4, <2>2, OtrosEnSuPaso
  <1>8. UnaSolaMano'
    <2>1. ASSUME NEW q \in Proc, q # p PROVE EnManos(q)' \cap S \subseteq dudosos'
      BY <1>4, <2>1
    <2>2. \A q, r \in Proc : q = r \/ EnManos(q)' \cap EnManos(r)' \subseteq dudosos'
      BY <1>3, <1>4, <2>1 DEF EnOrdenLasManos, UnaSolaMano
    <2>3. \A m \in EnManos(p)' \ dudosos' :
            fila'[m].estado = "encolado" /\ fila'[m].entregas # 1
      <3>1. SUFFICES ASSUME NEW m \in S, m \notin dudosos'
                     PROVE  fila[m].entregas # 1
        BY <1>3, <1>5
      <3>2. m \in Ids /\ m \notin dudosos /\ \A q \in Proc : m \notin EnManos(q)
        BY <1>5, <3>1
      <3>3. \A q \in Proc : m \notin SinAnotar(q)
        BY <3>2, Tipos
      <3>4. fila[m].estado # "enviado"
        BY <1>5
      <3> QED BY <3>2, <3>3, <3>4 DEF EnOrdenLasManos, Medicion
    <2>4. \A q \in Proc : \A m \in EnManos(q)' \ dudosos' :
            /\ fila'[m].estado = "encolado"
            /\ fila'[m].entregas = 1 => m \in SinAnotar(q)'
      BY <1>4, <2>3 DEF EnOrdenLasManos, UnaSolaMano
    <2> QED BY <2>2, <2>4 DEF UnaSolaMano
  <1>9. Medicion'
    BY <1>6 DEF EnOrdenLasManos, Medicion
  <1> QED BY <1>2, <1>6, <1>7, <1>8, <1>9 DEF EnOrdenLasManos

\* What the sender does to the row of the message it accepts.
LEMMA FilaQueSale ==
  ASSUME TypeOK, NEW m \in Ids, fila' = [fila EXCEPT ![m].entregas = Otra(@)]
  PROVE  /\ \A n \in Ids : n # m => fila'[n] = fila[n]
         /\ fila'[m].entregas = Otra(fila[m].entregas) /\ fila'[m].entregas > 0
         /\ \A n \in Ids : /\ fila'[n].estado = fila[n].estado
                           /\ fila'[n].apertura = fila[n].apertura
                           /\ fila[n].entregas > 0 => fila'[n].entregas > 0
  <1>1. fila[m] \in Fila /\ fila \in [Ids -> Fila]
    BY DEF TypeOK
  <1>2. \A f \in Fila : \A e : /\ [f EXCEPT !.entregas = e].estado = f.estado
                               /\ [f EXCEPT !.entregas = e].apertura = f.apertura
                               /\ [f EXCEPT !.entregas = e].entregas = e
    BY DEF Fila
  <1>3. /\ fila'[m] = [fila[m] EXCEPT !.entregas = Otra(fila[m].entregas)]
        /\ \A n \in Ids : n # m => fila'[n] = fila[n]
    BY <1>1
  <1>4. /\ fila'[m].estado = fila[m].estado /\ fila'[m].apertura = fila[m].apertura
        /\ fila'[m].entregas = Otra(fila[m].entregas)
    BY <1>1, <1>2, <1>3
  <1>5. Otra(fila[m].entregas) > 0
    BY DEF Otra
  <1> QED BY <1>3, <1>4, <1>5

LEMMA EnviarManos ==
  ASSUME TypeOK, EnOrdenLasManos, NEW p \in Proc, hilo[p].paso = "envia",
         NEW m \in hilo[p].lote, NEW acepta \in BOOLEAN,
         Pasa(p, [hilo[p] EXCEPT !.paso = "mano", !.lote = @ \ {m}, !.mano = {m},
                                 !.acepto = acepta, !.hoy = acepta]),
         IF acepta THEN fila' = [fila EXCEPT ![m].entregas = Otra(@)] ELSE UNCHANGED fila,
         UNCHANGED <<contactados, dudosos>>
  PROVE  /\ EnOrdenLasManos'
         /\ m \in Ids
         /\ hilo'[p].paso = "mano" /\ hilo'[p].cuenta = hilo[p].cuenta
         /\ SinAnotar(p) = {} /\ PorContar(p) = {}
         /\ SinAnotar(p)' = IF acepta THEN {m} ELSE {}
         /\ PorContar(p)' = IF acepta THEN {m} ELSE {}
  <1>1. /\ hilo[p].mano = {} /\ ~hilo[p].acepto
        /\ SinAnotar(p) = {} /\ PorContar(p) = {} /\ EnManos(p) = hilo[p].lote
    BY DEF EnOrdenLasManos, EnSuPaso, EnSuPasoDe, SinAnotar, PorContar, EnManos
  <1>2. m \in Ids /\ Existe(m) /\ m \in EnManos(p)
    BY <1>1, Tipos DEF EnOrdenLasManos, EnSuPaso, EnSuPasoDe
  <1>3. /\ hilo'[p].paso = "mano" /\ hilo'[p].lote = hilo[p].lote \ {m}
        /\ hilo'[p].mano = {m} /\ hilo'[p].acepto = acepta /\ hilo'[p].hoy = acepta
        /\ hilo'[p].cuenta = hilo[p].cuenta
    <2>1. hilo'[p] = [hilo[p] EXCEPT !.paso = "mano", !.lote = @ \ {m}, !.mano = {m},
                                     !.acepto = acepta, !.hoy = acepta]
      BY LosOtros
    <2>2. hilo[p] \in Hilo
      BY Tipos
    <2> QED BY <2>1, <2>2 DEF Hilo
  <1>4. /\ EnManos(p)' = EnManos(p)
        /\ SinAnotar(p)' = IF acepta THEN {m} ELSE {}
        /\ PorContar(p)' = IF acepta THEN {m} ELSE {}
    BY <1>1, <1>3 DEF EnManos, SinAnotar, PorContar
  <1>5. \A q \in Proc : q # p =>
          hilo'[q] = hilo[q] /\ EnManos(q)' = EnManos(q) /\ SinAnotar(q)' = SinAnotar(q)
    BY LosOtros
  <1>6. /\ \A n \in Ids : n # m => fila'[n] = fila[n]
        /\ fila'[m].entregas = IF acepta THEN Otra(fila[m].entregas) ELSE fila[m].entregas
        /\ acepta => fila'[m].entregas > 0
        /\ \A n \in Ids : /\ fila'[n].estado = fila[n].estado
                          /\ fila[n].entregas > 0 => fila'[n].entregas > 0
    <2>1. CASE acepta
      BY <1>2, <2>1, FilaQueSale
    <2>2. CASE ~acepta
      BY <2>2
    <2> QED BY <2>1, <2>2
  <1>7. EnSuPaso'
    <2>1. \A n \in EnManos(p) : Existe(n)' /\ n \in Ids
      BY <1>6, Tipos DEF EnOrdenLasManos, EnSuPaso, EnSuPasoDe, Existe
    <2>2. \A n \in SinAnotar(p)' : fila'[n].entregas > 0
      BY <1>4, <1>6
    <2>3. EnSuPasoDe(p)'
      BY <1>2, <1>3, <1>4, <2>1, <2>2 DEF EnSuPasoDe
    <2> QED BY <1>5, <1>6, <2>3, OtrosEnSuPaso
  <1>8. \A q \in Proc : EnManos(q)' = EnManos(q)
    BY <1>4, <1>5
  <1>9. \A n \in EnManos(p) \ dudosos :
           /\ fila[n].estado = "encolado" /\ fila[n].entregas # 1
           /\ \A q \in Proc : q # p => n \notin EnManos(q)
    BY <1>1 DEF EnOrdenLasManos, UnaSolaMano
  <1>10. m \notin dudosos => fila[m].entregas = 0
    <2>1. m \notin dudosos => fila[m].entregas <= 1 /\ fila[m].entregas # 1
      BY <1>2, <1>9 DEF EnOrdenLasManos, Medicion
    <2> QED BY <1>2, <2>1, Tipos
  <1>11. UnaSolaMano'
    <2>1. \A n \in EnManos(p)' \ dudosos' :
            /\ fila'[n].estado = "encolado"
            /\ fila'[n].entregas = 1 => n \in SinAnotar(p)'
      <3>1. SUFFICES ASSUME NEW n \in EnManos(p) \ dudosos
                     PROVE  /\ fila'[n].estado = "encolado"
                            /\ fila'[n].entregas = 1 => n \in SinAnotar(p)'
        BY <1>8
      <3>2. n \in Ids /\ fila'[n].estado = "encolado"
        BY <1>6, <1>9, Tipos
      <3>3. CASE n = m
        BY <1>4, <1>6, <1>9, <3>2, <3>3
      <3>4. CASE n # m
        BY <1>6, <1>9, <3>2, <3>4
      <3> QED BY <3>3, <3>4
    <2>2. ASSUME NEW q \in Proc, q # p, NEW n \in EnManos(q)' \ dudosos'
          PROVE  /\ fila'[n].estado = "encolado"
                 /\ fila'[n].entregas = 1 => n \in SinAnotar(q)'
      <3>1. n \in EnManos(q) \ dudosos /\ n \in Ids
        BY <1>8, <2>2, Tipos
      <3>2. n # m
        BY <1>2, <1>9, <2>2, <3>1
      <3>3. fila'[n] = fila[n] /\ SinAnotar(q)' = SinAnotar(q)
        BY <1>5, <1>6, <2>2, <3>1, <3>2
      <3> QED BY <3>1, <3>3 DEF EnOrdenLasManos, UnaSolaMano
    <2>3. \A q, r \in Proc : q = r \/ EnManos(q)' \cap EnManos(r)' \subseteq dudosos'
      BY <1>8 DEF EnOrdenLasManos, UnaSolaMano
    <2> QED BY <2>1, <2>2, <2>3 DEF UnaSolaMano
  <1>12. \A q \in Proc : SinAnotar(q) \subseteq SinAnotar(q)'
    BY <1>1, <1>5
  <1>13. Medicion'
    <2>1. ASSUME NEW n \in Ids \ dudosos'
          PROVE  /\ fila'[n].entregas <= 1
                 /\ fila'[n].estado = "enviado" => fila'[n].entregas = 1
                 /\ fila'[n].estado = "fallido" => fila'[n].entregas = 0
                 /\ fila'[n].entregas = 1 =>
                      fila'[n].estado = "enviado" \/ \E q \in Proc : n \in SinAnotar(q)'
      <3>1. CASE n = m
        <4>1. fila'[m].estado = "encolado"
          BY <1>2, <1>6, <1>9, <2>1, <3>1
        <4>2. fila'[m].entregas = IF acepta THEN 1 ELSE 0
          BY <1>6, <1>10, <2>1, <3>1 DEF Otra
        <4>3. acepta => m \in SinAnotar(p)'
          BY <1>4
        <4> QED BY <3>1, <4>1, <4>2, <4>3
      <3>2. CASE n # m
        BY <1>6, <1>12, <2>1, <3>2 DEF EnOrdenLasManos, Medicion
      <3> QED BY <3>1, <3>2
    <2>2. \A n \in Ids : fila'[n].estado = "enviado" => n[1] \in contactados'
      BY <1>6 DEF EnOrdenLasManos, Medicion
    <2>3. \A c \in contactados' : \E n \in Ids : n[1] = c /\ fila'[n].entregas > 0
      BY <1>6 DEF EnOrdenLasManos, Medicion
    <2> QED BY <2>1, <2>2, <2>3 DEF Medicion
  <1> QED BY <1>1, <1>2, <1>3, <1>4, <1>7, <1>11, <1>13 DEF EnOrdenLasManos

\* What the row of the message in hand says after it is recorded.
LEMMA FilaAnotada ==
  ASSUME TypeOK, NEW m \in Ids, NEW e \in {"enviado", "fallido"},
         fila' = [fila EXCEPT ![m].estado = e]
  PROVE  /\ \A n \in Ids : n # m => fila'[n] = fila[n]
         /\ fila'[m].estado = e
         /\ \A n \in Ids : /\ fila'[n].entregas = fila[n].entregas
                           /\ fila'[n].apertura = fila[n].apertura
  <1>1. fila[m] \in Fila /\ fila \in [Ids -> Fila]
    BY DEF TypeOK
  <1>2. \A f \in Fila : /\ [f EXCEPT !.estado = e].estado = e
                        /\ [f EXCEPT !.estado = e].apertura = f.apertura
                        /\ [f EXCEPT !.estado = e].entregas = f.entregas
    BY DEF Fila
  <1>3. fila'[m] = [fila[m] EXCEPT !.estado = e] /\ \A n \in Ids : n # m => fila'[n] = fila[n]
    BY <1>1
  <1> QED BY <1>1, <1>2, <1>3

\* The message in the hand of p.
LEMMA EnLaMano ==
  ASSUME TypeOK, EnOrdenLasManos, NEW p \in Proc, hilo[p].paso = "mano",
         NEW m \in hilo[p].mano
  PROVE  /\ hilo[p].mano = {m} /\ m \notin hilo[p].lote /\ m \in Ids /\ Existe(m)
         /\ m \in EnManos(p) /\ EnManos(p) = hilo[p].lote \cup {m}
         /\ SinAnotar(p) = IF hilo[p].acepto THEN {m} ELSE {}
         /\ m \notin dudosos =>
              /\ fila[m].estado = "encolado"
              /\ fila[m].entregas = IF hilo[p].acepto THEN 1 ELSE 0
              /\ \A q \in Proc : q # p => m \notin EnManos(q)
  <1>1. EnSuPasoDe(p)
    BY DEF EnOrdenLasManos, EnSuPaso
  <1>2. hilo[p].mano = {m} /\ m \notin hilo[p].lote /\ m \in Ids
    BY <1>1 DEF EnSuPasoDe
  <1>3. /\ Existe(m) /\ m \in EnManos(p) /\ EnManos(p) = hilo[p].lote \cup {m}
        /\ SinAnotar(p) = IF hilo[p].acepto THEN {m} ELSE {}
    BY <1>1, <1>2 DEF EnSuPasoDe, EnManos, SinAnotar
  <1>4. ASSUME m \notin dudosos
        PROVE  /\ fila[m].estado = "encolado"
               /\ fila[m].entregas = IF hilo[p].acepto THEN 1 ELSE 0
               /\ \A q \in Proc : q # p => m \notin EnManos(q)
    <2>1. fila[m].estado = "encolado" /\ (fila[m].entregas = 1 => m \in SinAnotar(p))
      BY <1>3, <1>4 DEF EnOrdenLasManos, UnaSolaMano
    <2>2. fila[m].entregas \in {0, 1, 2} /\ fila[m].entregas <= 1
      BY <1>2, <1>4, Tipos DEF EnOrdenLasManos, Medicion
    <2>3. m \in SinAnotar(p) => fila[m].entregas > 0
      BY <1>1 DEF EnSuPasoDe
    <2>4. \A q \in Proc : q # p => m \notin EnManos(q)
      BY <1>3, <1>4 DEF EnOrdenLasManos, UnaSolaMano
    <2> QED BY <1>3, <2>1, <2>2, <2>3, <2>4
  <1> QED BY <1>2, <1>3, <1>4

LEMMA TrasSigue ==
  ASSUME TypeOK, NEW p \in Proc, NEW c \in Nat, Sigue(p, c)
  PROVE  /\ hilo'[p].paso = "envia" /\ hilo'[p].lote = hilo[p].lote
         /\ hilo'[p].mano = {} /\ ~hilo'[p].acepto /\ hilo'[p].cuenta = c
         /\ EnManos(p)' = hilo[p].lote /\ SinAnotar(p)' = {} /\ PorContar(p)' = {}
         /\ \A q \in Proc : q # p =>
              /\ hilo'[q] = hilo[q] /\ EnManos(q)' = EnManos(q)
              /\ SinAnotar(q)' = SinAnotar(q) /\ PorContar(q)' = PorContar(q)
  <1>1. hilo'[p] = [hilo[p] EXCEPT !.paso = "envia", !.cuenta = c, !.mano = {},
                                   !.acepto = FALSE, !.hoy = FALSE]
    BY LosOtros DEF Sigue
  <1>2. hilo[p] \in Hilo
    BY Tipos
  <1>3. /\ hilo'[p].paso = "envia" /\ hilo'[p].lote = hilo[p].lote
        /\ hilo'[p].mano = {} /\ hilo'[p].acepto = FALSE /\ hilo'[p].cuenta = c
    BY <1>1, <1>2 DEF Hilo
  <1>4. EnManos(p)' = hilo[p].lote /\ SinAnotar(p)' = {} /\ PorContar(p)' = {}
    BY <1>3 DEF EnManos, SinAnotar, PorContar
  <1>5. \A q \in Proc : q # p =>
          /\ hilo'[q] = hilo[q] /\ EnManos(q)' = EnManos(q)
          /\ SinAnotar(q)' = SinAnotar(q) /\ PorContar(q)' = PorContar(q)
    BY LosOtros DEF Sigue
  <1> QED BY <1>3, <1>4, <1>5

\* The steps that record the answer of the sender.
LEMMA AnotarManos ==
  ASSUME TypeOK, EnOrdenLasManos, NEW p \in Proc,
         hilo[p].paso = "mano", NEW m \in hilo[p].mano,
         NEW e \in {"enviado", "fallido"}, hilo[p].acepto = (e = "enviado"),
         fila' = [fila EXCEPT ![m].estado = e],
         contactados' = IF e = "enviado" THEN contactados \cup {m[1]} ELSE contactados,
         NEW c \in Nat, Sigue(p, c), UNCHANGED dudosos
  PROVE  EnOrdenLasManos'
  <1>1. /\ hilo[p].mano = {m} /\ m \notin hilo[p].lote /\ m \in Ids /\ Existe(m)
        /\ m \in EnManos(p) /\ EnManos(p) = hilo[p].lote \cup {m}
        /\ SinAnotar(p) = IF e = "enviado" THEN {m} ELSE {}
        /\ m \notin dudosos =>
             /\ fila[m].estado = "encolado"
             /\ fila[m].entregas = IF e = "enviado" THEN 1 ELSE 0
             /\ \A q \in Proc : q # p => m \notin EnManos(q)
    BY EnLaMano
  <1>2. /\ hilo'[p].paso = "envia" /\ hilo'[p].lote = hilo[p].lote
        /\ hilo'[p].mano = {} /\ ~hilo'[p].acepto
        /\ EnManos(p)' = hilo[p].lote /\ SinAnotar(p)' = {}
    BY TrasSigue
  <1>3. \A q \in Proc : q # p =>
          hilo'[q] = hilo[q] /\ EnManos(q)' = EnManos(q) /\ SinAnotar(q)' = SinAnotar(q)
    BY TrasSigue
  <1>4. /\ \A n \in Ids : n # m => fila'[n] = fila[n]
        /\ fila'[m].estado = e
        /\ \A n \in Ids : fila'[n].entregas = fila[n].entregas
    BY <1>1, FilaAnotada
  <1>5. \A q \in Proc : EnManos(q)' \subseteq EnManos(q)
    BY <1>1, <1>2, <1>3
  <1>6. EnSuPaso'
    <2>1. \A n \in hilo[p].lote : n \in Ids /\ n # m /\ fila[n].estado # "ninguno"
      BY <1>1, Tipos DEF EnOrdenLasManos, EnSuPaso, EnSuPasoDe, Existe
    <2>2. EnSuPasoDe(p)'
      BY <1>2, <1>4, <2>1 DEF EnSuPasoDe, Existe
    <2>3. \A n \in Ids : /\ fila[n].estado # "ninguno" => fila'[n].estado # "ninguno"
                         /\ fila[n].entregas > 0 => fila'[n].entregas > 0
      BY <1>4
    <2> QED BY <1>3, <2>2, <2>3, OtrosEnSuPaso
  <1>7. UnaSolaMano'
    <2>1. \A q, r \in Proc : q = r \/ EnManos(q)' \cap EnManos(r)' \subseteq dudosos'
      <3>1. SUFFICES ASSUME NEW q \in Proc, NEW r \in Proc, q # r
                     PROVE  EnManos(q)' \cap EnManos(r)' \subseteq dudosos
        OBVIOUS
      <3>2. EnManos(q) \cap EnManos(r) \subseteq dudosos
        BY <3>1 DEF EnOrdenLasManos, UnaSolaMano
      <3>3. EnManos(q)' \subseteq EnManos(q) /\ EnManos(r)' \subseteq EnManos(r)
        BY <1>5
      <3> QED BY <3>2, <3>3
    <2>2. ASSUME NEW q \in Proc, NEW n \in EnManos(q)' \ dudosos'
          PROVE  /\ fila'[n].estado = "encolado"
                 /\ fila'[n].entregas = 1 => n \in SinAnotar(q)'
      <3>1. n \in EnManos(q) \ dudosos /\ n \in Ids
        BY <1>5, <2>2, Tipos
      <3>2. n # m
        BY <1>1, <1>2, <2>2, <3>1
      <3>3. fila'[n] = fila[n]
        BY <1>4, <3>1, <3>2
      <3>4. /\ fila[n].estado = "encolado"
            /\ fila[n].entregas = 1 => n \in SinAnotar(q)
        BY <3>1 DEF EnOrdenLasManos, UnaSolaMano
      <3>5. n \in SinAnotar(q) => n \in SinAnotar(q)'
        BY <1>1, <1>3, <3>2
      <3> QED BY <3>3, <3>4, <3>5
    <2> QED BY <2>1, <2>2 DEF UnaSolaMano
  <1>8. Medicion'
    <2>1. ASSUME NEW n \in Ids \ dudosos'
          PROVE  /\ fila'[n].entregas <= 1
                 /\ fila'[n].estado = "enviado" => fila'[n].entregas = 1
                 /\ fila'[n].estado = "fallido" => fila'[n].entregas = 0
                 /\ fila'[n].entregas = 1 =>
                      fila'[n].estado = "enviado" \/ \E q \in Proc : n \in SinAnotar(q)'
      <3>1. CASE n = m
        BY <1>1, <1>4, <2>1, <3>1
      <3>2. CASE n # m
        <4>1. fila'[n] = fila[n]
          BY <1>4, <2>1, <3>2
        <4>2. \A q \in Proc : n \in SinAnotar(q) => n \in SinAnotar(q)'
          BY <1>1, <1>3, <3>2
        <4> QED BY <2>1, <4>1, <4>2 DEF EnOrdenLasManos, Medicion
      <3> QED BY <3>1, <3>2
    <2>2. ASSUME NEW n \in Ids, fila'[n].estado = "enviado" PROVE n[1] \in contactados'
      <3>1. CASE n = m
        BY <1>4, <2>2, <3>1
      <3>2. CASE n # m
        BY <1>4, <2>2, <3>2 DEF EnOrdenLasManos, Medicion
      <3> QED BY <3>1, <3>2
    <2>3. ASSUME NEW x \in contactados'
          PROVE  \E n \in Ids : n[1] = x /\ fila'[n].entregas > 0
      <3>1. CASE x \in contactados
        BY <1>4, <3>1 DEF EnOrdenLasManos, Medicion
      <3>2. CASE x \notin contactados
        <4>1. e = "enviado" /\ x = m[1]
          BY <2>3, <3>2
        <4>2. fila[m].entregas > 0
          BY <1>1, <4>1 DEF EnOrdenLasManos, EnSuPaso, EnSuPasoDe
        <4> QED BY <1>1, <1>4, <4>1, <4>2
      <3> QED BY <3>1, <3>2
    <2> QED BY <2>1, <2>2, <2>3 DEF Medicion
  <1> QED BY <1>6, <1>7, <1>8 DEF EnOrdenLasManos

\* The steps in which drains let go of what they hold.
LEMMA SoltarManos ==
  ASSUME TypeOK, EnOrdenLasManos, NEW Ps \in SUBSET Proc,
         \A p \in Ps : hilo'[p] = Libre,
         \A p \in Proc \ Ps : hilo'[p] = hilo[p],
         UNCHANGED <<fila, contactados>>,
         dudosos' = dudosos \cup UNION {SinAnotar(p) : p \in Ps}
  PROVE  /\ EnOrdenLasManos'
         /\ \A p \in Ps : SinAnotar(p)' = {} /\ PorContar(p)' = {}
         /\ \A p \in Proc \ Ps :
              SinAnotar(p)' = SinAnotar(p) /\ PorContar(p)' = PorContar(p)
  <1>1. \A p \in Ps : /\ EnManos(p)' = {} /\ SinAnotar(p)' = {} /\ PorContar(p)' = {}
                      /\ EnSuPasoDe(p)'
    BY DEF EnManos, SinAnotar, PorContar, EnSuPasoDe, Libre
  <1>2. \A p \in Proc \ Ps : /\ EnManos(p)' = EnManos(p) /\ SinAnotar(p)' = SinAnotar(p)
                             /\ PorContar(p)' = PorContar(p)
    BY DEF EnManos, SinAnotar, PorContar
  <1>3. /\ dudosos \subseteq dudosos'
        /\ \A p \in Ps : SinAnotar(p) \subseteq dudosos'
    OBVIOUS
  <1>4. EnSuPaso'
    <2>1. \A p \in Proc \ Ps : EnSuPasoDe(p)'
      BY <1>2 DEF EnOrdenLasManos, EnSuPaso, EnSuPasoDe, Existe
    <2> QED BY <1>1, <2>1 DEF EnSuPaso
  <1>5. UnaSolaMano'
    <2>1. \A q \in Proc : EnManos(q)' \subseteq EnManos(q)
      BY <1>1, <1>2
    <2>2. \A q, r \in Proc : q = r \/ EnManos(q)' \cap EnManos(r)' \subseteq dudosos'
      BY <1>3, <2>1 DEF EnOrdenLasManos, UnaSolaMano
    <2>3. \A q \in Proc : \A n \in EnManos(q)' \ dudosos' :
            /\ fila'[n].estado = "encolado"
            /\ fila'[n].entregas = 1 => n \in SinAnotar(q)'
      BY <1>1, <1>2, <1>3 DEF EnOrdenLasManos, UnaSolaMano
    <2> QED BY <2>2, <2>3 DEF UnaSolaMano
  <1>6. Medicion'
    <2>1. \A n \in Ids \ dudosos' : n \notin dudosos
      BY <1>3
    <2>2. \A n \in Ids \ dudosos' : \A q \in Proc : n \in SinAnotar(q) => n \in SinAnotar(q)'
      BY <1>2, <1>3
    <2> QED BY <2>1, <2>2 DEF EnOrdenLasManos, Medicion
  <1> QED BY <1>1, <1>2, <1>4, <1>5, <1>6 DEF EnOrdenLasManos

-----------------------------------------------------------------------------
(* The drains: what they count *)

\* The steps that neither send nor record nor count.
LEMMA CuentasQuietas ==
  ASSUME TypeOK, TypeOK', BienContado,
         UNCHANGED <<enviadosHoy, salioPor, desfasados>>, dudosos \subseteq dudosos',
         \A m \in Ids : /\ fila[m].entregas > 0 => fila'[m].entregas > 0
                        /\ fila[m].estado = "enviado" => fila'[m].estado = "enviado",
         \A q \in Proc :
           /\ PorContar(q)' \subseteq PorContar(q)
           /\ PorContar(q) \subseteq PorContar(q)' \cup dudosos'
           /\ SinAnotar(q) \subseteq SinAnotar(q)' \cup dudosos'
           /\ hilo'[q].paso \in {"envia", "mano"} =>
                /\ hilo[q].paso \in {"envia", "mano"} /\ hilo'[q].cuenta = hilo[q].cuenta
                /\ q \in rezagados => q \in rezagados'
  PROVE  BienContado'
  <1>1. \A m \in enviadosHoy' : fila'[m].estado = "enviado"
    BY DEF BienContado, Cuentas, TypeOK
  <1>2. ASSUME NEW q \in Proc PROVE CuentaPropia(q)'
    <2>1. CuentaPropia(q) /\ salioPor[q] \subseteq Ids /\ hilo[q].cuenta \in Nat
      BY Tipos DEF BienContado, Cuentas
    <2>2. \A m \in salioPor'[q] : fila'[m].entregas > 0
      BY <2>1 DEF CuentaPropia
    <2>3. salioPor'[q] \ dudosos' \subseteq enviadosHoy' \cup PorContar(q)'
      BY <2>1 DEF CuentaPropia
    <2>4. ASSUME hilo'[q].paso \in {"envia", "mano"}
          PROVE  Cardinality(salioPor'[q] \ (dudosos' \cup SinAnotar(q)')) <= hilo'[q].cuenta
      <3>1. Cardinality(salioPor[q] \ (dudosos \cup SinAnotar(q))) <= hilo[q].cuenta
        BY <2>1, <2>4 DEF CuentaPropia
      <3>2. salioPor[q] \ (dudosos' \cup SinAnotar(q)')
              \in SUBSET (salioPor[q] \ (dudosos \cup SinAnotar(q)))
        OBVIOUS
      <3>3. salioPor[q] \ (dudosos \cup SinAnotar(q)) \in SUBSET Ids
        BY <2>1
      <3>4. Cardinality(salioPor[q] \ (dudosos' \cup SinAnotar(q)')) <= hilo[q].cuenta
        BY <2>1, <3>1, <3>2, <3>3, Menos
      <3> QED BY <2>4, <3>4
    <2> QED BY <2>2, <2>3, <2>4 DEF CuentaPropia
  <1>3. ASSUME NEW q \in Proc PROVE CuentaAlDia(q)'
    <2>1. SUFFICES ASSUME hilo'[q].paso \in {"envia", "mano"}, q \notin rezagados'
                   PROVE  /\ Cardinality(enviadosHoy') <= hilo'[q].cuenta
                          /\ \A r \in Proc : r # q => PorContar(r)' = {}
      BY DEF CuentaAlDia
    <2>2. hilo[q].paso \in {"envia", "mano"} /\ q \notin rezagados
          /\ hilo'[q].cuenta = hilo[q].cuenta
      BY <2>1
    <2>3. /\ Cardinality(enviadosHoy) <= hilo[q].cuenta
          /\ \A r \in Proc : r # q => PorContar(r) = {}
      BY <2>2 DEF BienContado, Cuentas, CuentaAlDia
    <2> QED BY <2>2, <2>3
  <1>4. TopeDeLosContados'
    <2>1. Contados' \subseteq Contados /\ Contados \subseteq Ids
      BY Tipos DEF Contados, TypeOK
    <2>2. Contados' \ desfasados' \in SUBSET (Contados \ desfasados)
      BY <2>1
    <2> QED BY <2>1, <2>2, Menos, EnviosAssumption
            DEF BienContado, TopeDeLosContados, EnviosAssumption
  <1>5. TopeConCausa'
    <2>1. Cardinality(enviadosHoy' \ desfasados') <= Tope
      BY DEF BienContado, TopeConCausa
    <2>2. ASSUME NEW q \in Proc PROVE Cardinality(salioPor'[q] \ dudosos') <= Tope
      <3>1. salioPor[q] \ dudosos \in SUBSET Ids
        BY Tipos
      <3>2. salioPor'[q] \ dudosos' \in SUBSET (salioPor[q] \ dudosos)
        OBVIOUS
      <3>3. Cardinality(salioPor[q] \ dudosos) <= Tope
        BY DEF BienContado, TopeConCausa
      <3> QED BY <3>1, <3>2, <3>3, Menos, EnviosAssumption DEF EnviosAssumption
    <2> QED BY <2>1, <2>2 DEF TopeConCausa
  <1> QED BY <1>1, <1>2, <1>3, <1>4, <1>5 DEF BienContado, Cuentas

\* The count of a batch has what its drain sent today.
LEMMA ContarCuenta ==
  ASSUME TypeOK, TypeOK', Drenado, NEW p \in Proc, Contar(p)
  PROVE  Drenado'
  <1>1. /\ hilo[p].paso = "lista" /\ hilo[p].mano = {} /\ ~hilo[p].acepto
        /\ SinAnotar(p) = {} /\ PorContar(p) = {}
    BY DEF Drenado, EnOrdenLasManos, EnSuPaso, EnSuPasoDe, SinAnotar, PorContar, Contar
  <1>2. /\ hilo'[p].paso = "envia" /\ hilo'[p].lote = hilo[p].lote
        /\ hilo'[p].mano = hilo[p].mano /\ hilo'[p].acepto = hilo[p].acepto
        /\ hilo'[p].cuenta = Cardinality(enviadosHoy)
    <2>1. hilo'[p] = [hilo[p] EXCEPT !.paso = "envia", !.cuenta = Cardinality(enviadosHoy)]
      BY LosOtros DEF Contar
    <2>2. hilo[p] \in Hilo
      BY Tipos
    <2> QED BY <2>1, <2>2 DEF Hilo
  <1>3. \A q \in Proc : q # p =>
          /\ hilo'[q] = hilo[q] /\ EnManos(q)' = EnManos(q)
          /\ SinAnotar(q)' = SinAnotar(q) /\ PorContar(q)' = PorContar(q)
    BY LosOtros DEF Contar
  <1>4. UNCHANGED <<fila, enviadosHoy, contactados, salioPor, dudosos, desfasados>>
    BY DEF Contar, UnchangedTablas
  <1>5. SinAnotar(p)' = {} /\ PorContar(p)' = {}
    BY <1>1, <1>2 DEF SinAnotar, PorContar
  <1>6. \A q \in Proc : SinAnotar(q)' = SinAnotar(q) /\ PorContar(q)' = PorContar(q)
    BY <1>1, <1>3, <1>5
  <1>7. EnOrdenLasManos'
    BY <1>1, <1>2, <1>3, <1>4, ManosIguales DEF Drenado
  <1>8. ASSUME NEW q \in Proc PROVE CuentaPropia(q)'
    <2>1. CuentaPropia(q)
      BY DEF Drenado, BienContado, Cuentas
    <2>2. CASE q # p
      BY <1>3, <1>4, <2>1, <2>2 DEF CuentaPropia
    <2>3. CASE q = p
      <3>1. salioPor[p] \ dudosos \in SUBSET enviadosHoy
        BY <1>1, <2>1, <2>3 DEF CuentaPropia
      <3>2. Cardinality(salioPor[p] \ dudosos) <= Cardinality(enviadosHoy)
        BY <3>1, Menos DEF TypeOK
      <3>3. salioPor'[p] \ (dudosos' \cup SinAnotar(p)') = salioPor[p] \ dudosos
        BY <1>4, <1>5
      <3>4. Cardinality(salioPor'[p] \ (dudosos' \cup SinAnotar(p)')) <= hilo'[p].cuenta
        BY <1>2, <3>2, <3>3
      <3>5. /\ \A m \in salioPor'[p] : fila'[m].entregas > 0
            /\ salioPor'[p] \ dudosos' \subseteq enviadosHoy' \cup PorContar(p)'
        BY <1>4, <2>1, <2>3, <3>1 DEF CuentaPropia
      <3> QED BY <2>3, <3>4, <3>5 DEF CuentaPropia
    <2> QED BY <2>2, <2>3
  <1>9. ASSUME NEW q \in Proc PROVE CuentaAlDia(q)'
    <2>1. CASE q # p
      <3>1. q \in rezagados' <=> q \in rezagados
        BY <2>1 DEF Contar, Cuenta
      <3> QED BY <1>3, <1>4, <1>6, <2>1, <3>1 DEF Drenado, BienContado, Cuentas, CuentaAlDia
    <2>2. CASE q = p
      <3>1. p \notin rezagados' => \A r \in Proc : r # p => PorContar(r) = {}
        BY DEF Contar, Cuenta
      <3>2. Cardinality(enviadosHoy') <= hilo'[p].cuenta
        <4>1. Cardinality(enviadosHoy) \in Nat
          BY Finitos DEF TypeOK
        <4> QED BY <1>2, <1>4, <4>1
      <3> QED BY <1>6, <2>2, <3>1, <3>2 DEF CuentaAlDia
    <2> QED BY <2>1, <2>2
  <1>10. Contados' = Contados
    BY <1>4, <1>6 DEF Contados
  <1>11. BienContado'
    BY <1>4, <1>8, <1>9, <1>10
       DEF Drenado, BienContado, Cuentas, TopeDeLosContados, TopeConCausa
  <1> QED BY <1>7, <1>11 DEF Drenado

\* A send puts the others behind, and the drain that is not behind knows of every
\* other.
LEMMA SaleCuenta ==
  ASSUME TypeOK, TypeOK', BienContado, NEW p \in Proc, NEW m \in Ids, Sale(p, m),
         hilo[p].paso = "envia", hilo[p].cuenta < Tope,
         hilo'[p].paso = "mano", hilo'[p].cuenta = hilo[p].cuenta,
         SinAnotar(p) = {}, PorContar(p) = {},
         SinAnotar(p)' = {m}, PorContar(p)' = {m},
         \A q \in Proc : q # p =>
           /\ hilo'[q] = hilo[q]
           /\ SinAnotar(q)' = SinAnotar(q) /\ PorContar(q)' = PorContar(q),
         UNCHANGED <<enviadosHoy, dudosos>>
  PROVE  BienContado'
  <1>1. /\ fila'[m].entregas > 0
        /\ \A n \in Ids : /\ fila'[n].estado = fila[n].estado
                          /\ fila[n].entregas > 0 => fila'[n].entregas > 0
    BY FilaQueSale DEF Sale
  <1>2. /\ salioPor'[p] = salioPor[p] \cup {m}
        /\ \A q \in Proc : q # p => salioPor'[q] = salioPor[q]
    BY DEF Sale, TypeOK
  <1>3. \A n \in enviadosHoy' : fila'[n].estado = "enviado"
    BY <1>1 DEF BienContado, Cuentas, TypeOK
  <1>4. /\ Cardinality(salioPor[p] \ dudosos) <= hilo[p].cuenta
        /\ salioPor[p] \ dudosos \in SUBSET Ids
        /\ hilo[p].cuenta \in Nat /\ Tope \in Nat
    <2>1. salioPor[p] \ (dudosos \cup SinAnotar(p)) = salioPor[p] \ dudosos
      OBVIOUS
    <2>2. Cardinality(salioPor[p] \ (dudosos \cup SinAnotar(p))) <= hilo[p].cuenta
      BY DEF BienContado, Cuentas, CuentaPropia
    <2>3. salioPor[p] \subseteq Ids /\ hilo[p].cuenta \in Nat
      BY Tipos
    <2> QED BY <2>1, <2>2, <2>3, EnviosAssumption DEF EnviosAssumption
  <1>5. ASSUME NEW q \in Proc PROVE CuentaPropia(q)'
    <2>1. CuentaPropia(q) /\ salioPor[q] \subseteq Ids
      BY Tipos DEF BienContado, Cuentas
    <2>2. CASE q # p
      BY <1>1, <1>2, <2>1, <2>2 DEF CuentaPropia
    <2>3. CASE q = p
      <3>1. \A n \in salioPor'[p] : fila'[n].entregas > 0
        BY <1>1, <1>2, <2>1, <2>3 DEF CuentaPropia
      <3>2. salioPor'[p] \ dudosos' \subseteq enviadosHoy' \cup PorContar(p)'
        BY <1>2, <2>1, <2>3 DEF CuentaPropia
      <3>3. salioPor'[p] \ (dudosos' \cup SinAnotar(p)') \in SUBSET (salioPor[p] \ dudosos)
        BY <1>2
      <3>4. Cardinality(salioPor'[p] \ (dudosos' \cup SinAnotar(p)')) <= hilo[p].cuenta
        BY <1>4, <3>3, Menos
      <3> QED BY <2>3, <3>1, <3>2, <3>4 DEF CuentaPropia
    <2> QED BY <2>2, <2>3
  <1>6. \A q \in Proc : q # p /\ hilo[q].paso \in {"envia", "mano"} => q \in rezagados'
    BY DEF Sale
  <1>7. p \in rezagados' <=> p \in rezagados
    BY DEF Sale
  <1>8. p \notin rezagados =>
          /\ Cardinality(enviadosHoy) <= hilo[p].cuenta
          /\ \A q \in Proc : q # p => PorContar(q) = {}
    BY DEF BienContado, Cuentas, CuentaAlDia
  <1>9. ASSUME NEW q \in Proc PROVE CuentaAlDia(q)'
    <2>1. CASE q # p
      BY <1>6, <2>1 DEF CuentaAlDia
    <2>2. CASE q = p
      BY <1>7, <1>8, <2>2 DEF CuentaAlDia
    <2> QED BY <2>1, <2>2
  <1>10. Contados' = Contados \cup {m} /\ Contados \subseteq Ids
    <2>1. \A q \in Proc : PorContar(q)' = IF q = p THEN {m} ELSE PorContar(q)
      OBVIOUS
    <2>2. Contados \subseteq Ids
      BY Tipos DEF Contados, TypeOK
    <2> QED BY <2>1, <2>2 DEF Contados
  <1>11. TopeDeLosContados'
    <2>1. CASE p \in rezagados
      <3>1. Contados' \ desfasados' \in SUBSET (Contados \ desfasados)
        BY <1>10, <2>1 DEF Sale
      <3>2. Contados \ desfasados \in SUBSET Ids
        BY <1>10
      <3> QED BY <1>4, <3>1, <3>2, Menos DEF BienContado, TopeDeLosContados
    <2>2. CASE p \notin rezagados
      <3>1. Contados = enviadosHoy
        BY <1>8, <2>2 DEF Contados
      <3>2. Contados' \ desfasados' \in SUBSET (enviadosHoy \cup {m})
        BY <1>10, <3>1
      <3>3. Cardinality(Contados' \ desfasados') <= hilo[p].cuenta + 1
        BY <1>4, <1>8, <2>2, <3>2, UnoMas DEF TypeOK
      <3>4. Cardinality(Contados' \ desfasados') \in Nat
        BY <1>10, Finitos
      <3> QED BY <1>4, <3>3, <3>4 DEF TopeDeLosContados
    <2> QED BY <2>1, <2>2
  <1>12. TopeConCausa'
    <2>1. Cardinality(enviadosHoy' \ desfasados') <= Tope
      <3>1. enviadosHoy' \ desfasados' \in SUBSET (Contados' \ desfasados')
        BY DEF Contados
      <3>2. Contados' \ desfasados' \in SUBSET Ids
        BY <1>10
      <3> QED BY <1>4, <1>11, <3>1, <3>2, Menos DEF TopeDeLosContados
    <2>2. ASSUME NEW q \in Proc PROVE Cardinality(salioPor'[q] \ dudosos') <= Tope
      <3>1. CASE q # p
        BY <1>2, <3>1 DEF BienContado, TopeConCausa
      <3>2. CASE q = p
        <4>1. salioPor'[p] \ dudosos' \in SUBSET ((salioPor[p] \ dudosos) \cup {m})
          BY <1>2
        <4>2. Cardinality(salioPor'[p] \ dudosos') <= hilo[p].cuenta + 1
          BY <1>4, <4>1, UnoMas
        <4>3. Cardinality(salioPor'[p] \ dudosos') \in Nat
          BY <1>4, <4>1, Finitos
        <4> QED BY <1>4, <3>2, <4>2, <4>3
      <3> QED BY <3>1, <3>2
    <2> QED BY <2>1, <2>2 DEF TopeConCausa
  <1> QED BY <1>3, <1>5, <1>9, <1>11, <1>12 DEF BienContado, Cuentas

\* k: the row is recorded as sent today.
LEMMA AnotarCuenta ==
  ASSUME TypeOK, TypeOK', Drenado, NEW p \in Proc,
         hilo[p].paso = "mano", NEW m \in hilo[p].mano,
         NEW e \in {"enviado", "fallido"}, hilo[p].acepto = (e = "enviado"),
         fila' = [fila EXCEPT ![m].estado = e],
         NEW k \in BOOLEAN, k <=> e = "enviado" /\ hilo[p].hoy,
         enviadosHoy' = IF k THEN enviadosHoy \cup {m} ELSE enviadosHoy \ {m},
         NEW c \in Nat, c = IF e = "enviado" THEN hilo[p].cuenta + 1 ELSE hilo[p].cuenta,
         Sigue(p, c), UNCHANGED <<salioPor, dudosos, rezagados, desfasados>>
  PROVE  BienContado'
  <1>1. /\ m \in Ids /\ m \in EnManos(p)
        /\ SinAnotar(p) = IF e = "enviado" THEN {m} ELSE {}
        /\ PorContar(p) = IF k THEN {m} ELSE {}
        /\ m \notin dudosos =>
             fila[m].estado = "encolado" /\ \A q \in Proc : q # p => m \notin EnManos(q)
    BY EnLaMano DEF Drenado, PorContar
  <1>2. /\ hilo'[p].paso = "envia" /\ hilo'[p].cuenta = c
        /\ SinAnotar(p)' = {} /\ PorContar(p)' = {}
        /\ \A q \in Proc : q # p =>
             /\ hilo'[q] = hilo[q]
             /\ SinAnotar(q)' = SinAnotar(q) /\ PorContar(q)' = PorContar(q)
    BY TrasSigue
  <1>3. /\ \A n \in Ids : n # m => fila'[n] = fila[n]
        /\ fila'[m].estado = e
        /\ \A n \in Ids : fila'[n].entregas = fila[n].entregas
    BY <1>1, FilaAnotada
  <1>4. \A n \in enviadosHoy : n \in Ids /\ fila[n].estado = "enviado"
    BY DEF Drenado, BienContado, Cuentas, TypeOK
  <1>5. \A n \in enviadosHoy' : fila'[n].estado = "enviado"
    BY <1>3, <1>4
  <1>6. hilo[p].cuenta \in Nat /\ Cardinality(enviadosHoy) \in Nat
    BY Tipos, Finitos DEF TypeOK
  <1>7. ASSUME NEW q \in Proc PROVE CuentaPropia(q)'
    <2>1. CuentaPropia(q) /\ salioPor[q] \subseteq Ids
      BY Tipos DEF Drenado, BienContado, Cuentas
    <2>2. \A n \in salioPor'[q] : fila'[n].entregas > 0
      BY <1>3, <2>1 DEF CuentaPropia
    <2>3. ASSUME NEW n \in salioPor[q] \ dudosos
          PROVE  n \in enviadosHoy' \cup PorContar(q)'
      <3>1. n \in enviadosHoy \/ n \in PorContar(q)
        BY <2>1 DEF CuentaPropia
      <3>2. CASE n # m
        BY <1>1, <1>2, <3>1, <3>2
      <3>3. CASE n = m
        <4>1. m \notin enviadosHoy
          BY <1>1, <1>4, <2>3, <3>3
        <4>2. m \in PorContar(q) /\ m \in EnManos(q)
          BY <3>1, <3>3, <4>1, Tipos
        <4>3. q = p
          BY <1>1, <2>3, <3>3, <4>2
        <4> QED BY <1>1, <3>3, <4>2, <4>3
      <3> QED BY <3>2, <3>3
    <2>4. ASSUME hilo'[q].paso \in {"envia", "mano"}
          PROVE  Cardinality(salioPor'[q] \ (dudosos' \cup SinAnotar(q)')) <= hilo'[q].cuenta
      <3>1. CASE q # p
        BY <1>2, <2>1, <2>4, <3>1 DEF CuentaPropia
      <3>2. CASE q = p
        <4>1. Cardinality(salioPor[p] \ (dudosos \cup SinAnotar(p))) <= hilo[p].cuenta
          BY <2>1, <3>2 DEF CuentaPropia
        <4>2. salioPor'[p] \ (dudosos' \cup SinAnotar(p)') = salioPor[p] \ dudosos
          BY <1>2
        <4>3. CASE e = "enviado"
          <5>1. salioPor[p] \ dudosos
                  \in SUBSET ((salioPor[p] \ (dudosos \cup SinAnotar(p))) \cup {m})
            BY <1>1, <4>3
          <5>2. salioPor[p] \ (dudosos \cup SinAnotar(p)) \in SUBSET Ids
            BY <2>1, <3>2
          <5>3. Cardinality(salioPor[p] \ dudosos) <= hilo[p].cuenta + 1
            BY <1>1, <1>6, <4>1, <5>1, <5>2, UnoMas
          <5> QED BY <1>2, <3>2, <4>2, <4>3, <5>3
        <4>4. CASE e # "enviado"
          <5>1. salioPor[p] \ (dudosos \cup SinAnotar(p)) = salioPor[p] \ dudosos
            BY <1>1, <4>4
          <5> QED BY <1>2, <3>2, <4>1, <4>2, <4>4, <5>1
        <4> QED BY <4>3, <4>4
      <3> QED BY <3>1, <3>2
    <2> QED BY <2>2, <2>3, <2>4 DEF CuentaPropia
  <1>8. ~k => Cardinality(enviadosHoy') <= Cardinality(enviadosHoy)
    <2>1. enviadosHoy \in SUBSET Ids /\ enviadosHoy \ {m} \in SUBSET enviadosHoy
      BY DEF TypeOK
    <2> QED BY <2>1, Menos
  <1>9. Cardinality(enviadosHoy') \in Nat
    BY Finitos DEF TypeOK
  <1>10. ASSUME NEW q \in Proc PROVE CuentaAlDia(q)'
    <2>1. SUFFICES ASSUME hilo'[q].paso \in {"envia", "mano"}, q \notin rezagados
                   PROVE  /\ Cardinality(enviadosHoy') <= hilo'[q].cuenta
                          /\ \A r \in Proc : r # q => PorContar(r)' = {}
      BY DEF CuentaAlDia
    <2>2. CuentaAlDia(q)
      BY DEF Drenado, BienContado, Cuentas
    <2>3. CASE q = p
      <3>1. /\ Cardinality(enviadosHoy) <= hilo[p].cuenta
            /\ \A r \in Proc : r # p => PorContar(r) = {}
        BY <2>1, <2>2, <2>3 DEF CuentaAlDia
      <3>2. CASE k
        <4>1. enviadosHoy \in SUBSET Ids /\ enviadosHoy' \in SUBSET (enviadosHoy \cup {m})
          BY <3>2 DEF TypeOK
        <4>2. Cardinality(enviadosHoy') <= hilo[p].cuenta + 1
          BY <1>1, <1>6, <3>1, <4>1, UnoMas
        <4> QED BY <1>2, <2>3, <3>1, <3>2, <4>2
      <3>3. CASE ~k
        <4>1. hilo[p].cuenta <= c
          BY <1>6
        <4> QED BY <1>2, <1>6, <1>8, <1>9, <2>3, <3>1, <3>3, <4>1
      <3> QED BY <3>2, <3>3
    <2>4. CASE q # p
      <3>1. /\ Cardinality(enviadosHoy) <= hilo[q].cuenta
            /\ \A r \in Proc : r # q => PorContar(r) = {}
        BY <1>2, <2>1, <2>2, <2>4 DEF CuentaAlDia
      <3>2. ~k
        BY <1>1, <2>4, <3>1
      <3>3. hilo[q].cuenta \in Nat /\ hilo'[q].cuenta = hilo[q].cuenta
        BY <1>2, <2>4, Tipos
      <3> QED BY <1>2, <1>6, <1>8, <1>9, <3>1, <3>2, <3>3
    <2> QED BY <2>3, <2>4
  <1>11. Contados' \subseteq Contados /\ Contados \subseteq Ids
    <2>1. \A q \in Proc : PorContar(q)' \subseteq PorContar(q)
      BY <1>2
    <2>2. k => m \in PorContar(p)
      BY <1>1
    <2>3. Contados \subseteq Ids
      BY Tipos DEF Contados, TypeOK
    <2> QED BY <2>1, <2>2, <2>3 DEF Contados
  <1>12. TopeDeLosContados'
    <2>1. Contados' \ desfasados' \in SUBSET (Contados \ desfasados)
          /\ Contados \ desfasados \in SUBSET Ids
      BY <1>11
    <2> QED BY <2>1, Menos, EnviosAssumption
            DEF Drenado, BienContado, TopeDeLosContados, EnviosAssumption
  <1>13. TopeConCausa'
    <2>1. Cardinality(enviadosHoy' \ desfasados') <= Tope
      <3>1. enviadosHoy' \ desfasados' \in SUBSET (Contados' \ desfasados')
            /\ Contados' \ desfasados' \in SUBSET Ids
        BY <1>11 DEF Contados
      <3> QED BY <1>12, <3>1, Menos, EnviosAssumption DEF TopeDeLosContados, EnviosAssumption
    <2> QED BY <2>1 DEF Drenado, BienContado, TopeConCausa
  <1> QED BY <1>5, <1>7, <1>10, <1>12, <1>13 DEF BienContado, Cuentas

\* A new day has nothing to count.
LEMMA NuevoDiaDrena ==
  ASSUME TypeOK, Drenado, NuevoDia
  PROVE  Drenado'
  <1>1. /\ UNCHANGED <<fila, contactados, dudosos>> /\ enviadosHoy' = {}
        /\ \A p \in Proc : salioPor'[p] = {}
    BY DEF NuevoDia
  <1>2. \A p \in Proc :
          /\ hilo'[p].paso = hilo[p].paso /\ hilo'[p].lote = hilo[p].lote
          /\ hilo'[p].mano = hilo[p].mano /\ hilo'[p].acepto = hilo[p].acepto
          /\ hilo'[p].cuenta = hilo[p].cuenta /\ hilo'[p].hoy = FALSE
    <2> SUFFICES ASSUME NEW p \in Proc
                 PROVE  /\ hilo'[p].paso = hilo[p].paso /\ hilo'[p].lote = hilo[p].lote
                        /\ hilo'[p].mano = hilo[p].mano /\ hilo'[p].acepto = hilo[p].acepto
                        /\ hilo'[p].cuenta = hilo[p].cuenta /\ hilo'[p].hoy = FALSE
      OBVIOUS
    <2>1. hilo[p] \in Hilo /\ hilo'[p] = [hilo[p] EXCEPT !.hoy = FALSE]
      BY Tipos DEF NuevoDia
    <2> QED BY <2>1 DEF Hilo
  <1>3. EnOrdenLasManos'
    BY <1>1, <1>2, ManosIguales DEF Drenado
  <1>4. \A p \in Proc : PorContar(p)' = {}
    BY <1>2 DEF PorContar
  <1>5. \A p \in Proc : 0 <= hilo'[p].cuenta
    BY <1>2, Tipos
  <1>6. Cardinality({}) = 0 /\ 0 <= Tope
    BY FS_EmptySet, EnviosAssumption DEF EnviosAssumption
  <1>7. \A S : {} \ S = {}
    OBVIOUS
  <1>8. \A p \in Proc : CuentaPropia(p)' /\ CuentaAlDia(p)'
    BY <1>1, <1>4, <1>5, <1>6, <1>7 DEF CuentaPropia, CuentaAlDia
  <1>9. Contados' = {}
    BY <1>1, <1>4 DEF Contados
  <1>10. TopeDeLosContados' /\ TopeConCausa'
    BY <1>1, <1>6, <1>7, <1>9 DEF TopeDeLosContados, TopeConCausa
  <1> QED BY <1>1, <1>3, <1>8, <1>10 DEF Drenado, BienContado, Cuentas

-----------------------------------------------------------------------------
(* The inductive invariant *)

LEMMA AlEmpezarDreno == Init => IInv
  <1> SUFFICES ASSUME Init PROVE IInv
    OBVIOUS
  <1>1. /\ \A m \in Ids : fila[m] = SinFila
        /\ \A r \in Corridas : corrida[r] = Terminada
        /\ \A p \in Proc : hilo[p] = Libre
    BY DEF Init
  <1>2. TypeOK
    <2>1. 0 \in 0..MaxFallas
      BY EnviosAssumption DEF EnviosAssumption
    <2> QED BY <2>1, Registros DEF Init, TypeOK
  <1>3. Cola
    BY <1>1 DEF Cola, SinMensaje, Guardia, AperturaUnica, SinFila, Terminada
  <1>4. \A p \in Proc : /\ EnManos(p) = {} /\ SinAnotar(p) = {} /\ PorContar(p) = {}
                         /\ EnSuPasoDe(p) /\ hilo[p].paso \notin {"envia", "mano"}
    BY <1>1 DEF EnManos, SinAnotar, PorContar, EnSuPasoDe, Libre
  <1>5. /\ enviadosHoy = {} /\ contactados = {} /\ \A p \in Proc : salioPor[p] = {}
        /\ \A S : {} \ S = {}
    BY DEF Init
  <1>6. EnSuPaso /\ UnaSolaMano
    BY <1>4 DEF EnSuPaso, UnaSolaMano
  <1>7. Medicion
    BY <1>1, <1>5 DEF Medicion, SinFila
  <1>8. Cuentas
    BY <1>4, <1>5 DEF Cuentas, CuentaPropia, CuentaAlDia
  <1>9. TopeDeLosContados /\ TopeConCausa
    <2>1. Cardinality({}) = 0 /\ 0 <= Tope
      BY FS_EmptySet, EnviosAssumption DEF EnviosAssumption
    <2>2. Contados = {}
      BY <1>4, <1>5 DEF Contados
    <2> QED BY <1>5, <2>1, <2>2 DEF TopeDeLosContados, TopeConCausa
  <1> QED BY <1>2, <1>3, <1>6, <1>7, <1>8, <1>9, DosPartes
          DEF Drenado, EnOrdenLasManos, BienContado

LEMMA DrenaSinTocarLaCola ==
  ASSUME TypeOK, Drenado, NEW p \in Proc,
         \/ Enviar(p) \/ RegistrarEnviado(p) \/ RegistrarFallido(p)
  PROVE  /\ UNCHANGED <<encolando, corrida>>
         /\ \A m \in Ids : /\ fila'[m].apertura = fila[m].apertura
                           /\ \/ fila'[m] = fila[m]
                              \/ Existe(m) /\ fila'[m].estado # "ninguno"
  <1>1. EnSuPasoDe(p) /\ EnManos(p) \subseteq Ids
    BY Tipos DEF Drenado, EnOrdenLasManos, EnSuPaso
  <1>2. \A m \in hilo[p].lote \cup hilo[p].mano : m \in Ids /\ Existe(m)
    BY <1>1 DEF EnSuPasoDe, EnManos
  <1>3. CASE Enviar(p)
    <2>1. PICK m \in hilo[p].lote : fila' = fila \/ Sale(p, m)
      BY <1>3 DEF Enviar
    <2>2. m \in Ids /\ Existe(m) /\ UNCHANGED <<encolando, corrida>>
      BY <1>2, <1>3 DEF Enviar
    <2>3. CASE Sale(p, m)
      <3>1. fila' = [fila EXCEPT ![m].entregas = Otra(@)]
        BY <2>3 DEF Sale
      <3>2. /\ \A n \in Ids : n # m => fila'[n] = fila[n]
            /\ \A n \in Ids : /\ fila'[n].estado = fila[n].estado
                              /\ fila'[n].apertura = fila[n].apertura
        BY <2>2, <3>1, FilaQueSale
      <3> QED BY <2>2, <3>2 DEF Existe
    <2> QED BY <2>1, <2>2, <2>3
  <1>4. CASE RegistrarEnviado(p)
    <2>1. PICK m \in hilo[p].mano : fila' = [fila EXCEPT ![m].estado = "enviado"]
      BY <1>4 DEF RegistrarEnviado
    <2> QED BY <1>2, <1>4, <2>1, FilaAnotada DEF RegistrarEnviado
  <1>5. CASE RegistrarFallido(p)
    <2>1. PICK m \in hilo[p].mano : fila' = [fila EXCEPT ![m].estado = "fallido"]
      BY <1>5 DEF RegistrarFallido
    <2> QED BY <1>2, <1>5, <2>1, FilaAnotada DEF RegistrarFallido
  <1> QED BY <1>3, <1>4, <1>5

LEMMA DrenadoIgual ==
  ASSUME TypeOK, TypeOK', Drenado,
         UNCHANGED <<fila, enviadosHoy, contactados, hilo, auxiliares>>
  PROVE  Drenado'
  <1>1. EnOrdenLasManos'
    BY ManosIguales DEF Drenado, auxiliares
  <1>2. BienContado'
    BY CuentasQuietas DEF Drenado, SinAnotar, PorContar, auxiliares
  <1> QED BY <1>1, <1>2 DEF Drenado

LEMMA DrenadoConNuevas ==
  ASSUME TypeOK, TypeOK', SinMensaje, Drenado,
         UNCHANGED <<enviadosHoy, contactados, hilo, auxiliares>>,
         \A m \in Ids : \/ fila'[m] = fila[m]
                        \/ /\ ~Existe(m)
                           /\ fila'[m].estado = "encolado" /\ fila'[m].entregas = 0
  PROVE  Drenado'
  <1>1. EnOrdenLasManos'
    BY ManosConNuevas DEF Drenado, auxiliares
  <1>2. \A m \in Ids : /\ fila[m].entregas > 0 => fila'[m].entregas > 0
                       /\ fila[m].estado = "enviado" => fila'[m].estado = "enviado"
    BY DEF SinMensaje, SinFila, Existe
  <1>3. BienContado'
    BY <1>2, CuentasQuietas DEF Drenado, SinAnotar, PorContar, auxiliares
  <1> QED BY <1>1, <1>3 DEF Drenado

LEMMA ListarDrena ==
  ASSUME TypeOK, TypeOK', Drenado, NEW p \in Proc, ListarPendientes(p)
  PROVE  Drenado'
  <1>1. PICK S \in SUBSET Pendientes :
          /\ Pasa(p, [Libre EXCEPT !.paso = "lista", !.lote = S])
          /\ dudosos' = dudosos \cup (S \cap UNION {EnManos(q) : q \in Proc})
    BY DEF ListarPendientes
  <1>2. UNCHANGED <<fila, enviadosHoy, contactados, salioPor, rezagados, desfasados>>
    BY DEF ListarPendientes, UnchangedTablas
  <1>3. /\ EnOrdenLasManos' /\ hilo'[p].paso = "lista"
        /\ \A q \in Proc : SinAnotar(q)' = SinAnotar(q) /\ PorContar(q)' = PorContar(q)
    BY <1>1, <1>2, ListarManos DEF Drenado, ListarPendientes
  <1>4. \A q \in Proc : q # p => hilo'[q] = hilo[q]
    BY <1>1, LosOtros
  <1>5. BienContado'
    BY <1>1, <1>2, <1>3, <1>4, CuentasQuietas DEF Drenado
  <1> QED BY <1>3, <1>5 DEF Drenado

LEMMA EnviarDrena ==
  ASSUME TypeOK, TypeOK', Drenado, NEW p \in Proc, Enviar(p)
  PROVE  Drenado'
  <1>1. PICK m \in hilo[p].lote, acepta \in BOOLEAN :
          /\ Pasa(p, [hilo[p] EXCEPT !.paso = "mano", !.lote = @ \ {m}, !.mano = {m},
                                     !.acepto = acepta, !.hoy = acepta])
          /\ IF acepta THEN Sale(p, m)
                       ELSE UNCHANGED <<fila, salioPor, rezagados, desfasados>>
    BY DEF Enviar
  <1>2. /\ hilo[p].paso = "envia" /\ hilo[p].cuenta < Tope
        /\ UNCHANGED <<enviadosHoy, contactados, dudosos>>
    BY DEF Enviar
  <1>3. IF acepta THEN fila' = [fila EXCEPT ![m].entregas = Otra(@)] ELSE UNCHANGED fila
    BY <1>1 DEF Sale
  <1>4. /\ EnOrdenLasManos' /\ m \in Ids
        /\ hilo'[p].paso = "mano" /\ hilo'[p].cuenta = hilo[p].cuenta
        /\ SinAnotar(p) = {} /\ PorContar(p) = {}
        /\ SinAnotar(p)' = IF acepta THEN {m} ELSE {}
        /\ PorContar(p)' = IF acepta THEN {m} ELSE {}
    BY <1>1, <1>2, <1>3, EnviarManos DEF Drenado
  <1>5. \A q \in Proc : q # p =>
          /\ hilo'[q] = hilo[q]
          /\ SinAnotar(q)' = SinAnotar(q) /\ PorContar(q)' = PorContar(q)
    BY <1>1, LosOtros
  <1>6. CASE acepta
    <2>1. BienContado'
      BY <1>1, <1>2, <1>4, <1>5, <1>6, SaleCuenta DEF Drenado
    <2> QED BY <1>4, <2>1 DEF Drenado
  <1>7. CASE ~acepta
    <2>1. \A q \in Proc : SinAnotar(q)' = SinAnotar(q) /\ PorContar(q)' = PorContar(q)
      BY <1>4, <1>5, <1>7
    <2>2. UNCHANGED <<fila, salioPor, rezagados, desfasados>>
      BY <1>1, <1>7
    <2>3. BienContado'
      BY <1>2, <1>4, <1>5, <2>1, <2>2, CuentasQuietas DEF Drenado
    <2> QED BY <1>4, <2>3 DEF Drenado
  <1> QED BY <1>6, <1>7

LEMMA EnviadoDrena ==
  ASSUME TypeOK, TypeOK', Drenado, NEW p \in Proc, RegistrarEnviado(p)
  PROVE  Drenado'
  <1>1. PICK m \in hilo[p].mano :
          /\ fila' = [fila EXCEPT ![m].estado = "enviado"]
          /\ enviadosHoy' = IF hilo[p].hoy THEN enviadosHoy \cup {m} ELSE enviadosHoy \ {m}
          /\ contactados' = contactados \cup {m[1]}
    BY DEF RegistrarEnviado
  <1>2. /\ hilo[p].acepto \in BOOLEAN /\ hilo[p].hoy \in BOOLEAN
        /\ hilo[p].cuenta + 1 \in Nat
    BY Tipos
  <1>3. /\ hilo[p].paso = "mano" /\ hilo[p].acepto = ("enviado" = "enviado")
        /\ Sigue(p, hilo[p].cuenta + 1)
        /\ UNCHANGED <<salioPor, dudosos, rezagados, desfasados>>
    BY <1>2 DEF RegistrarEnviado, UnchangedAuxiliares, auxiliares
  <1>4. EnOrdenLasManos'
    BY <1>1, <1>2, <1>3, AnotarManos DEF Drenado
  <1>5. BienContado'
    BY <1>1, <1>2, <1>3, AnotarCuenta
  <1> QED BY <1>4, <1>5 DEF Drenado

LEMMA FallidoDrena ==
  ASSUME TypeOK, TypeOK', Drenado, NEW p \in Proc, RegistrarFallido(p)
  PROVE  Drenado'
  <1>1. PICK m \in hilo[p].mano : /\ fila' = [fila EXCEPT ![m].estado = "fallido"]
                                  /\ enviadosHoy' = enviadosHoy \ {m}
    BY DEF RegistrarFallido
  <1>2. hilo[p].acepto \in BOOLEAN /\ hilo[p].cuenta \in Nat /\ "fallido" # "enviado"
    BY Tipos
  <1>3. /\ hilo[p].paso = "mano" /\ hilo[p].acepto = ("fallido" = "enviado")
        /\ Sigue(p, hilo[p].cuenta) /\ contactados' = contactados
        /\ UNCHANGED <<salioPor, dudosos, rezagados, desfasados>>
    BY <1>2 DEF RegistrarFallido, UnchangedAuxiliares, auxiliares
  <1>4. EnOrdenLasManos'
    BY <1>1, <1>2, <1>3, AnotarManos DEF Drenado
  <1>5. BienContado'
    BY <1>1, <1>2, <1>3, AnotarCuenta
  <1> QED BY <1>4, <1>5 DEF Drenado

\* The steps in which drains let go of what they hold.
LEMMA SoltarDrena ==
  ASSUME TypeOK, TypeOK', Drenado, NEW Ps \in SUBSET Proc,
         \A p \in Ps : hilo'[p] = Libre,
         \A p \in Proc \ Ps : hilo'[p] = hilo[p],
         UNCHANGED <<fila, enviadosHoy, contactados, salioPor, desfasados>>,
         rezagados \ Ps \subseteq rezagados',
         dudosos' = dudosos \cup UNION {SinAnotar(p) : p \in Ps}
  PROVE  Drenado'
  <1>1. /\ EnOrdenLasManos'
        /\ \A p \in Ps : SinAnotar(p)' = {} /\ PorContar(p)' = {}
        /\ \A p \in Proc \ Ps :
             SinAnotar(p)' = SinAnotar(p) /\ PorContar(p)' = PorContar(p)
    BY SoltarManos DEF Drenado
  <1>2. /\ dudosos \subseteq dudosos' /\ \A p \in Ps : SinAnotar(p) \subseteq dudosos'
        /\ \A p \in Proc : PorContar(p) \subseteq SinAnotar(p)
    BY Tipos
  <1>3. \A q \in Proc :
          /\ PorContar(q)' \subseteq PorContar(q)
          /\ PorContar(q) \subseteq PorContar(q)' \cup dudosos'
          /\ SinAnotar(q) \subseteq SinAnotar(q)' \cup dudosos'
    BY <1>1, <1>2
  <1>4. \A q \in Proc : hilo'[q].paso \in {"envia", "mano"} =>
          /\ hilo[q].paso \in {"envia", "mano"} /\ hilo'[q].cuenta = hilo[q].cuenta
          /\ q \in rezagados => q \in rezagados'
    BY DEF Libre
  <1>5. BienContado'
    BY <1>2, <1>3, <1>4, CuentasQuietas DEF Drenado
  <1> QED BY <1>1, <1>5 DEF Drenado

LEMMA PasoInductivo == IInv /\ [Next]_vars => IInv'
  <1> SUFFICES ASSUME IInv, [Next]_vars PROVE IInv'
    OBVIOUS
  <1>1. TypeOK /\ Cola /\ Drenado /\ SinMensaje
    BY DosPartes DEF Cola
  <1>2. TypeOK'
    BY <1>1, TipoSigue
  <1>3. SUFFICES Cola' /\ Drenado'
    BY <1>2, DosPartes, PTL
  <1>4. ASSUME NEW r \in Corridas, Encolar(r) PROVE Cola' /\ Drenado'
    <2>1. Cola'
      BY <1>1, <1>4, EncolarCola
    <2>2. Drenado'
      BY <1>1, <1>2, <1>4, DrenadoIgual DEF Encolar, UnchangedTablas, UnchangedAuxiliares
    <2> QED BY <2>1, <2>2
  <1>5. ASSUME NEW r \in Corridas, InsertarAperturas(r) PROVE Cola' /\ Drenado'
    <2>1. Cola'
      BY <1>1, <1>5, TerminaCola DEF InsertarAperturas
    <2>2. corrida[r].ahora \in Nat
      BY <1>1 DEF TypeOK, Corrida
    <2>3. \A m \in Ids : \/ fila'[m] = fila[m]
                         \/ /\ ~Existe(m)
                            /\ fila'[m].estado = "encolado" /\ fila'[m].entregas = 0
      BY <1>5, <2>2, Registros DEF InsertarAperturas, Aperturas, Siguiente
    <2>4. Drenado'
      BY <1>1, <1>2, <1>5, <2>3, DrenadoConNuevas DEF InsertarAperturas, UnchangedAuxiliares
    <2> QED BY <2>1, <2>4
  <1>6. ASSUME NEW r \in Corridas, FallaEncolar(r) PROVE Cola' /\ Drenado'
    <2>1. Cola'
      BY <1>1, <1>6, TerminaCola DEF FallaEncolar, UnchangedTablas
    <2>2. Drenado'
      BY <1>1, <1>2, <1>6, DrenadoIgual
         DEF FallaEncolar, UnchangedTablas, UnchangedAuxiliares
    <2> QED BY <2>1, <2>2
  <1>7. CASE EncolarAprobado
    <2>1. Cola'
      BY <1>1, <1>7, EncolarAprobadoCola
    <2>2. PICK m \in Ids, t \in 0..MaxHora :
            Siguiente(m) /\ fila' = [fila EXCEPT ![m] = Nuevo(FALSE, t)]
      BY <1>7 DEF EncolarAprobado
    <2>3. t \in Nat
      BY EnviosAssumption DEF EnviosAssumption
    <2>4. \A n \in Ids : \/ fila'[n] = fila[n]
                         \/ /\ ~Existe(n)
                            /\ fila'[n].estado = "encolado" /\ fila'[n].entregas = 0
      BY <1>1, <2>2, <2>3, Registros DEF Siguiente, TypeOK
    <2>5. Drenado'
      BY <1>1, <1>2, <1>7, <2>4, DrenadoConNuevas DEF EncolarAprobado, UnchangedAuxiliares
    <2> QED BY <2>1, <2>5
  <1>8. ASSUME UNCHANGED <<fila, encolando, corrida>> PROVE Cola'
    BY <1>1, <1>8 DEF Cola, SinMensaje, Existe, Guardia, AperturaUnica
  <1>9. ASSUME NEW p \in Proc, ListarPendientes(p) PROVE Cola' /\ Drenado'
    <2>1. Cola'
      BY <1>8, <1>9 DEF ListarPendientes, UnchangedTablas
    <2> QED BY <1>1, <1>2, <1>9, <2>1, ListarDrena
  <1>10. ASSUME NEW p \in Proc, Contar(p) PROVE Cola' /\ Drenado'
    <2>1. Cola'
      BY <1>8, <1>10 DEF Contar, UnchangedTablas
    <2> QED BY <1>1, <1>2, <1>10, <2>1, ContarCuenta
  <1>11. ASSUME NEW p \in Proc, Enviar(p) PROVE Cola' /\ Drenado'
    <2>1. Cola'
      BY <1>1, <1>11, DrenaSinTocarLaCola, ColaFija
    <2> QED BY <1>1, <1>2, <1>11, <2>1, EnviarDrena
  <1>12. ASSUME NEW p \in Proc, RegistrarEnviado(p) PROVE Cola' /\ Drenado'
    <2>1. Cola'
      BY <1>1, <1>12, DrenaSinTocarLaCola, ColaFija
    <2> QED BY <1>1, <1>2, <1>12, <2>1, EnviadoDrena
  <1>13. ASSUME NEW p \in Proc, RegistrarFallido(p) PROVE Cola' /\ Drenado'
    <2>1. Cola'
      BY <1>1, <1>13, DrenaSinTocarLaCola, ColaFija
    <2> QED BY <1>1, <1>2, <1>13, <2>1, FallidoDrena
  <1>14. ASSUME NEW p \in Proc, FallaRegistro(p) PROVE Cola' /\ Drenado'
    <2>1. Cola'
      BY <1>8, <1>14 DEF FallaRegistro, UnchangedTablas
    <2>2. /\ {p} \in SUBSET Proc /\ \A q \in {p} : hilo'[q] = Libre
          /\ \A q \in Proc \ {p} : hilo'[q] = hilo[q]
          /\ dudosos' = dudosos \cup UNION {SinAnotar(q) : q \in {p}}
          /\ rezagados \ {p} \subseteq rezagados'
          /\ UNCHANGED <<fila, enviadosHoy, contactados, salioPor, desfasados>>
      BY <1>1, <1>14, LosOtros DEF FallaRegistro, UnchangedTablas
    <2>3. Drenado'
      BY <1>1, <1>2, <2>2, SoltarDrena
    <2> QED BY <2>1, <2>3
  <1>15. ASSUME NEW p \in Proc, TerminarLote(p) PROVE Cola' /\ Drenado'
    <2>1. Cola'
      BY <1>8, <1>15 DEF TerminarLote, UnchangedTablas
    <2>2. SinAnotar(p) = {}
      BY <1>1, <1>15
         DEF TerminarLote, Drenado, EnOrdenLasManos, EnSuPaso, EnSuPasoDe, SinAnotar
    <2>3. /\ {p} \in SUBSET Proc /\ \A q \in {p} : hilo'[q] = Libre
          /\ \A q \in Proc \ {p} : hilo'[q] = hilo[q]
          /\ dudosos' = dudosos \cup UNION {SinAnotar(q) : q \in {p}}
          /\ rezagados \ {p} \subseteq rezagados'
          /\ UNCHANGED <<fila, enviadosHoy, contactados, salioPor, desfasados>>
      BY <1>1, <1>15, <2>2, LosOtros DEF TerminarLote, UnchangedTablas
    <2>4. Drenado'
      BY <1>1, <1>2, <2>3, SoltarDrena
    <2> QED BY <2>1, <2>4
  <1>16. CASE Caida
    <2>1. Cola'
      BY <1>1, <1>16, CaidaCola
    <2>2. /\ \A q \in Proc : hilo'[q] = Libre
          /\ dudosos' = dudosos \cup UNION {SinAnotar(q) : q \in Proc}
          /\ rezagados \ Proc \subseteq rezagados'
          /\ UNCHANGED <<fila, enviadosHoy, contactados, salioPor, desfasados>>
      BY <1>1, <1>16 DEF Caida, UnchangedTablas, TypeOK
    <2>3. Drenado'
      BY <1>1, <1>2, <2>2, SoltarDrena
    <2> QED BY <2>1, <2>3
  <1>17. CASE NuevoDia
    <2>1. Cola'
      BY <1>8, <1>17 DEF NuevoDia
    <2> QED BY <1>1, <1>17, <2>1, NuevoDiaDrena
  <1>18. CASE UNCHANGED vars
    <2>1. Cola'
      BY <1>8, <1>18 DEF vars
    <2> QED BY <1>1, <1>2, <1>18, <2>1, DrenadoIgual DEF vars
  <1> QED BY <1>4, <1>5, <1>6, <1>7, <1>9, <1>10, <1>11, <1>12, <1>13, <1>14, <1>15,
             <1>16, <1>17, <1>18 DEF Next

-----------------------------------------------------------------------------
(* The theorems *)

\* Every reachable state satisfies the invariant: no message that is not in doubt
\* is in two hands, and what a drain holds, what it counted and what the rows say
\* never disagree on it.
THEOREM Invariante == Spec => []IInv
  <1>1. Init => IInv
    BY AlEmpezarDreno
  <1>2. IInv /\ [Next]_vars => IInv'
    BY PasoInductivo
  <1> QED BY <1>1, <1>2, PTL DEF Spec

\* No cliente gets two openers from any runs of EncolarCohorte, whatever fails,
\* restarts or is approved in between (envio_service.go:23-25).
THEOREM UnaSolaApertura == Spec => []AperturaUnica
  <1>1. IInv => AperturaUnica
    BY DEF IInv
  <1> QED BY <1>1, Invariante, PTL

\* FUE_CONTACTADO and the rows tell what the sender accepted, for every message
\* that no two drains held and no fault left unrecorded (the measurement
\* integrity of envio_service.go:166-169).
THEOREM MedicionHonesta == Spec => []Medicion
  <1>1. IInv => Medicion
    BY DEF IInv
  <1> QED BY <1>1, Invariante, PTL

\* The rows enviado of a day exceed the cap only by sends of drains whose count
\* another send had escaped, whatever the batches, their limits and the order of
\* the stamps; and no drain exceeds it by itself over a day, but for messages in
\* doubt.
THEOREM TopeRespetado == Spec => []TopeConCausa
  <1>1. IInv => TopeConCausa
    BY DEF IInv
  <1> QED BY <1>1, Invariante, PTL

-----------------------------------------------------------------------------
(* The copiloto *)

USE CopilotoAssumption

LEMMA OperacionesBien ==
  ASSUME CopilotoTypeOK, NEW o \in Operaciones
  PROVE  op[o] \in Operacion /\ op[o].ahora \in Nat /\ op[o].desde \in Nat
         /\ op[o].base \in Nat /\ op[o].copia \in Estados
  BY DEF CopilotoTypeOK, Operacion

\* What a stored decision adds to MSP_RX_DECISION.
LEMMA UnaDecisionMas ==
  ASSUME CopilotoTypeOK, NEW o \in Operaciones,
         NEW r \in {"propuesto", "escalado", "aprobado"}, Anota(o, r)
  PROVE  LET n == Len(decisiones) + 1 IN
         /\ n \in Nat /\ Decididas = 1..(n - 1)
         /\ decisiones' \in Seq(Decision) /\ Len(decisiones') = n /\ Decididas' = 1..n
         /\ \A i \in Decididas : decisiones'[i] = decisiones[i]
         /\ decisiones'[n] = [resultado |-> r, creada |-> op[o].ahora,
                              base |-> op[o].base, desde |-> op[o].desde]
         /\ decisiones'[n].resultado = r
<1> DEFINE d == [resultado |-> r, creada |-> op[o].ahora,
                 base |-> op[o].base, desde |-> op[o].desde]
<1>1. d \in Decision
  BY OperacionesBien DEF Decision
<1>2. decisiones \in Seq(Decision) /\ decisiones' = Append(decisiones, d)
  BY DEF Anota, CopilotoTypeOK
<1> HIDE DEF d
<1>3. /\ Append(decisiones, d) \in Seq(Decision)
      /\ Len(Append(decisiones, d)) = Len(decisiones) + 1
      /\ \A i \in 1..Len(decisiones) : Append(decisiones, d)[i] = decisiones[i]
      /\ Append(decisiones, d)[Len(decisiones) + 1] = d
  BY <1>1, <1>2, AppendProperties
<1>4. Len(decisiones) \in Nat /\ DOMAIN decisiones = 1..Len(decisiones)
      /\ DOMAIN decisiones' = 1..Len(decisiones')
  BY <1>2, <1>3, LenProperties
<1>5. Decididas = 1..Len(decisiones) /\ Decididas' = 1..(Len(decisiones) + 1)
  BY <1>2, <1>3, <1>4 DEF Decididas
<1> QED BY <1>1, <1>2, <1>3, <1>4, <1>5 DEF d

LEMMA DecisionesBien ==
  ASSUME CopilotoTypeOK
  PROVE  /\ Len(decisiones) \in Nat /\ Decididas = 1..Len(decisiones)
         /\ \A i \in Decididas :
              /\ decisiones[i] \in Decision /\ decisiones[i].creada \in Nat
              /\ decisiones[i].base \in Nat /\ decisiones[i].desde \in Nat
<1>1. decisiones \in Seq(Decision)
  BY DEF CopilotoTypeOK
<1>2. Len(decisiones) \in Nat /\ Decididas = 1..Len(decisiones)
  BY <1>1, LenProperties DEF Decididas
<1>3. \A i \in Decididas : decisiones[i] \in Decision
  BY <1>1, <1>2, ElementOfSeq
<1> QED BY <1>2, <1>3 DEF Decision

\* The decision an operator is shown is one of the stored, and none is newer.
LEMMA LaVigente ==
  ASSUME CopilotoIInv, Decididas # {}
  PROVE  /\ Vigente \in Decididas
         /\ \A j \in Decididas : decisiones[j].creada <= decisiones[Vigente].creada
<1>1. \E i \in Decididas : \A j \in Decididas :
        decisiones[j].creada <= decisiones[i].creada
  BY DEF CopilotoIInv, SelloPosterior
<1> QED BY <1>1 DEF Vigente

\* A step that stores nothing: only the operation that takes it can be disturbed.
LEMMA SinGuardar ==
  ASSUME CopilotoIInv, NEW o \in Operaciones, NEW x \in Operacion, Avanza(o, x),
         UNCHANGED <<conv, decisiones, cola>>,
         reloj' \in Nat, reloj <= reloj', EnVuelo(x)'
  PROVE  CopilotoIInv'
<1>1. CopilotoTypeOK /\ reloj \in Nat /\ op \in [Operaciones -> Operacion]
      /\ op' = [op EXCEPT ![o] = x]
  BY DEF CopilotoIInv, CopilotoTypeOK, Avanza
<1>2. CopilotoTypeOK'
  BY <1>1 DEF CopilotoTypeOK
<1>3. ColaAprobada' /\ BasePrevia' /\ AprobadoUnaVez' /\ TomaConCausa'
  BY DEF CopilotoIInv, ColaAprobada, BasePrevia, AprobadoUnaVez, TomaConCausa,
         Aprobadas, Decididas, Retomada
<1>4. SelloPosterior'
  <2>1. \A j \in Decididas : decisiones[j].creada <= reloj'
    <3> SUFFICES ASSUME NEW j \in Decididas PROVE decisiones[j].creada <= reloj'
      OBVIOUS
    <3>1. decisiones[j].creada \in Nat /\ decisiones[j].creada <= reloj
      BY <1>1, DecisionesBien DEF CopilotoIInv, SelloPosterior
    <3> QED BY <1>1, <3>1
  <2>2. decisiones' = decisiones /\ SelloPosterior
    BY DEF CopilotoIInv
  <2> QED BY <2>1, <2>2 DEF SelloPosterior, Decididas
<1>5. ASSUME NEW p \in Operaciones PROVE EnVuelo(op[p])'
  <2>1. CASE p # o
    BY <1>1, <2>1, OperacionesBien DEF CopilotoIInv, EnVuelo, Aprobadas, Decididas, Retomada
  <2>2. CASE p = o
    <3>1. op'[p] = x
      BY <1>1, <2>2
    <3> QED BY <3>1 DEF EnVuelo
  <2> QED BY <2>1, <2>2
<1> QED BY <1>2, <1>3, <1>4, <1>5 DEF CopilotoIInv

\* A step that stores a decision, whatever it leaves of the conversation: only an
\* approval approves, and a conversation comes back from escalada only through a
\* copy of it that was not.
LEMMA AlGuardar ==
  ASSUME CopilotoIInv, NEW o \in Operaciones,
         NEW r \in {"propuesto", "escalado", "aprobado"},
         Anota(o, r), Avanza(o, OperacionLibre), UNCHANGED reloj, op[o].ahora > 0,
         r = "aprobado" => op[o].paso = "aprueba",
         r = "escalado" => conv' = "escalado",
         \/ conv' = "escalado" \/ conv # "escalado"
         \/ op[o].paso = "analiza" /\ op[o].copia # "escalado",
         conv' \in Estados, cola' \in Seq(Nat), ColaAprobada'
  PROVE  CopilotoIInv'
<1> DEFINE n == Len(decisiones) + 1
           x == op[o]
<1>1. CopilotoTypeOK /\ EnVuelo(x) /\ SelloPosterior /\ BasePrevia /\ AprobadoUnaVez
      /\ TomaConCausa
  BY DEF CopilotoIInv
<1>2. /\ n \in Nat /\ Decididas = 1..(n - 1) /\ Len(decisiones) = n - 1
      /\ decisiones' \in Seq(Decision) /\ Len(decisiones') = n /\ Decididas' = 1..n
      /\ \A i \in Decididas : decisiones'[i] = decisiones[i]
      /\ decisiones'[n] = [resultado |-> r, creada |-> x.ahora,
                           base |-> x.base, desde |-> x.desde]
  <2>1. /\ Decididas = 1..(n - 1)
        /\ decisiones' \in Seq(Decision) /\ Len(decisiones') = n /\ Decididas' = 1..n
        /\ \A i \in Decididas : decisiones'[i] = decisiones[i]
        /\ decisiones'[n] = [resultado |-> r, creada |-> x.ahora,
                             base |-> x.base, desde |-> x.desde]
    BY <1>1, UnaDecisionMas
  <2>2. n \in Nat /\ Len(decisiones) = n - 1
    BY <1>1, DecisionesBien
  <2> QED BY <2>1, <2>2
<1>3. \A i \in Decididas : decisiones[i].creada \in Nat /\ decisiones[i].base \in Nat
                           /\ decisiones[i].desde \in Nat
  BY <1>1, DecisionesBien
<1>4. x.ahora \in Nat /\ x.desde \in Nat /\ x.base \in Nat /\ x.copia \in Estados
      /\ reloj \in Nat
  BY <1>1, OperacionesBien DEF CopilotoTypeOK
<1>5. op \in [Operaciones -> Operacion] /\ op' = [op EXCEPT ![o] = OperacionLibre]
  BY <1>1 DEF CopilotoTypeOK, Avanza
<1>6. decisiones'[n].resultado = r /\ decisiones'[n].creada = x.ahora
      /\ decisiones'[n].base = x.base /\ decisiones'[n].desde = x.desde
  BY <1>2
<1>7. x.desde <= n - 1 /\ x.ahora <= reloj
      /\ \A i \in 1..x.desde : decisiones[i].creada < x.ahora
  BY <1>1, <1>2 DEF EnVuelo
<1> HIDE DEF n, x
<1>8. CopilotoTypeOK'
  <2>1. OperacionLibre \in Operacion
    BY DEF OperacionLibre, Operacion, Estados
  <2> QED BY <1>1, <1>2, <1>5, <2>1 DEF CopilotoTypeOK
<1>9. \A i \in Decididas : Retomada(i) => Retomada(i)'
  BY <1>2 DEF Retomada
<1>10. \A i \in Decididas : i \in Aprobadas' <=> i \in Aprobadas
  BY <1>2 DEF Aprobadas
<1>11. n \in Aprobadas' => r = "aprobado" /\ x.base \in 1..x.desde
         /\ \A i \in Aprobadas : i <= x.desde => decisiones[i].base # x.base
  BY <1>1, <1>6 DEF Aprobadas, EnVuelo, x
<1>12. SelloPosterior'
  <2>1. ASSUME NEW j \in 1..n
        PROVE  /\ decisiones'[j].desde < j /\ decisiones'[j].creada <= reloj
               /\ \A i \in 1..decisiones'[j].desde :
                    decisiones'[i].creada < decisiones'[j].creada
    <3>1. CASE j = n
      <4>1. \A i \in 1..x.desde : i \in Decididas
        BY <1>2, <1>4, <1>7
      <4>2. \A i \in 1..x.desde : decisiones'[i].creada < x.ahora
        BY <1>2, <1>7, <4>1
      <4>3. x.desde < n
        BY <1>2, <1>4, <1>7
      <4> QED BY <1>6, <1>7, <3>1, <4>2, <4>3
    <3>2. CASE j \in 1..(n - 1)
      <4>1. /\ decisiones[j].desde < j /\ decisiones[j].creada <= reloj
            /\ \A i \in 1..decisiones[j].desde :
                 decisiones[i].creada < decisiones[j].creada
        BY <1>1, <1>2, <3>2 DEF SelloPosterior
      <4>2. \A i \in 1..decisiones[j].desde : i \in Decididas
        BY <1>2, <1>3, <3>2, <4>1
      <4> QED BY <1>2, <3>2, <4>1, <4>2
    <3> QED BY <1>2, <3>1, <3>2
  <2>2. \E i \in 1..n : \A j \in 1..n : decisiones'[j].creada <= decisiones'[i].creada
    <3>1. CASE Decididas = {}
      <4>1. n = 1
        BY <1>2, <3>1
      <4> QED BY <1>4, <1>6, <4>1
    <3>2. CASE Decididas # {}
      <4>1. PICK i \in Decididas : \A j \in Decididas :
              decisiones[j].creada <= decisiones[i].creada
        BY <1>1, <3>2 DEF SelloPosterior
      <4>2. CASE x.ahora <= decisiones[i].creada
        <5>1. decisiones'[i].creada = decisiones[i].creada /\ i \in 1..n
          BY <1>2
        <5>2. ASSUME NEW j \in 1..n PROVE decisiones'[j].creada <= decisiones'[i].creada
          <6>1. CASE j = n
            BY <1>6, <4>2, <5>1, <6>1
          <6>2. CASE j \in Decididas
            BY <1>2, <4>1, <5>1, <6>2
          <6> QED BY <1>2, <6>1, <6>2
        <5> QED BY <5>1, <5>2
      <4>3. CASE ~(x.ahora <= decisiones[i].creada)
        <5>1. \A j \in Decididas : decisiones[j].creada <= x.ahora
          BY <1>3, <1>4, <4>1, <4>3
        <5>2. ASSUME NEW j \in 1..n PROVE decisiones'[j].creada <= decisiones'[n].creada
          <6>1. CASE j = n
            BY <1>4, <1>6, <6>1
          <6>2. CASE j \in Decididas
            BY <1>2, <1>6, <5>1, <6>2
          <6> QED BY <1>2, <6>1, <6>2
        <5>3. n \in 1..n
          BY <1>2
        <5> QED BY <5>2, <5>3
      <4> QED BY <4>2, <4>3
    <3> QED BY <3>1, <3>2
  <2> QED BY <1>2, <2>1, <2>2 DEF SelloPosterior
<1>13. BasePrevia'
  <2> SUFFICES ASSUME NEW i \in Aprobadas' PROVE (decisiones'[i].base \in 1..decisiones'[i].desde)
    BY DEF BasePrevia
  <2>1. i \in 1..n
    BY <1>2 DEF Aprobadas
  <2>2. CASE i = n
    BY <1>6, <1>11, <2>2
  <2>3. CASE i \in Decididas
    BY <1>1, <1>2, <1>10, <2>3 DEF BasePrevia
  <2> QED BY <1>2, <2>1, <2>2, <2>3
<1>14. ASSUME NEW p \in Operaciones PROVE EnVuelo(op[p])'
  <2>1. CASE p = o
    <3>1. op'[p] = OperacionLibre
      BY <1>5, <2>1
    <3> QED BY <1>2, <1>4, <3>1 DEF EnVuelo, OperacionLibre
  <2>2. CASE p # o
    <3> DEFINE y == op[p]
    <3>1. op'[p] = y /\ EnVuelo(y)
      BY <1>5, <2>2 DEF CopilotoIInv
    <3>2. y.desde \in Nat /\ y.ahora \in Nat /\ y.base \in Nat
      BY <1>1, OperacionesBien
    <3> HIDE DEF y
    <3>3. \A i \in 1..y.desde : i \in Decididas
      BY <1>2, <3>1, <3>2 DEF EnVuelo
    <3>4. y.desde <= n /\ y.desde <= n - 1 /\ y.ahora <= reloj
      BY <1>2, <3>1, <3>2 DEF EnVuelo
    <3>5. y.ahora > 0 => \A i \in 1..y.desde : decisiones'[i].creada < y.ahora
      BY <1>2, <3>1, <3>3 DEF EnVuelo
    <3>6. y.paso = "aprueba" =>
            \A i \in Aprobadas' : i <= y.desde => decisiones'[i].base # y.base
      <4> SUFFICES ASSUME y.paso = "aprueba", NEW i \in Aprobadas', i <= y.desde
                   PROVE  decisiones'[i].base # y.base
        OBVIOUS
      <4>1. i \in Decididas
        BY <1>2, <3>2, <3>4 DEF Aprobadas
      <4> QED BY <1>2, <1>10, <3>1, <4>1 DEF EnVuelo
    <3>7. y.paso = "analiza" /\ y.copia # "escalado" =>
            \A i \in 1..y.desde : decisiones'[i].resultado = "escalado" => Retomada(i)'
      BY <1>2, <1>9, <3>1, <3>3 DEF EnVuelo
    <3> QED BY <1>2, <3>1, <3>4, <3>5, <3>6, <3>7 DEF EnVuelo
  <2> QED BY <2>1, <2>2
<1>15. AprobadoUnaVez'
  <2> SUFFICES ASSUME NEW i \in Aprobadas', NEW j \in Aprobadas', i < j,
                      decisiones'[i].base = decisiones'[j].base
               PROVE  decisiones'[j].desde < i
    BY DEF AprobadoUnaVez
  <2>1. i \in 1..n /\ j \in 1..n
    BY <1>2 DEF Aprobadas
  <2>2. i \in Decididas /\ i \in Aprobadas
    BY <1>2, <1>10, <2>1
  <2>3. CASE j = n
    BY <1>2, <1>4, <1>6, <1>11, <2>2, <2>3
  <2>4. CASE j \in Decididas
    BY <1>1, <1>2, <1>10, <2>2, <2>4 DEF AprobadoUnaVez
  <2> QED BY <1>2, <2>1, <2>3, <2>4
<1>16. TomaConCausa'
  <2> SUFFICES ASSUME conv' # "escalado", NEW i \in Decididas',
                      decisiones'[i].resultado = "escalado"
               PROVE  Retomada(i)'
    BY DEF TomaConCausa
  <2>1. i \in Decididas /\ decisiones[i].resultado = "escalado"
    BY <1>2, <1>6
  <2>2. CASE conv # "escalado"
    BY <1>1, <1>9, <2>1, <2>2 DEF TomaConCausa
  <2>3. CASE x.paso = "analiza" /\ x.copia # "escalado"
    <3>1. CASE i <= x.desde
      <4>1. i \in 1..x.desde
        BY <1>2, <1>4, <2>1, <3>1
      <4> QED BY <1>1, <1>9, <2>1, <2>3, <4>1 DEF EnVuelo
    <3>2. CASE x.desde < i
      BY <1>2, <1>6, <2>1, <3>2 DEF Retomada
    <3> QED BY <1>2, <1>4, <2>1, <3>1, <3>2
  <2> QED BY <2>2, <2>3 DEF x
<1> QED BY <1>8, <1>12, <1>13, <1>14, <1>15, <1>16 DEF CopilotoIInv

LEMMA LlegaFija == ASSUME CopilotoIInv, NEW o \in Operaciones, Llega(o) PROVE CopilotoIInv'
<1>1. /\ op[o].paso = "libre" /\ reloj' = reloj + 1
      /\ Avanza(o, [OperacionLibre EXCEPT !.paso = "llega", !.ahora = reloj + 1,
                                          !.desde = Len(decisiones)])
      /\ UNCHANGED <<conv, decisiones, cola>>
  BY DEF Llega, LeeReloj
<1>2. CopilotoTypeOK /\ SelloPosterior /\ reloj \in Nat
  BY DEF CopilotoIInv, CopilotoTypeOK
<1>3. PICK x \in Operacion : x =
        [OperacionLibre EXCEPT !.paso = "llega", !.ahora = reloj + 1,
                               !.desde = Len(decisiones)]
  <2>1. reloj + 1 \in Nat /\ Len(decisiones) \in Nat
    BY <1>2, DecisionesBien
  <2> QED BY <2>1 DEF OperacionLibre, Operacion, Estados
<1>4. Avanza(o, x)
  BY <1>1, <1>3
<1>5. EnVuelo(x)'
  <2>1. \A i \in 1..Len(decisiones) : decisiones[i].creada < reloj + 1
    BY <1>2, DecisionesBien DEF SelloPosterior
  <2>2. x.paso = "llega" /\ x.ahora = reloj + 1 /\ x.desde = Len(decisiones)
    BY <1>3 DEF OperacionLibre
  <2> QED BY <1>1, <1>2, <2>1, <2>2, DecisionesBien DEF EnVuelo
<1> QED BY <1>1, <1>2, <1>4, <1>5, SinGuardar

LEMMA LeeConversacionFija ==
  ASSUME CopilotoIInv, NEW o \in Operaciones, LeeConversacion(o) PROVE CopilotoIInv'
<1>1. /\ op[o].paso = "llega" /\ Avanza(o, [op[o] EXCEPT !.paso = "analiza", !.copia = conv])
      /\ UNCHANGED <<conv, decisiones, cola, reloj>>
  BY DEF LeeConversacion
<1>2. CopilotoTypeOK /\ EnVuelo(op[o]) /\ TomaConCausa /\ conv \in Estados /\ reloj \in Nat
  BY DEF CopilotoIInv, CopilotoTypeOK
<1>3. op[o] \in Operacion
  BY <1>2, OperacionesBien
<1>4. PICK x \in Operacion : x = [op[o] EXCEPT !.paso = "analiza", !.copia = conv]
  BY <1>2, <1>3 DEF Operacion
<1>5. x.paso = "analiza" /\ x.copia = conv /\ x.ahora = op[o].ahora /\ x.desde = op[o].desde
  BY <1>3, <1>4 DEF Operacion
<1>6. EnVuelo(x)'
  <2>1. \A i \in 1..x.desde : i \in Decididas
    BY <1>2, <1>5, DecisionesBien, OperacionesBien DEF EnVuelo
  <2>2. conv # "escalado" => \A i \in 1..x.desde :
          decisiones[i].resultado = "escalado" => Retomada(i)
    BY <1>2, <2>1 DEF TomaConCausa
  <2> QED BY <1>1, <1>2, <1>5, <2>2 DEF EnVuelo, Retomada, Decididas
<1>7. Avanza(o, x)
  BY <1>1, <1>4
<1> QED BY <1>1, <1>2, <1>6, <1>7, SinGuardar

\* The draft an operator is shown was approved by nobody: an approval of it would
\* be a newer decision.
LEMMA ApruebaFija == ASSUME CopilotoIInv, NEW o \in Operaciones, Aprueba(o) PROVE CopilotoIInv'
<1>1. /\ HayBorrador
      /\ Avanza(o, [OperacionLibre EXCEPT !.paso = "aprueba", !.base = Vigente,
                                          !.desde = Len(decisiones)])
      /\ UNCHANGED <<conv, decisiones, cola, reloj>>
  BY DEF Aprueba
<1>2. CopilotoTypeOK /\ SelloPosterior /\ BasePrevia /\ reloj \in Nat
  BY DEF CopilotoIInv, CopilotoTypeOK
<1>3. /\ Vigente \in Decididas
      /\ \A j \in Decididas : decisiones[j].creada <= decisiones[Vigente].creada
  BY <1>1, LaVigente DEF HayBorrador
<1>4. Vigente \in Nat /\ Vigente \in 1..Len(decisiones)
  BY <1>2, <1>3, DecisionesBien
<1>5. PICK x \in Operacion : x =
        [OperacionLibre EXCEPT !.paso = "aprueba", !.base = Vigente,
                               !.desde = Len(decisiones)]
  BY <1>2, <1>4, DecisionesBien DEF OperacionLibre, Operacion, Estados
<1>6. Avanza(o, x)
  BY <1>1, <1>5
<1>7. x.paso = "aprueba" /\ x.ahora = 0 /\ x.base = Vigente /\ x.desde = Len(decisiones)
  BY <1>5 DEF OperacionLibre
<1>8. \A i \in Aprobadas : decisiones[i].base # Vigente
  <2> SUFFICES ASSUME NEW i \in Aprobadas, decisiones[i].base = Vigente PROVE FALSE
    OBVIOUS
  <2>1. i \in Decididas /\ Vigente \in 1..decisiones[i].desde
    BY <1>2 DEF BasePrevia, Aprobadas
  <2>2. decisiones[Vigente].creada < decisiones[i].creada
    BY <1>2, <2>1 DEF SelloPosterior
  <2> QED BY <1>2, <1>3, <2>1, <2>2, DecisionesBien
<1>9. EnVuelo(x)'
  BY <1>1, <1>2, <1>4, <1>7, <1>8, DecisionesBien DEF EnVuelo, Aprobadas, Decididas
<1> QED BY <1>1, <1>2, <1>6, <1>9, SinGuardar

LEMMA EmpiezaFija ==
  ASSUME CopilotoIInv, NEW o \in Operaciones, Escala(o) \/ Dicta(o) PROVE CopilotoIInv'
<1>1. PICK paso \in {"escala", "dicta"} :
        /\ Avanza(o, [OperacionLibre EXCEPT !.paso = paso, !.desde = Len(decisiones)])
        /\ UNCHANGED <<conv, decisiones, cola, reloj>>
  BY DEF Escala, Dicta, Empieza
<1>2. CopilotoTypeOK /\ reloj \in Nat
  BY DEF CopilotoIInv, CopilotoTypeOK
<1>3. PICK x \in Operacion : x =
        [OperacionLibre EXCEPT !.paso = paso, !.desde = Len(decisiones)]
  BY <1>2, DecisionesBien DEF OperacionLibre, Operacion, Estados
<1>4. Avanza(o, x)
  BY <1>1, <1>3
<1>5. x.paso \in {"escala", "dicta"} /\ x.ahora = 0 /\ x.desde = Len(decisiones)
  BY <1>3 DEF OperacionLibre
<1>6. EnVuelo(x)'
  BY <1>1, <1>2, <1>5, DecisionesBien DEF EnVuelo
<1> QED BY <1>1, <1>2, <1>4, <1>6, SinGuardar

LEMMA SellaFija == ASSUME CopilotoIInv, NEW o \in Operaciones, Sella(o) PROVE CopilotoIInv'
<1>1. /\ op[o].paso \in {"aprueba", "escala", "dicta"} /\ reloj' = reloj + 1
      /\ Avanza(o, [op[o] EXCEPT !.ahora = reloj + 1])
      /\ UNCHANGED <<conv, decisiones, cola>>
  BY DEF Sella, LeeReloj
<1>2. CopilotoTypeOK /\ EnVuelo(op[o]) /\ SelloPosterior /\ reloj \in Nat
  BY DEF CopilotoIInv, CopilotoTypeOK
<1>3. op[o] \in Operacion /\ op[o].desde \in Nat
  BY <1>2, OperacionesBien
<1>4. PICK x \in Operacion : x = [op[o] EXCEPT !.ahora = reloj + 1]
  <2>1. reloj + 1 \in Nat
    BY <1>2
  <2> QED BY <1>3, <2>1 DEF Operacion
<1>5. x.paso = op[o].paso /\ x.base = op[o].base /\ x.ahora = reloj + 1
      /\ x.desde = op[o].desde
  BY <1>3, <1>4 DEF Operacion
<1>6. EnVuelo(x)'
  <2>1. \A i \in 1..x.desde : decisiones[i].creada < reloj + 1
    <3>1. \A i \in 1..x.desde : i \in Decididas
      BY <1>2, <1>3, <1>5, DecisionesBien DEF EnVuelo
    <3> QED BY <1>2, <3>1, DecisionesBien DEF SelloPosterior
  <2> QED BY <1>1, <1>2, <1>5, <2>1 DEF EnVuelo, Aprobadas, Decididas
<1>7. Avanza(o, x)
  BY <1>1, <1>4
<1> QED BY <1>1, <1>2, <1>6, <1>7, SinGuardar

LEMMA FracasaFija == ASSUME CopilotoIInv, NEW o \in Operaciones, Fracasa(o) PROVE CopilotoIInv'
<1>1. Avanza(o, OperacionLibre) /\ UNCHANGED <<conv, decisiones, cola, reloj>>
  BY DEF Fracasa
<1>2. CopilotoTypeOK /\ reloj \in Nat
  BY DEF CopilotoIInv, CopilotoTypeOK
<1>3. PICK x \in Operacion : x = OperacionLibre
  BY DEF OperacionLibre, Operacion, Estados
<1>4. EnVuelo(x)'
  BY <1>1, <1>2, <1>3, DecisionesBien DEF EnVuelo, OperacionLibre
<1>5. Avanza(o, x)
  BY <1>1, <1>3
<1> QED BY <1>1, <1>2, <1>4, <1>5, SinGuardar

\* A decision that is not an approval queues nothing.
LEMMA BorradoresFijos ==
  ASSUME CopilotoIInv, NEW o \in Operaciones, NEW r \in {"propuesto", "escalado"},
         Anota(o, r), UNCHANGED cola
  PROVE  ColaAprobada'
<1>1. CopilotoTypeOK /\ ColaAprobada
  BY DEF CopilotoIInv
<1> DEFINE n == Len(decisiones) + 1
<1>2. /\ n \in Nat /\ Decididas = 1..(n - 1) /\ Decididas' = 1..n
      /\ \A i \in Decididas : decisiones'[i] = decisiones[i]
      /\ decisiones'[n].resultado = r
  <2>1. Len(decisiones) \in Nat
    BY <1>1, DecisionesBien
  <2>2. n \in Nat
    BY <2>1
  <2> QED BY <1>1, <2>2, UnaDecisionMas
<1> HIDE DEF n
<1>3. \A i \in 1..n : i \in Decididas \/ i = n
  BY <1>2
<1>4. Aprobadas' = Aprobadas
  BY <1>2, <1>3 DEF Aprobadas
<1> QED BY <1>1, <1>4 DEF ColaAprobada

LEMMA GuardaEntranteFija ==
  ASSUME CopilotoIInv, NEW o \in Operaciones, GuardaEntrante(o) PROVE CopilotoIInv'
<1>1. PICK r \in {"propuesto", "escalado"} :
        Anota(o, r) /\ conv' = Transicion(op[o].copia, r)
  BY DEF GuardaEntrante
<1>2. op[o].paso = "analiza" /\ Avanza(o, OperacionLibre) /\ UNCHANGED <<cola, reloj>>
  BY DEF GuardaEntrante
<1>3. op[o].ahora > 0 /\ cola' \in Seq(Nat)
  BY <1>2 DEF CopilotoIInv, EnVuelo, CopilotoTypeOK
<1>4. ColaAprobada'
  BY <1>1, <1>2, BorradoresFijos
<1>5. /\ r = "escalado" => conv' = "escalado"
      /\ conv' = "escalado" \/ op[o].copia # "escalado"
      /\ conv' \in Estados
  BY <1>1 DEF Transicion, Estados
<1> QED BY <1>1, <1>2, <1>3, <1>4, <1>5, AlGuardar

LEMMA GuardaEscaladaFija ==
  ASSUME CopilotoIInv, NEW o \in Operaciones, GuardaEscalada(o) PROVE CopilotoIInv'
<1>1. /\ op[o].ahora > 0 /\ Anota(o, "escalado") /\ conv' = "escalado"
      /\ Avanza(o, OperacionLibre) /\ UNCHANGED <<cola, reloj>>
  BY DEF GuardaEscalada, Sellada
<1>2. ColaAprobada' /\ cola' \in Seq(Nat)
  BY <1>1, BorradoresFijos DEF CopilotoIInv, CopilotoTypeOK
<1> QED BY <1>1, <1>2, AlGuardar DEF Estados

LEMMA GuardaDictadoFija ==
  ASSUME CopilotoIInv, NEW o \in Operaciones, GuardaDictado(o) PROVE CopilotoIInv'
<1>1. /\ op[o].ahora > 0 /\ Anota(o, "propuesto")
      /\ Avanza(o, OperacionLibre) /\ UNCHANGED <<conv, cola, reloj>>
  BY DEF GuardaDictado, Sellada
<1>2. ColaAprobada' /\ cola' \in Seq(Nat) /\ conv' \in Estados
  BY <1>1, BorradoresFijos DEF CopilotoIInv, CopilotoTypeOK
<1> QED BY <1>1, <1>2, AlGuardar

LEMMA GuardaAprobadoFija ==
  ASSUME CopilotoIInv, NEW o \in Operaciones, GuardaAprobado(o) PROVE CopilotoIInv'
<1> DEFINE n == Len(decisiones) + 1
           k == Len(cola) + 1
<1>1. /\ op[o].paso = "aprueba" /\ op[o].ahora > 0 /\ Anota(o, "aprobado")
      /\ cola' = Append(cola, n) /\ Avanza(o, OperacionLibre) /\ UNCHANGED <<conv, reloj>>
  BY DEF GuardaAprobado, Sellada
<1>2. CopilotoTypeOK /\ ColaAprobada /\ cola \in Seq(Nat) /\ conv \in Estados
  BY DEF CopilotoIInv, CopilotoTypeOK
<1>3. /\ n \in Nat /\ n \in 1..n /\ Decididas = 1..(n - 1) /\ Decididas' = 1..n
      /\ \A i \in Decididas : decisiones'[i] = decisiones[i]
      /\ decisiones'[n].resultado = "aprobado"
  <2>1. Len(decisiones) \in Nat
    BY <1>2, DecisionesBien
  <2>2. n \in Nat /\ n \in 1..n
    BY <2>1
  <2> QED BY <1>1, <1>2, <2>2, UnaDecisionMas
<1> HIDE DEF n
<1>4. /\ cola' \in Seq(Nat) /\ k \in Nat /\ k \in 1..k
      /\ DOMAIN cola = 1..(k - 1) /\ DOMAIN cola' = 1..k
      /\ cola'[k] = n /\ \A l \in DOMAIN cola : cola'[l] = cola[l]
  <2>1. /\ cola' \in Seq(Nat) /\ Len(cola') = k /\ cola'[k] = n
        /\ \A l \in 1..Len(cola) : cola'[l] = cola[l]
    BY <1>1, <1>2, <1>3, AppendProperties
  <2>2. DOMAIN cola = 1..Len(cola) /\ Len(cola) \in Nat /\ DOMAIN cola' = 1..Len(cola')
    BY <1>2, <2>1, LenProperties
  <2> QED BY <2>1, <2>2
<1> HIDE DEF k
<1>5. n \in Aprobadas' /\ \A i \in Aprobadas : i \in Aprobadas' /\ i < n
  <2>1. \A i \in Decididas : i \in Decididas' /\ i < n
    BY <1>3
  <2> QED BY <1>3, <2>1 DEF Aprobadas
<1>6. \A i \in Aprobadas' : i = n \/ i \in Aprobadas
  <2>1. \A i \in 1..n : i = n \/ i \in Decididas
    BY <1>3
  <2> QED BY <1>3, <2>1 DEF Aprobadas
<1>7. ColaAprobada'
  <2>1. \A l \in DOMAIN cola : cola[l] \in Aprobadas /\ cola[l] < n /\ cola'[l] = cola[l]
                               /\ l < k /\ l \in 1..k
    BY <1>2, <1>4, <1>5 DEF ColaAprobada
  <2>2. \A l \in 1..k : l = k \/ l \in DOMAIN cola
    BY <1>4
  <2>3. \A l \in DOMAIN cola' : cola'[l] \in Aprobadas'
    BY <1>4, <1>5, <2>1, <2>2
  <2>4. \A i \in Aprobadas' : \E l \in DOMAIN cola' : cola'[l] = i
    <3> SUFFICES ASSUME NEW i \in Aprobadas' PROVE \E l \in 1..k : cola'[l] = i
      BY <1>4
    <3>1. CASE i = n
      BY <1>4, <3>1
    <3>2. CASE i \in Aprobadas
      BY <1>2, <2>1, <3>2 DEF ColaAprobada
    <3> QED BY <1>6, <3>1, <3>2
  <2>5. \A l, m \in DOMAIN cola' : l < m => cola'[l] < cola'[m]
    <3> SUFFICES ASSUME NEW l \in 1..k, NEW m \in 1..k, l < m PROVE cola'[l] < cola'[m]
      BY <1>4
    <3>1. l \in DOMAIN cola
      BY <1>4
    <3>2. CASE m = k
      BY <1>4, <2>1, <3>1, <3>2
    <3>3. CASE m \in DOMAIN cola
      BY <1>2, <2>1, <3>1, <3>3 DEF ColaAprobada
    <3> QED BY <2>2, <3>2, <3>3
  <2> QED BY <2>3, <2>4, <2>5 DEF ColaAprobada
<1> QED BY <1>1, <1>2, <1>4, <1>7, AlGuardar

LEMMA CopilotoAlEmpezar == ASSUME CopilotoInit PROVE CopilotoIInv
<1>1. conv = "nada" /\ decisiones = <<>> /\ cola = <<>> /\ reloj = 0
      /\ op = [o \in Operaciones |-> OperacionLibre]
  BY DEF CopilotoInit
<1>2. OperacionLibre \in Operacion /\ "nada" \in Estados
  BY DEF OperacionLibre, Operacion, Estados
<1>3. Decididas = {} /\ Len(decisiones) = 0 /\ DOMAIN cola = {} /\ Aprobadas = {}
  BY <1>1 DEF Decididas, Aprobadas
<1>4. CopilotoTypeOK
  BY <1>1, <1>2 DEF CopilotoTypeOK
<1>5. \A o \in Operaciones : EnVuelo(op[o])
  <2> SUFFICES ASSUME NEW o \in Operaciones PROVE EnVuelo(op[o])
    OBVIOUS
  <2>1. op[o] = OperacionLibre
    BY <1>1
  <2> QED BY <1>1, <1>3, <2>1 DEF EnVuelo, OperacionLibre
<1> QED BY <1>3, <1>4, <1>5 DEF CopilotoIInv, ColaAprobada, SelloPosterior, BasePrevia,
                              AprobadoUnaVez, TomaConCausa

\* Types, what is queued is what was approved, and a decision is stamped after
\* all that its operation found stored.
THEOREM CopilotoInvariante == CopilotoSpec => []CopilotoIInv
<1>1. CopilotoInit => CopilotoIInv
  BY CopilotoAlEmpezar
<1>2. CopilotoIInv /\ [CopilotoNext]_copilotoVars => CopilotoIInv'
  <2> SUFFICES ASSUME CopilotoIInv, [CopilotoNext]_copilotoVars PROVE CopilotoIInv'
    OBVIOUS
  <2>1. CASE UNCHANGED copilotoVars
    BY <2>1 DEF copilotoVars, CopilotoIInv, CopilotoTypeOK, ColaAprobada, SelloPosterior,
       BasePrevia, EnVuelo, Retomada, AprobadoUnaVez, TomaConCausa, Aprobadas, Decididas
  <2> QED BY <2>1, LlegaFija, LeeConversacionFija, GuardaEntranteFija, ApruebaFija,
             EmpiezaFija, SellaFija, GuardaAprobadoFija, GuardaEscaladaFija,
             GuardaDictadoFija, FracasaFija DEF CopilotoNext
<1> QED BY <1>1, <1>2, PTL DEF CopilotoSpec

\* acciones.go's promise that approving twice queues a draft once holds except of
\* approvals that overlap, whatever operations run at once.
THEOREM DobleAprobacionExplicada == CopilotoSpec => []AprobadoUnaVez
<1>1. CopilotoIInv => AprobadoUnaVez
  BY DEF CopilotoIInv
<1> QED BY <1>1, CopilotoInvariante, PTL

\* An escalated conversation is taken back from its human only by an answer begun
\* before it was escalated.
THEOREM RetomaExplicada == CopilotoSpec => []TomaConCausa
<1>1. CopilotoIInv => TomaConCausa
  BY DEF CopilotoIInv
<1> QED BY <1>1, CopilotoInvariante, PTL

\* pendingDraft hides a stored decision only behind one that its operation could
\* not have listed.
THEOREM NingunBorradorOculto == CopilotoSpec => []BorradorVisible
<1>1. CopilotoIInv => BorradorVisible
  <2> SUFFICES ASSUME CopilotoIInv, NEW u \in Decididas, u > Vigente
               PROVE  decisiones[u].desde < Vigente
    BY DEF BorradorVisible
  <2>1. CopilotoTypeOK /\ SelloPosterior
    BY DEF CopilotoIInv
  <2>2. Vigente \in Decididas /\ decisiones[u].creada <= decisiones[Vigente].creada
    BY LaVigente
  <2>3. ASSUME Vigente <= decisiones[u].desde PROVE FALSE
    <3>1. Vigente \in 1..decisiones[u].desde
      BY <2>1, <2>2, <2>3, DecisionesBien
    <3>2. decisiones[Vigente].creada < decisiones[u].creada
      BY <2>1, <3>1 DEF SelloPosterior
    <3> QED BY <2>1, <2>2, <3>2, DecisionesBien
  <2> QED BY <2>1, <2>2, <2>3, DecisionesBien
<1> QED BY <1>1, CopilotoInvariante, PTL
=============================================================================
