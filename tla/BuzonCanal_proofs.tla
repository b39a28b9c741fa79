--------------------------- MODULE BuzonCanal_proofs ---------------------------
(***************************************************************************)
(* The mailbox loses nothing it acknowledged, gives up nothing the store   *)
(* did not refuse, and explains every repetition and every overtaking,     *)
(* whatever the number of messages, batches, calls and faults.             *)
(***************************************************************************)
EXTENDS BuzonCanal, TLAPS

USE BuzonAssumption

-----------------------------------------------------------------------------
(* Type correctness *)

\* Moving on leaves the worker idle, or at a message of what is left.
LEMMA SeguirTipo ==
  ASSUME NEW quedan \in SUBSET Mensaje, Seguir(quedan)
  PROVE  /\ pc' \in {"ocio", "intentar"}
         /\ lista' \subseteq Mensaje
         /\ actual' \in IF pc' = "ocio" THEN {Ninguno} ELSE lista'
         /\ intentos' \in 0 .. MaxAttempts - 1
BY DEF Seguir

LEMMA ReintentarTipo ==
  ASSUME TypeOK, pc = "intentar", Reintentar
  PROVE  /\ pc' \in {"ocio", "intentar"}
         /\ lista' \subseteq Mensaje
         /\ actual' \in IF pc' = "ocio" THEN {Ninguno} ELSE lista'
         /\ intentos' \in 0 .. MaxAttempts - 1
         /\ pospuestos' \subseteq Mensaje
<1>1. actual \in lista /\ lista \subseteq Mensaje /\ pospuestos \subseteq Mensaje
  BY DEF TypeOK
<1>2. CASE intentos + 1 < MaxAttempts
  BY <1>1, <1>2 DEF Reintentar, TypeOK
<1>3. CASE ~(intentos + 1 < MaxAttempts)
  <2>1. Seguir(lista \ {actual}) /\ pospuestos' = pospuestos \cup {actual}
    BY <1>3 DEF Reintentar, Siguiente
  <2> QED BY <1>1, <2>1, SeguirTipo
<1> QED BY <1>2, <1>3

LEMMA FallaTipo == ASSUME TypeOK, Falla PROVE fallas' \in 0 .. MaxFallas
BY DEF TypeOK, Falla

LEMMA BreakerTipo ==
  ASSUME TypeOK
  PROVE  /\ Anotar(TrasExito) => /\ circuito' \in [modo: {"cerrado", "abierto", "medio"}, cuenta: Nat]
                                 /\ plazo' \in BOOLEAN
         /\ Anotar(TrasFracaso) => /\ circuito' \in [modo: {"cerrado", "abierto", "medio"}, cuenta: Nat]
                                   /\ plazo' \in BOOLEAN
<1>1. Vigente \in [modo: {"cerrado", "abierto", "medio"}, cuenta: Nat]
  BY DEF TypeOK, Vigente
<1>2. Vigente.cuenta + 1 \in Nat
  BY <1>1
<1>3. TrasExito \in [modo: {"cerrado", "abierto", "medio"}, cuenta: Nat]
  BY <1>2 DEF TrasExito, Cerrado
<1>4. TrasFracaso \in [modo: {"cerrado", "abierto", "medio"}, cuenta: Nat]
  BY <1>2 DEF TrasFracaso, Abierto
<1> QED BY <1>3, <1>4 DEF Anotar

LEMMA OlvidoTipo ==
  ASSUME TypeOK, Olvido PROVE sinAcuse' \in [Mensaje -> Nat]
<1>1. CASE pc = "reenviado"
  <2>1. actual \in Mensaje /\ sinAcuse[actual] + 1 \in Nat
    BY <1>1 DEF TypeOK
  <2> QED BY <1>1, <2>1 DEF TypeOK, Olvido
<1>2. CASE pc # "reenviado"
  BY <1>2 DEF TypeOK, Olvido
<1> QED BY <1>1, <1>2

LEMMA CeroTipo == Cero \in Instante
BY DEF BuzonAssumption, Cero, Instante

LEMMA InitTipo == Init => TypeOK
<1> SUFFICES ASSUME Init PROVE TypeOK OBVIOUS
<1>1. 0 \in 0 .. MaxAttempts - 1 /\ 0 \in 0 .. MaxFallas /\ 0 \in Nat /\ 1 \in Nat
  BY DEF BuzonAssumption
<1>2. Cerrado \in [modo: {"cerrado", "abierto", "medio"}, cuenta: Nat]
  BY <1>1 DEF Cerrado
<1> HIDE DEF Cerrado
<1>3. /\ circuito \in [modo: {"cerrado", "abierto", "medio"}, cuenta: Nat]
      /\ plazo \in BOOLEAN
  BY <1>2 DEF Init
<1>4. /\ lote \in [Llamada -> Lote \cup {SinLote}]
      /\ resto \in [Llamada -> SUBSET Mensaje]
      /\ bien \in [Llamada -> BOOLEAN]
  BY DEF Init
<1>C. Cero \in Instante
  BY <1>1, CeroTipo
<1> HIDE DEF Cero, Instante
<1>5. /\ atiende \in [Llamada -> Mensaje \cup {Ninguno}]
      /\ sello \in [Llamada -> Instante]
      /\ estado \in [Mensaje -> Estado] /\ llego \in [Mensaje -> Instante]
      /\ turnos \in [Mensaje -> Nat] /\ sinAcuse \in [Mensaje -> Nat]
  BY <1>1, <1>C DEF Init, Estado
<1>6. /\ acusados \subseteq Lote /\ lista \subseteq Mensaje
      /\ pospuestos \subseteq Mensaje /\ tardios \subseteq Mensaje \X Mensaje
      /\ intentos \in 0 .. MaxAttempts - 1
      /\ fallas \in 0 .. MaxFallas
  BY <1>1 DEF Init
<1>7. pc \in {"ocio", "intentar", "reenviado", "fallido"} /\ actual \in IF pc = "ocio" THEN {Ninguno} ELSE lista
  BY DEF Init
<1> QED BY <1>3, <1>4, <1>5, <1>6, <1>7 DEF TypeOK

LEMMA SoltarTipo ==
  ASSUME TypeOK, NEW s \in Llamada, Soltar(s)
  PROVE  /\ resto' \in [Llamada -> SUBSET Mensaje]
         /\ atiende' \in [Llamada -> Mensaje \cup {Ninguno}]
         /\ sello' \in [Llamada -> Instante]
BY CeroTipo DEF Soltar, TypeOK

LEMMA ColgarTipo ==
  ASSUME TypeOK, NEW s \in Llamada, Colgar(s)
  PROVE  /\ lote' \in [Llamada -> Lote \cup {SinLote}]
         /\ resto' \in [Llamada -> SUBSET Mensaje]
         /\ bien' \in [Llamada -> BOOLEAN]
         /\ atiende' \in [Llamada -> Mensaje \cup {Ninguno}]
         /\ sello' \in [Llamada -> Instante]
BY CeroTipo DEF Colgar, TypeOK

LEMMA PasoTipo == TypeOK /\ [Next]_vars => TypeOK'
<1> SUFFICES ASSUME TypeOK, [Next]_vars PROVE TypeOK' OBVIOUS
<1>1. ASSUME NEW s \in Llamada, NEW l \in Lote, Entregar(s, l) PROVE TypeOK'
  BY <1>1 DEF Entregar, TypeOK, buzon, pasada, breaker, historia
<1>2. ASSUME NEW s \in Llamada, RecibirMensaje(s) PROVE TypeOK'
  <2>1. atiende[s] \in Mensaje /\ sello[s] \in Instante
    BY <1>2 DEF RecibirMensaje, Soltar, TypeOK
  <2>2. /\ estado' \in [Mensaje -> Estado] /\ llego' \in [Mensaje -> Instante]
    BY <1>2, <2>1 DEF RecibirMensaje, Guardar, TypeOK, Estado, buzon
  <2>3. tardios' \subseteq Mensaje \X Mensaje
    BY <1>2, <2>1 DEF RecibirMensaje, Guardar, Alcanzados, Filas, TypeOK
  <2> QED BY <1>2, <2>2, <2>3, SoltarTipo DEF RecibirMensaje, TypeOK, pasada, breaker
<1>17. ASSUME NEW s \in Llamada, NEW m \in Mensaje, Sellar(s, m) PROVE TypeOK'
  <2>1. PICK i \in Instante : sello' = [sello EXCEPT ![s] = i]
    BY <1>17 DEF Sellar
  <2> QED BY <1>17, <2>1 DEF Sellar, TypeOK, buzon, pasada, breaker, historia
<1>3. ASSUME NEW s \in Llamada, Responder(s) PROVE TypeOK'
  BY <1>3, ColgarTipo DEF Responder, TypeOK, buzon, pasada, breaker, historia
<1>4. ASSUME NEW s \in Llamada, GuardarFalla(s) PROVE TypeOK'
  BY <1>4, FallaTipo, SoltarTipo
     DEF GuardarFalla, TypeOK, buzon, pasada, breaker, historia
<1>5. ASSUME NEW s \in Llamada, CortarLlamada(s) PROVE TypeOK'
  BY <1>5, FallaTipo, ColgarTipo
     DEF CortarLlamada, TypeOK, buzon, pasada, breaker, historia
<1>6. ASSUME Tick PROVE TypeOK'
  <2>1. PICK filas \in SUBSET Pendientes : Seguir(filas)
    BY <1>6 DEF Tick
  <2>2. filas \in SUBSET Mensaje
    BY DEF Pendientes
  <2> QED BY <1>6, <2>1, <2>2, SeguirTipo DEF Tick, TypeOK, recepcion, buzon, breaker, historia
<1>7. ASSUME SinPermiso PROVE TypeOK'
  BY <1>7, ReintentarTipo DEF SinPermiso, TypeOK, recepcion, buzon, breaker
<1>8. ASSUME ReenviarOk PROVE TypeOK'
  <2>1. actual \in Mensaje /\ turnos[actual] + 1 \in Nat
    BY <1>8 DEF ReenviarOk, Intentar, TypeOK
  <2>2. turnos' \in [Mensaje -> Nat]
    BY <1>8, <2>1 DEF ReenviarOk, TypeOK
  <2> QED BY <1>8, <2>2, BreakerTipo
          DEF ReenviarOk, Intentar, TypeOK, recepcion, buzon, historia
<1>9. ASSUME ReenviarRechazado PROVE TypeOK'
  BY <1>9, BreakerTipo
     DEF ReenviarRechazado, Intentar, TypeOK, recepcion, buzon, historia
<1>10. ASSUME Marcar PROVE TypeOK'
  <2>1. actual \in lista /\ lista \subseteq Mensaje
    BY <1>10 DEF Marcar, TypeOK
  <2>2. estado' \in [Mensaje -> Estado]
    BY <1>10, <2>1 DEF Marcar, TypeOK, Estado
  <2>3. Seguir(lista \ {actual})
    BY <1>10 DEF Marcar, Siguiente
  <2> QED BY <1>10, <2>1, <2>2, <2>3, SeguirTipo
          DEF Marcar, TypeOK, recepcion, breaker, historia
<1>11. ASSUME PasaDelay PROVE TypeOK'
  BY <1>11 DEF PasaDelay, TypeOK, recepcion, buzon, pasada, historia
<1>12. ASSUME ReenviarSinRespuesta PROVE TypeOK'
  <2>1. actual \in Mensaje /\ turnos[actual] + 1 \in Nat /\ sinAcuse[actual] + 1 \in Nat
    BY <1>12 DEF ReenviarSinRespuesta, Intentar, TypeOK
  <2>2. turnos' \in [Mensaje -> Nat] /\ sinAcuse' \in [Mensaje -> Nat]
    BY <1>12, <2>1 DEF ReenviarSinRespuesta, TypeOK
  <2>3. pc = "intentar" /\ Reintentar /\ Falla /\ Anotar(TrasFracaso)
    BY <1>12 DEF ReenviarSinRespuesta, Intentar
  <2> QED BY <1>12, <2>2, <2>3, BreakerTipo, FallaTipo, ReintentarTipo
          DEF ReenviarSinRespuesta, TypeOK, recepcion, buzon
<1>13. ASSUME ReenviarTransitorio PROVE TypeOK'
  <2>1. pc = "intentar" /\ Reintentar /\ Falla /\ Anotar(TrasFracaso)
    BY <1>13 DEF ReenviarTransitorio, Intentar
  <2> QED BY <1>13, <2>1, BreakerTipo, FallaTipo, ReintentarTipo
          DEF ReenviarTransitorio, TypeOK, recepcion, buzon
<1>14. ASSUME MarcarFalla PROVE TypeOK'
  BY <1>14, OlvidoTipo, FallaTipo
     DEF MarcarFalla, SinPasada, TypeOK, recepcion, buzon, breaker
<1>15. ASSUME Reinicio PROVE TypeOK'
  <2>1. circuito' \in [modo: {"cerrado", "abierto", "medio"}, cuenta: Nat] /\ plazo' \in BOOLEAN
    BY <1>15 DEF Reinicio, Cerrado
  <2>2. /\ lote' \in [Llamada -> Lote \cup {SinLote}]
        /\ resto' \in [Llamada -> SUBSET Mensaje]
        /\ bien' \in [Llamada -> BOOLEAN]
        /\ atiende' \in [Llamada -> Mensaje \cup {Ninguno}]
        /\ sello' \in [Llamada -> Instante]
    BY <1>15, CeroTipo DEF Reinicio
  <2>3. sinAcuse' \in [Mensaje -> Nat] /\ fallas' \in 0 .. MaxFallas
    BY <1>15, OlvidoTipo, FallaTipo DEF Reinicio
  <2>4. 0 \in 0 .. MaxAttempts - 1
    BY DEF BuzonAssumption
  <2> QED BY <1>15, <2>1, <2>2, <2>3, <2>4 DEF Reinicio, SinPasada, TypeOK, buzon
<1>16. CASE UNCHANGED vars
  BY <1>16 DEF vars, TypeOK, recepcion, buzon, pasada, breaker, historia
<1> QED
  BY <1>1, <1>2, <1>3, <1>4, <1>5, <1>6, <1>7, <1>8, <1>9, <1>10, <1>11, <1>12,
     <1>13, <1>14, <1>15, <1>16, <1>17 DEF Next, Atender, Trabajar

-----------------------------------------------------------------------------
(* The ways a step may go, as the invariants tell them apart *)

\* A row is inserted, with a stamp read before.
Alta(m, i) ==
  /\ m \in Mensaje \ Filas
  /\ estado' = [estado EXCEPT ![m] = "pendiente"]
  /\ llego' = [llego EXCEPT ![m] = i]
  /\ tardios' = tardios \cup ({m} \X Alcanzados(i))

\* A step the worker has no part in.
Aparte ==
  /\ UNCHANGED <<pasada, turnos, sinAcuse, pospuestos>>
  /\ UNCHANGED <<buzon, tardios>> \/ \E m \in Mensaje, i \in Instante : Alta(m, i)

LEMMA Casos ==
  ASSUME TypeOK, [Next]_vars
  PROVE  Aparte \/ Trabajar \/ ReenviarSinRespuesta \/ ReenviarTransitorio
           \/ MarcarFalla \/ Reinicio
<1>1. ASSUME NEW s \in Llamada, NEW l \in Lote, Entregar(s, l) PROVE Aparte
  BY <1>1 DEF Entregar, Aparte, historia
<1>2. ASSUME NEW s \in Llamada, RecibirMensaje(s) PROVE Aparte
  <2>1. atiende[s] \in Mensaje /\ sello[s] \in Instante
    BY <1>2 DEF RecibirMensaje, Soltar, TypeOK
  <2>2. UNCHANGED <<buzon, tardios>> \/ Alta(atiende[s], sello[s])
    BY <1>2, <2>1 DEF RecibirMensaje, Guardar, Alta
  <2> QED BY <1>2, <2>1, <2>2 DEF RecibirMensaje, Aparte
<1>3. ASSUME NEW s \in Llamada, Responder(s) PROVE Aparte
  BY <1>3 DEF Responder, Aparte, historia
<1>4. ASSUME NEW s \in Llamada, GuardarFalla(s) PROVE Aparte
  BY <1>4 DEF GuardarFalla, Aparte, historia
<1>5. ASSUME NEW s \in Llamada, CortarLlamada(s) PROVE Aparte
  BY <1>5 DEF CortarLlamada, Aparte, historia
<1>6. ASSUME PasaDelay \/ UNCHANGED vars PROVE Aparte
  BY <1>6 DEF PasaDelay, vars, Aparte, historia
<1>7. ASSUME NEW s \in Llamada, NEW m \in Mensaje, Sellar(s, m) PROVE Aparte
  BY <1>7 DEF Sellar, Aparte, historia
<1> QED
  BY <1>1, <1>2, <1>3, <1>4, <1>5, <1>6, <1>7 DEF Next, Atender

\* An insertion leaves every other row alone.
LEMMA AltaEfecto ==
  ASSUME TypeOK, NEW m \in Mensaje, NEW i \in Instante, Alta(m, i)
  PROVE  /\ estado[m] = "ausente" /\ estado'[m] = "pendiente" /\ llego'[m] = i
         /\ \A n \in Mensaje \ {m} : estado'[n] = estado[n] /\ llego'[n] = llego[n]
BY DEF Alta, TypeOK, Filas

\* A mark leaves every row but the worker's alone.
LEMMA MarcarEfecto ==
  ASSUME TypeOK, Marcar
  PROVE  /\ actual \in lista /\ actual \in Mensaje
         /\ estado'[actual] = pc /\ pc \in {"reenviado", "fallido"}
         /\ \A n \in Mensaje \ {actual} : estado'[n] = estado[n]
BY DEF Marcar, TypeOK

\* No row is ever removed.
LEMMA FilasQuedan ==
  ASSUME TypeOK, [Next]_vars, NEW m \in Mensaje, estado[m] # "ausente"
  PROVE  estado'[m] # "ausente"
<1>1. CASE Aparte
  BY <1>1, AltaEfecto DEF Aparte, buzon
<1>2. CASE Marcar
  BY <1>2, MarcarEfecto
<1>3. CASE Tick \/ SinPermiso \/ ReenviarOk \/ ReenviarRechazado
  BY <1>3 DEF Tick, SinPermiso, ReenviarOk, ReenviarRechazado, buzon
<1>4. CASE ReenviarSinRespuesta \/ ReenviarTransitorio \/ MarcarFalla \/ Reinicio
  BY <1>4 DEF ReenviarSinRespuesta, ReenviarTransitorio, MarcarFalla, Reinicio, buzon
<1> QED BY <1>1, <1>2, <1>3, <1>4, Casos DEF Trabajar

-----------------------------------------------------------------------------
(* What has been acknowledged has a row *)

\* Whoever is done with a message without a failure leaves a row for it.
LEMMA RecibidaTieneFila ==
  ASSUME TypeOK, NEW s \in Llamada, RecibirMensaje(s)
  PROVE  atiende[s] \in Mensaje /\ estado'[atiende[s]] # "ausente"
BY DEF RecibirMensaje, Soltar, Guardar, TypeOK, Filas, buzon

LEMMA AcusadoPaso ==
  ASSUME TypeOK, AcusadoGuardado, EnCurso, [Next]_vars
  PROVE  AcusadoGuardado' /\ EnCurso'
<1>0. \A m \in Mensaje : estado[m] # "ausente" => estado'[m] # "ausente"
  BY FilasQuedan
<1>L. acusados \subseteq SUBSET Mensaje
      /\ \A s \in Llamada : lote[s] # SinLote => lote[s] \in SUBSET Mensaje
  BY DEF TypeOK, BuzonAssumption
<1>1. ASSUME UNCHANGED acusados PROVE AcusadoGuardado'
  BY <1>0, <1>1, <1>L DEF AcusadoGuardado
<1>2. ASSUME UNCHANGED <<lote, resto, bien>> PROVE EnCurso'
  BY <1>0, <1>2, <1>L DEF EnCurso
<1>3. ASSUME NEW s \in Llamada, NEW l \in Lote, Entregar(s, l)
      PROVE  AcusadoGuardado' /\ EnCurso'
  <2>1. AcusadoGuardado' BY <1>1, <1>3 DEF Entregar
  <2>2. ASSUME NEW r \in Llamada, lote'[r] # SinLote, bien'[r]
        PROVE  \A m \in lote'[r] \ (Invalido \cup resto'[r]) : estado'[m] # "ausente"
    <3>1. CASE r = s
      <4>1. lote'[r] = l /\ resto'[r] = l \ Invalido BY <1>3, <3>1 DEF Entregar, TypeOK
      <4> QED BY <4>1
    <3>2. CASE r # s
      <4>1. lote'[r] = lote[r] /\ resto'[r] = resto[r] /\ bien'[r] = bien[r]
        BY <1>3, <3>2 DEF Entregar, TypeOK
      <4> QED BY <1>0, <1>L, <2>2, <4>1 DEF EnCurso
    <3> QED BY <3>1, <3>2
  <2> QED BY <2>1, <2>2 DEF EnCurso
<1>4. ASSUME NEW s \in Llamada, RecibirMensaje(s)
      PROVE  AcusadoGuardado' /\ EnCurso'
  <2>1. AcusadoGuardado' BY <1>1, <1>4 DEF RecibirMensaje
  <2>2. estado'[atiende[s]] # "ausente"
    BY <1>4, RecibidaTieneFila
  <2>3. ASSUME NEW r \in Llamada, lote'[r] # SinLote, bien'[r],
               NEW n \in lote'[r] \ (Invalido \cup resto'[r])
        PROVE  estado'[n] # "ausente"
    <3>1. lote'[r] = lote[r] /\ bien'[r] = bien[r] /\ n \in Mensaje
      BY <1>4, <1>L, <2>3 DEF RecibirMensaje
    <3>2. n = atiende[s] \/ n \notin resto[r]
      BY <1>4, <2>3 DEF RecibirMensaje, Soltar, TypeOK
    <3> QED BY <1>0, <2>2, <2>3, <3>1, <3>2 DEF EnCurso
  <2> QED BY <2>1, <2>3 DEF EnCurso
<1>5. ASSUME NEW s \in Llamada, GuardarFalla(s)
      PROVE  AcusadoGuardado' /\ EnCurso'
  <2>1. AcusadoGuardado' BY <1>1, <1>5 DEF GuardarFalla
  <2>2. ASSUME NEW r \in Llamada, lote'[r] # SinLote, bien'[r]
        PROVE  r # s /\ lote'[r] = lote[r] /\ resto'[r] = resto[r] /\ bien'[r] = bien[r]
    BY <1>5, <2>2 DEF GuardarFalla, Soltar, TypeOK
  <2> QED BY <1>0, <1>L, <2>1, <2>2 DEF EnCurso
<1>12. ASSUME NEW s \in Llamada, NEW m \in Mensaje, Sellar(s, m)
       PROVE  AcusadoGuardado' /\ EnCurso'
  BY <1>1, <1>2, <1>12 DEF Sellar
<1>6. ASSUME NEW s \in Llamada, Colgar(s) PROVE EnCurso'
  <2>1. ASSUME NEW r \in Llamada, lote'[r] # SinLote
        PROVE  r # s /\ lote'[r] = lote[r] /\ resto'[r] = resto[r] /\ bien'[r] = bien[r]
    BY <1>6, <2>1 DEF Colgar, TypeOK
  <2> QED BY <1>0, <1>L, <2>1 DEF EnCurso
<1>7. ASSUME NEW s \in Llamada, Responder(s) PROVE AcusadoGuardado' /\ EnCurso'
  <2>1. EnCurso' BY <1>6, <1>7 DEF Responder
  <2>2. CASE bien[s]
    <3>1. lote[s] # SinLote /\ resto[s] = {} /\ acusados' = acusados \cup {lote[s]}
      BY <1>7, <2>2 DEF Responder
    <3>2. \A m \in lote[s] \ Invalido : estado[m] # "ausente"
      BY <2>2, <3>1 DEF EnCurso
    <3> QED BY <1>0, <1>L, <2>1, <3>1, <3>2 DEF AcusadoGuardado
  <2>3. CASE ~bien[s]
    BY <1>1, <1>7, <2>1, <2>3 DEF Responder
  <2> QED BY <2>2, <2>3
<1>8. ASSUME NEW s \in Llamada, CortarLlamada(s) PROVE AcusadoGuardado' /\ EnCurso'
  BY <1>1, <1>6, <1>8 DEF CortarLlamada
<1>9. CASE Trabajar
  BY <1>1, <1>2, <1>9 DEF Trabajar, Tick, SinPermiso, ReenviarOk, ReenviarRechazado,
     Marcar, recepcion
<1>10. CASE PasaDelay \/ ReenviarSinRespuesta \/ ReenviarTransitorio \/ MarcarFalla
            \/ UNCHANGED vars
  BY <1>1, <1>2, <1>10 DEF PasaDelay, ReenviarSinRespuesta, ReenviarTransitorio,
     MarcarFalla, vars, recepcion
<1>11. CASE Reinicio
  <2>1. AcusadoGuardado' BY <1>1, <1>11 DEF Reinicio
  <2>2. \A s \in Llamada : lote'[s] = SinLote BY <1>11 DEF Reinicio
  <2> QED BY <2>1, <2>2 DEF EnCurso
<1> QED
  BY <1>3, <1>4, <1>5, <1>7, <1>8, <1>9, <1>10, <1>11, <1>12 DEF Next, Atender
-----------------------------------------------------------------------------
(* The worker's pass, and what is given up *)

\* Moving on among pendientes keeps the shape of a pass.
LEMMA SeguirPasada ==
  ASSUME NEW quedan \in SUBSET Pendientes', Seguir(quedan), UNCHANGED llego
  PROVE  Pasada'
BY DEF Seguir, Pasada, Antes

LEMMA ReintentarPasada ==
  ASSUME TypeOK, Pasada, pc = "intentar", Reintentar, UNCHANGED buzon
  PROVE  Pasada'
<1>1. Pendientes' = Pendientes /\ llego' = llego
  BY DEF Pendientes, buzon
<1>2. CASE intentos + 1 < MaxAttempts
  <2>1. UNCHANGED <<pc, actual, lista>> BY <1>2 DEF Reintentar
  <2> QED BY <1>1, <2>1 DEF Pasada, Antes
<1>3. CASE ~(intentos + 1 < MaxAttempts)
  <2>1. Seguir(lista \ {actual}) BY <1>3 DEF Reintentar, Siguiente
  <2>2. lista \ {actual} \in SUBSET Pendientes' BY <1>1 DEF Pasada
  <2> QED BY <1>1, <2>1, <2>2, SeguirPasada
<1> QED BY <1>2, <1>3

LEMMA MarcarPasada == ASSUME TypeOK, Pasada, Marcar PROVE Pasada'
<1>1. Seguir(lista \ {actual}) /\ llego' = llego
  BY DEF Marcar, Siguiente
<1>2. lista \ {actual} \in SUBSET Pendientes'
  BY MarcarEfecto DEF Pasada, Pendientes
<1> QED BY <1>1, <1>2, SeguirPasada

LEMMA PasadaPaso == ASSUME TypeOK, Pasada, [Next]_vars PROVE Pasada'
<1>1. CASE Aparte
  <2>1. UNCHANGED <<pc, actual, lista>> BY <1>1 DEF Aparte, pasada
  <2>2. CASE UNCHANGED <<buzon, tardios>>
    BY <2>1, <2>2 DEF Pasada, Pendientes, Antes, buzon
  <2>3. CASE \E m \in Mensaje, i \in Instante : Alta(m, i)
    <3>1. PICK m \in Mensaje, i \in Instante : Alta(m, i) BY <2>3
    <3>2. m \notin lista /\ lista \subseteq Mensaje
      BY <3>1, AltaEfecto DEF Pasada, Pendientes
    <3>3. \A n \in lista : estado'[n] = estado[n] /\ llego'[n] = llego[n]
      BY <3>1, <3>2, AltaEfecto
    <3>4. lista' \subseteq Pendientes'
      BY <2>1, <3>2, <3>3 DEF Pasada, Pendientes
    <3>5. lista # {} => actual \in lista
      BY DEF TypeOK, Pasada
    <3>6. \A n \in lista : ~Antes(n, actual)'
      BY <2>1, <3>3, <3>5 DEF Pasada, Antes
    <3> QED BY <2>1, <3>4, <3>6 DEF Pasada
  <2> QED BY <1>1, <2>2, <2>3 DEF Aparte
<1>2. CASE Tick
  <2>1. PICK filas \in SUBSET Pendientes : Seguir(filas) BY <1>2 DEF Tick
  <2>2. Pendientes' = Pendientes /\ llego' = llego BY <1>2 DEF Tick, Pendientes, buzon
  <2> QED BY <2>1, <2>2, SeguirPasada
<1>3. CASE SinPermiso \/ ReenviarSinRespuesta \/ ReenviarTransitorio
  <2>1. pc = "intentar" /\ Reintentar /\ UNCHANGED buzon
    BY <1>3 DEF SinPermiso, ReenviarSinRespuesta, ReenviarTransitorio, Intentar
  <2> QED BY <2>1, ReintentarPasada
<1>4. CASE ReenviarOk
  <2>1. UNCHANGED <<estado, llego, actual, lista>> /\ pc = "intentar"
        /\ pc' = "reenviado" /\ actual \notin Rechazado
    BY <1>4 DEF ReenviarOk, Intentar, buzon
  <2> QED BY <2>1 DEF Pasada, Pendientes, Antes
<1>5. CASE ReenviarRechazado
  <2>1. UNCHANGED <<estado, llego, actual, lista>> /\ pc = "intentar"
        /\ pc' = "fallido" /\ actual \in Rechazado
    BY <1>5 DEF ReenviarRechazado, Intentar, buzon
  <2> QED BY <2>1 DEF Pasada, Pendientes, Antes
<1>6. CASE Marcar
  BY <1>6, MarcarPasada
<1>7. CASE MarcarFalla \/ Reinicio
  <2>1. pc' = "ocio" /\ lista' = {}
    BY <1>7 DEF MarcarFalla, Reinicio, SinPasada
  <2> QED BY <2>1 DEF Pasada
<1> QED BY <1>1, <1>2, <1>3, <1>4, <1>5, <1>6, <1>7, Casos DEF Trabajar

\* The rows change as inserted or as marked, and in no other way.
LEMMA EstadoPaso ==
  ASSUME TypeOK, [Next]_vars
  PROVE  \/ UNCHANGED estado \/ Marcar
         \/ \E m \in Mensaje, i \in Instante : Alta(m, i)
<1>1. CASE Aparte
  BY <1>1 DEF Aparte, buzon
<1>2. CASE Tick \/ SinPermiso \/ ReenviarOk \/ ReenviarRechazado
  BY <1>2 DEF Tick, SinPermiso, ReenviarOk, ReenviarRechazado, buzon
<1>3. CASE ReenviarSinRespuesta \/ ReenviarTransitorio \/ MarcarFalla \/ Reinicio
  BY <1>3 DEF ReenviarSinRespuesta, ReenviarTransitorio, MarcarFalla, Reinicio, buzon
<1> QED BY <1>1, <1>2, <1>3, Casos DEF Trabajar

LEMMA FallidoPaso ==
  ASSUME TypeOK, Pasada, FallidoPorRechazo, [Next]_vars PROVE FallidoPorRechazo'
<1>1. CASE UNCHANGED estado
  BY <1>1 DEF FallidoPorRechazo
<1>2. CASE \E m \in Mensaje, i \in Instante : Alta(m, i)
  BY <1>2, AltaEfecto DEF FallidoPorRechazo
<1>3. CASE Marcar
  BY <1>3, MarcarEfecto DEF FallidoPorRechazo, Pasada
<1> QED BY <1>1, <1>2, <1>3, EstadoPaso

LEMMA FinalPaso ==
  ASSUME TypeOK, Pasada, [Next]_vars, NEW m \in Mensaje,
         estado[m] \in {"reenviado", "fallido"}
  PROVE  estado'[m] = estado[m]
<1>1. CASE UNCHANGED estado
  BY <1>1
<1>2. CASE \E n \in Mensaje, i \in Instante : Alta(n, i)
  BY <1>2, AltaEfecto
<1>3. CASE Marcar
  <2>1. actual # m BY <1>3, MarcarEfecto DEF Pasada, Pendientes
  <2> QED BY <1>3, <2>1, MarcarEfecto
<1> QED BY <1>1, <1>2, <1>3, EstadoPaso
-----------------------------------------------------------------------------
(* Every turn of the store is accounted for *)

\* A message that is not the worker's keeps its account.
LEMMA OtroIgual ==
  ASSUME TypeOK, TurnosExplicados, NEW m \in Mensaje,
         turnos'[m] = turnos[m], sinAcuse'[m] = sinAcuse[m],
         estado'[m] = "reenviado" <=> estado[m] = "reenviado",
         (pc' = "reenviado" /\ actual' = m) <=> (pc = "reenviado" /\ actual = m)
  PROVE  turnos'[m] = sinAcuse'[m]
                      + (IF estado'[m] = "reenviado" THEN 1 ELSE 0)
                      + (IF pc' = "reenviado" /\ actual' = m THEN 1 ELSE 0)
BY DEF TurnosExplicados

\* Moving on leaves no answer to mark.
LEMMA SeguirSinMarca ==
  ASSUME TypeOK, Reintentar \/ Siguiente, pc = "intentar" \/ Siguiente
  PROVE  pc' # "reenviado"
BY DEF Reintentar, Siguiente, Seguir

LEMMA TurnosPaso ==
  ASSUME TypeOK, Pasada, TurnosExplicados, [Next]_vars PROVE TurnosExplicados'
<1> DEFINE Cuenta(m) ==
      turnos'[m] = sinAcuse'[m]
                   + (IF estado'[m] = "reenviado" THEN 1 ELSE 0)
                   + (IF pc' = "reenviado" /\ actual' = m THEN 1 ELSE 0)
<1>0. SUFFICES ASSUME NEW m \in Mensaje PROVE Cuenta(m)
  BY DEF TurnosExplicados
<1>T. turnos[m] \in Nat /\ sinAcuse[m] \in Nat
  BY DEF TypeOK
<1>1. CASE Aparte
  <2>1. UNCHANGED <<turnos, sinAcuse, pc, actual>>
    BY <1>1 DEF Aparte, pasada, historia
  <2>2. estado'[m] = "reenviado" <=> estado[m] = "reenviado"
    BY <1>1, AltaEfecto DEF Aparte, buzon
  <2> QED BY <2>1, <2>2, OtroIgual
<1>2. CASE Tick
  <2>1. UNCHANGED <<turnos, sinAcuse, estado>> /\ pc = "ocio"
    BY <1>2 DEF Tick, historia, buzon
  <2>2. pc' # "reenviado" BY <1>2 DEF Tick, Seguir
  <2> QED BY <2>1, <2>2, OtroIgual
<1>3. CASE SinPermiso \/ ReenviarTransitorio
  <2>1. UNCHANGED <<turnos, sinAcuse, estado>> /\ pc = "intentar" /\ Reintentar
    BY <1>3 DEF SinPermiso, ReenviarTransitorio, Intentar, historia, buzon
  <2>2. pc' # "reenviado" BY <2>1, SeguirSinMarca
  <2> QED BY <2>1, <2>2, OtroIgual
<1>4. CASE ReenviarSinRespuesta
  <2>1. /\ pc = "intentar" /\ Reintentar /\ UNCHANGED estado
        /\ turnos' = [turnos EXCEPT ![actual] = @ + 1]
        /\ sinAcuse' = [sinAcuse EXCEPT ![actual] = @ + 1]
    BY <1>4 DEF ReenviarSinRespuesta, Intentar, buzon
  <2>2. pc' # "reenviado" BY <2>1, SeguirSinMarca
  <2>3. CASE m = actual
    <3>1. turnos'[m] = turnos[m] + 1 /\ sinAcuse'[m] = sinAcuse[m] + 1
      BY <2>1, <2>3 DEF TypeOK
    <3> QED BY <1>T, <2>1, <2>2, <3>1 DEF TurnosExplicados
  <2>4. CASE m # actual
    <3>1. turnos'[m] = turnos[m] /\ sinAcuse'[m] = sinAcuse[m]
      BY <2>1, <2>4 DEF TypeOK
    <3> QED BY <2>1, <2>2, <3>1, OtroIgual
  <2> QED BY <2>3, <2>4
<1>5. CASE ReenviarOk
  <2>1. /\ pc = "intentar" /\ pc' = "reenviado"
        /\ UNCHANGED <<estado, actual, sinAcuse>>
        /\ turnos' = [turnos EXCEPT ![actual] = @ + 1]
    BY <1>5 DEF ReenviarOk, Intentar, buzon, historia
  <2>2. CASE m = actual
    <3>1. turnos'[m] = turnos[m] + 1
      BY <2>1, <2>2 DEF TypeOK
    <3>2. estado[m] = "pendiente"
      BY <2>1, <2>2 DEF Pasada, Pendientes, TypeOK
    <3> QED BY <1>T, <2>1, <2>2, <3>1, <3>2 DEF TurnosExplicados
  <2>3. CASE m # actual
    <3>1. turnos'[m] = turnos[m] BY <2>1, <2>3 DEF TypeOK
    <3> QED BY <2>1, <2>3, <3>1, OtroIgual
  <2> QED BY <2>2, <2>3
<1>6. CASE ReenviarRechazado
  <2>1. UNCHANGED <<turnos, sinAcuse, estado>> /\ pc = "intentar" /\ pc' = "fallido"
    BY <1>6 DEF ReenviarRechazado, Intentar, historia, buzon
  <2> QED BY <2>1, OtroIgual
<1>7. CASE Marcar
  <2>1. UNCHANGED <<turnos, sinAcuse>> /\ Siguiente
    BY <1>7 DEF Marcar, historia
  <2>2. pc' # "reenviado" BY <2>1, SeguirSinMarca
  <2>3. CASE m = actual
    <3>1. estado[m] = "pendiente" /\ estado'[m] = pc
      BY <1>7, <2>3, MarcarEfecto DEF Pasada, Pendientes
    <3>2. pc = "reenviado" \/ pc = "fallido" BY <1>7, MarcarEfecto
    <3> QED BY <1>T, <2>1, <2>2, <2>3, <3>1, <3>2 DEF TurnosExplicados
  <2>4. CASE m # actual
    <3>1. estado'[m] = estado[m] BY <1>7, <2>4, MarcarEfecto
    <3> QED BY <2>1, <2>2, <2>4, <3>1, OtroIgual
  <2> QED BY <2>3, <2>4
<1>8. CASE MarcarFalla \/ Reinicio
  <2>1. UNCHANGED <<turnos, estado>> /\ pc' = "ocio" /\ Olvido
    BY <1>8 DEF MarcarFalla, Reinicio, SinPasada, buzon
  <2>2. CASE pc = "reenviado" /\ actual = m
    <3>1. sinAcuse'[m] = sinAcuse[m] + 1
      BY <2>1, <2>2 DEF Olvido, TypeOK
    <3>2. estado[m] # "reenviado"
      BY <2>2 DEF Pasada, Pendientes, TypeOK
    <3> QED BY <1>T, <2>1, <2>2, <3>1, <3>2 DEF TurnosExplicados
  <2>3. CASE ~(pc = "reenviado" /\ actual = m)
    <3>1. sinAcuse'[m] = sinAcuse[m] BY <2>1, <2>3 DEF Olvido, TypeOK
    <3> QED BY <2>1, <2>3, <3>1, OtroIgual
  <2> QED BY <2>2, <2>3
<1> QED
  BY <1>1, <1>2, <1>3, <1>4, <1>5, <1>6, <1>7, <1>8, Casos DEF Trabajar

-----------------------------------------------------------------------------
(* Nobody is overtaken without having had a turn *)

\* An older stamp that is no prefix of the newer one also sorts before it.
LEMMA OrdenDeTexto ==
  ASSUME TypeOK, NEW m \in Mensaje, NEW n \in Mensaje,
         Anterior(llego[m], llego[n]), ~EsPrefijo(llego[m], llego[n])
  PROVE  Antes(m, n)
<1> DEFINE a == llego[m]
           b == llego[n]
<1>1. CASE a.seg < b.seg
  BY <1>1 DEF Antes
<1>2. CASE ~(a.seg < b.seg)
  <2>1. PICK k \in 1 .. Cifras : Comparten(a, b, k) /\ a.frac[k] < b.frac[k]
    BY <1>2 DEF Anterior
  <2>2. a.frac[k] \in 0 .. MaxCifra /\ b.frac[k] \in 0 .. MaxCifra
    BY DEF TypeOK, Instante
  <2>3. ~Recortado(b, k)
    <3>1. b.frac[k] # 0 BY <2>1, <2>2 DEF BuzonAssumption
    <3>2. k >= k BY DEF BuzonAssumption
    <3> QED BY <3>1, <3>2 DEF Recortado
  <2>4. ~Recortado(a, k)
    BY <2>1, <2>3 DEF EsPrefijo
  <2> QED BY <2>1, <2>4 DEF Antes
<1> QED BY <1>1, <1>2

\* When neither the rows nor the store move, nor a tried message is untried,
\* nothing is overtaken anew.
LEMMA MismoOrden ==
  ASSUME AdelantoConCausa, UNCHANGED <<buzon, turnos, tardios>>,
         pospuestos \subseteq pospuestos'
  PROVE  AdelantoConCausa'
BY DEF AdelantoConCausa, Filas, buzon

\* The order of arrivals as the pass sees it, when the pass only shrinks and
\* drops no message that was never tried.
LEMMA PasadaMenor ==
  ASSUME Llegadas, TypeOK,
         lista' \subseteq lista, UNCHANGED <<llego, tardios>>,
         \A m \in Mensaje : estado'[m] = "ausente" <=> estado[m] = "ausente",
         \A m \in Mensaje : turnos'[m] > 0 => m \in Filas,
         \A m \in Mensaje : SinTocar(m)' => SinTocar(m) /\ (m \in lista => m \in lista')
  PROVE  Llegadas'
<1>1. Filas' = Filas BY DEF Filas
<1>2. \A m, n \in Mensaje : Antes(m, n)' <=> Antes(m, n)
  BY DEF Antes
<1>3. lista \subseteq Mensaje BY DEF TypeOK
<1> HIDE DEF Antes, Anterior
<1> QED BY <1>1, <1>2, <1>3 DEF Llegadas

LEMMA OrdenPaso ==
  ASSUME TypeOK, Pasada, Llegadas, AdelantoConCausa, [Next]_vars
  PROVE  AdelantoConCausa' /\ Llegadas'
<1>0. \A m \in Mensaje : turnos[m] > 0 => m \in Filas
  BY DEF Llegadas
<1>1. CASE Aparte
  <2>1. UNCHANGED <<lista, turnos, pospuestos>>
    BY <1>1 DEF Aparte, pasada
  <2>2. CASE UNCHANGED <<buzon, tardios>>
    <3>1. AdelantoConCausa' BY <2>1, <2>2, MismoOrden
    <3>2. \A m \in Mensaje : SinTocar(m)' <=> SinTocar(m)
      BY <2>1, <2>2 DEF SinTocar, buzon
    <3> QED BY <1>0, <2>1, <2>2, <3>1, <3>2, PasadaMenor DEF buzon
  <2>3. CASE \E m \in Mensaje, i \in Instante : Alta(m, i)
    <3>1. PICK a \in Mensaje, i \in Instante : Alta(a, i) BY <2>3
    <3>2. /\ estado[a] = "ausente" /\ estado'[a] = "pendiente" /\ llego'[a] = i
          /\ \A n \in Mensaje \ {a} : estado'[n] = estado[n] /\ llego'[n] = llego[n]
          /\ tardios' = tardios \cup ({a} \X Alcanzados(i))
      BY <3>1, AltaEfecto DEF Alta
    <3>3. a \notin Filas /\ Filas' = Filas \cup {a} /\ a \notin lista
      BY <3>2 DEF Filas, Pasada, Pendientes
    <3>4. lista \subseteq Filas
      BY DEF Pasada, Pendientes, Filas
    <3>5. \A n \in Filas :
            (n \in lista \/ turnos[n] > 0) /\ Anterior(i, llego[n]) => <<a, n>> \in tardios'
      BY <3>2 DEF Alcanzados
    <3>6. AdelantoConCausa'
      <4> SUFFICES ASSUME NEW m \in Filas', NEW n \in Filas',
                          Anterior(llego'[m], llego'[n]), estado'[m] = "pendiente",
                          turnos'[m] = 0, turnos'[n] > 0
                   PROVE  \/ m \in pospuestos' \/ <<m, n>> \in tardios'
                          \/ EsPrefijo(llego'[m], llego'[n])
        BY DEF AdelantoConCausa, EsPrefijo, Anterior, Comparten, Recortado
      <4>1. n \in Filas /\ n # a /\ n \in Mensaje /\ llego'[n] = llego[n]
        BY <1>0, <2>1, <3>2, <3>3 DEF Filas
      <4>2. CASE m = a
        BY <2>1, <3>2, <3>5, <4>1, <4>2
      <4>3. CASE m # a
        <5>1. m \in Filas /\ m \in Mensaje BY <3>3, <4>3 DEF Filas
        <5>2. llego'[m] = llego[m] /\ estado[m] = "pendiente" /\ turnos[m] = 0
              /\ turnos[n] > 0
          BY <2>1, <3>2, <4>3, <5>1
        <5> QED BY <2>1, <3>2, <4>1, <5>1, <5>2 DEF AdelantoConCausa
      <4> QED BY <4>2, <4>3
    <3>7. ASSUME NEW m \in Mensaje \ lista, SinTocar(m)', NEW n \in lista,
                 Anterior(llego'[m], llego'[n]), Antes(m, n)'
          PROVE  <<m, n>> \in tardios'
      <4>1. n \in Filas /\ n # a /\ n \in Mensaje /\ llego'[n] = llego[n]
        BY <3>2, <3>3, <3>4 DEF Filas
      <4>2. CASE m = a
        BY <3>2, <3>5, <3>7, <4>1, <4>2
      <4>3. CASE m # a
        <5>1. SinTocar(m) /\ llego'[m] = llego[m]
          BY <2>1, <3>2, <3>7, <4>3 DEF SinTocar
        <5>2. Antes(m, n) BY <3>7, <4>1, <5>1 DEF Antes
        <5> QED BY <3>2, <3>7, <4>1, <5>1, <5>2 DEF Llegadas
      <4> QED BY <4>2, <4>3
    <3>8. \A m \in Mensaje : turnos'[m] > 0 => m \in Filas'
      BY <1>0, <2>1, <3>3
    <3>9. Llegadas'
      BY <2>1, <3>7, <3>8 DEF Llegadas, Anterior, Comparten
    <3> QED BY <3>6, <3>9
  <2> QED BY <1>1, <2>2, <2>3 DEF Aparte
<1>2. CASE Tick
  <2>1. PICK filas \in SUBSET Pendientes : Primeras(filas) /\ Seguir(filas)
    BY <1>2 DEF Tick
  <2>2. UNCHANGED <<buzon, turnos, pospuestos, tardios>> /\ lista' = filas
    BY <1>2, <2>1 DEF Tick, Seguir, historia
  <2>3. AdelantoConCausa' BY <2>2, MismoOrden
  <2>4. \A m \in Mensaje \ filas : SinTocar(m) => \A n \in filas : ~Antes(m, n)
    BY <2>1 DEF Primeras, SinTocar, Pendientes
  <2>5. Filas' = Filas /\ \A m \in Mensaje : SinTocar(m)' <=> SinTocar(m)
    BY <2>2 DEF Filas, SinTocar, buzon
  <2>6. \A m, n \in Mensaje : Antes(m, n)' <=> Antes(m, n)
    BY <2>2 DEF Antes, buzon
  <2>7. filas \subseteq Mensaje BY DEF Pendientes
  <2>8. \A m \in Mensaje \ filas : SinTocar(m)' => \A n \in filas : ~Antes(m, n)'
    BY <2>4, <2>5, <2>6, <2>7
  <2> QED BY <1>0, <2>2, <2>3, <2>5, <2>8 DEF Llegadas
<1>3. ASSUME pc = "intentar", Reintentar, UNCHANGED <<buzon, tardios>>,
             \A m \in Mensaje : turnos'[m] = 0 => turnos[m] = 0,
             \A m \in Mensaje : turnos'[m] > 0 => m \in Filas
      PROVE  Llegadas' /\ pospuestos \subseteq pospuestos'
  <2>1. \/ UNCHANGED <<lista, pospuestos>>
        \/ lista' = lista \ {actual} /\ pospuestos' = pospuestos \cup {actual}
    BY <1>3 DEF Reintentar, Siguiente, Seguir
  <2>2. \A m \in Mensaje : SinTocar(m)' => SinTocar(m) /\ (m \in lista => m \in lista')
    BY <1>3, <2>1 DEF SinTocar, buzon
  <2> QED BY <1>3, <2>1, <2>2, PasadaMenor DEF buzon
<1>4. CASE SinPermiso \/ ReenviarTransitorio
  <2>1. pc = "intentar" /\ Reintentar /\ UNCHANGED <<buzon, turnos, tardios>>
    BY <1>4 DEF SinPermiso, ReenviarTransitorio, Intentar
  <2> QED BY <1>0, <1>3, <2>1, MismoOrden
<1>5. ASSUME actual \in lista, UNCHANGED <<buzon, tardios>>,
             turnos' = [turnos EXCEPT ![actual] = @ + 1],
             pospuestos \subseteq pospuestos'
      PROVE  /\ AdelantoConCausa'
             /\ \A m \in Mensaje : turnos'[m] = 0 => turnos[m] = 0
             /\ \A m \in Mensaje : turnos'[m] > 0 => m \in Filas
  <2>1. actual \in Mensaje /\ actual \in Filas /\ turnos[actual] \in Nat
    BY <1>5 DEF TypeOK, Pasada, Pendientes, Filas
  <2>2. turnos'[actual] = turnos[actual] + 1
        /\ \A m \in Mensaje \ {actual} : turnos'[m] = turnos[m]
    BY <1>5, <2>1 DEF TypeOK
  <2>3. ASSUME NEW m \in Filas, NEW n \in Filas, Anterior(llego[m], llego[n]),
               estado[m] = "pendiente", turnos'[m] = 0, turnos'[n] > 0
        PROVE  m \in pospuestos \/ <<m, n>> \in tardios \/ EsPrefijo(llego[m], llego[n])
    <3>1. m # actual /\ turnos[m] = 0 /\ m \in Mensaje /\ n \in Mensaje
      BY <2>1, <2>2, <2>3 DEF Filas
    <3>2. CASE n # actual
      BY <2>2, <2>3, <3>1, <3>2 DEF AdelantoConCausa
    <3>3. CASE n = actual /\ ~EsPrefijo(llego[m], llego[n])
      <4>1. Antes(m, actual) BY <2>3, <3>1, <3>3, OrdenDeTexto
      <4>2. m \notin lista BY <4>1 DEF Pasada
      <4> QED BY <1>5, <2>3, <3>1, <3>3, <4>1, <4>2 DEF Llegadas, SinTocar
    <3> QED BY <3>2, <3>3
  <2>4. AdelantoConCausa'
    <3>1. Filas' = Filas /\ estado' = estado /\ llego' = llego
      BY <1>5 DEF Filas, buzon
    <3> SUFFICES ASSUME NEW m \in Filas, NEW n \in Filas, Anterior(llego[m], llego[n]),
                        estado[m] = "pendiente", turnos'[m] = 0, turnos'[n] > 0
                 PROVE  \/ m \in pospuestos' \/ <<m, n>> \in tardios'
                        \/ EsPrefijo(llego[m], llego[n])
      BY <3>1 DEF AdelantoConCausa, EsPrefijo, Anterior, Comparten, Recortado
    <3> QED BY <1>5, <2>3
  <2>5. \A m \in Mensaje : turnos'[m] = 0 => turnos[m] = 0
    BY <2>1, <2>2
  <2> QED BY <1>0, <2>1, <2>2, <2>4, <2>5
<1>6. CASE ReenviarSinRespuesta
  <2>1. /\ pc = "intentar" /\ Reintentar /\ UNCHANGED <<buzon, tardios>>
        /\ turnos' = [turnos EXCEPT ![actual] = @ + 1]
    BY <1>6 DEF ReenviarSinRespuesta, Intentar
  <2>2. actual \in lista /\ pospuestos \subseteq pospuestos'
    BY <2>1 DEF TypeOK, Reintentar
  <2> QED BY <1>3, <1>5, <2>1, <2>2
<1>7. CASE ReenviarOk
  <2>1. /\ pc = "intentar" /\ UNCHANGED <<buzon, lista, pospuestos, tardios>>
        /\ turnos' = [turnos EXCEPT ![actual] = @ + 1]
    BY <1>7 DEF ReenviarOk, Intentar, historia
  <2>2. actual \in lista BY <2>1 DEF TypeOK
  <2>3. /\ AdelantoConCausa'
        /\ \A m \in Mensaje : turnos'[m] = 0 => turnos[m] = 0
        /\ \A m \in Mensaje : turnos'[m] > 0 => m \in Filas
    BY <1>5, <2>1, <2>2
  <2>4. \A m \in Mensaje : SinTocar(m)' => SinTocar(m)
    BY <2>1, <2>3 DEF SinTocar, buzon
  <2> QED BY <2>1, <2>3, <2>4, PasadaMenor DEF buzon
<1>8. CASE ReenviarRechazado
  <2>1. UNCHANGED <<buzon, turnos, lista, pospuestos, tardios>>
    BY <1>8 DEF ReenviarRechazado, historia
  <2>2. \A m \in Mensaje : SinTocar(m)' => SinTocar(m)
    BY <2>1 DEF SinTocar, buzon
  <2> QED BY <1>0, <2>1, <2>2, PasadaMenor, MismoOrden DEF buzon
<1>9. CASE Marcar
  <2>1. /\ UNCHANGED <<llego, turnos, pospuestos, tardios>> /\ lista' = lista \ {actual}
    BY <1>9 DEF Marcar, Siguiente, Seguir, historia
  <2>2. /\ estado[actual] = "pendiente" /\ estado'[actual] \in {"reenviado", "fallido"}
        /\ \A m \in Mensaje \ {actual} : estado'[m] = estado[m]
    BY <1>9, MarcarEfecto DEF Pasada, Pendientes
  <2>3. Filas' = Filas BY <2>2 DEF Filas
  <2>4. AdelantoConCausa'
    <3> SUFFICES ASSUME NEW m \in Filas, NEW n \in Filas, Anterior(llego[m], llego[n]),
                        estado'[m] = "pendiente", turnos[m] = 0, turnos[n] > 0
                 PROVE  \/ m \in pospuestos \/ <<m, n>> \in tardios
                        \/ EsPrefijo(llego[m], llego[n])
      BY <2>1, <2>3 DEF AdelantoConCausa, EsPrefijo, Anterior, Comparten, Recortado
    <3>1. estado[m] = "pendiente" BY <2>2 DEF Filas
    <3> QED BY <3>1 DEF AdelantoConCausa
  <2>5. \A m \in Mensaje : SinTocar(m)' => SinTocar(m) /\ (m \in lista => m \in lista')
    BY <2>1, <2>2 DEF SinTocar
  <2>6. \A m \in Mensaje : estado'[m] = "ausente" <=> estado[m] = "ausente"
    BY <2>2
  <2> QED BY <1>0, <2>1, <2>4, <2>5, <2>6, PasadaMenor
<1>10. CASE MarcarFalla \/ Reinicio
  <2>1. UNCHANGED <<buzon, turnos, pospuestos, tardios>> /\ lista' = {}
    BY <1>10 DEF MarcarFalla, Reinicio, SinPasada
  <2>2. AdelantoConCausa' BY <2>1, MismoOrden
  <2> QED BY <2>1, <2>2 DEF Llegadas, Filas, buzon
<1> QED
  BY <1>1, <1>2, <1>4, <1>6, <1>7, <1>8, <1>9, <1>10, Casos DEF Trabajar
-----------------------------------------------------------------------------
(* The theorems *)

LEMMA InitInv == Init => IInv
<1> SUFFICES ASSUME Init PROVE IInv OBVIOUS
<1>1. TypeOK BY InitTipo
<1>2. AcusadoGuardado /\ FallidoPorRechazo /\ EnCurso
  BY DEF Init, AcusadoGuardado, FallidoPorRechazo, EnCurso
<1>3. TurnosExplicados
  BY DEF Init, TurnosExplicados
<1>4. Filas = {} BY DEF Init, Filas
<1>5. AdelantoConCausa BY <1>4 DEF AdelantoConCausa
<1>6. Pasada BY DEF Init, Pasada
<1>7. Llegadas
  BY <1>4 DEF Init, Llegadas
<1> QED BY <1>1, <1>2, <1>3, <1>5, <1>6, <1>7 DEF IInv

LEMMA PasoInv == IInv /\ [Next]_vars => IInv'
BY PasoTipo, AcusadoPaso, FallidoPaso, TurnosPaso, OrdenPaso, PasadaPaso DEF IInv

\* Every reachable state of the mailbox satisfies the whole invariant, its
\* type included: rows, calls, the pass and the store's turns fit together.
THEOREM BuzonInvariante == Spec => []IInv
BY InitInv, PasoInv, PTL DEF Spec

\* A batch Meta was answered 200 for has a row for each of its valid messages,
\* however many deliveries of it failed or ran at the same time.
THEOREM NoSePierde == Spec => []AcusadoGuardado
<1>1. IInv => AcusadoGuardado BY DEF IInv
<1> QED BY <1>1, BuzonInvariante, PTL

\* Only the store's own refusal makes a message fallido: no outage, lost
\* answer, open breaker or restart does.
THEOREM NoSeAbandona == Spec => []FallidoPorRechazo
<1>1. IInv => FallidoPorRechazo BY DEF IInv
<1> QED BY <1>1, BuzonInvariante, PTL

\* The store processes a message once, plus once for each answer or mark that
\* was lost on this side.
THEOREM RepeticionesContadas == Spec => []TurnosExplicados
<1>1. IInv => TurnosExplicados BY DEF IInv
<1> QED BY <1>1, BuzonInvariante, PTL

\* Messages reach the store in the order of the clock the webhook read, but
\* for those a pass tried and had to leave behind, those inserted when a later
\* one was already on its way, and those whose trimmed stamp is a prefix of the
\* later one's: whatever the number of digits, with ties among stamps.
THEOREM EnOrden == Spec => []AdelantoConCausa
<1>1. IInv => AdelantoConCausa BY DEF IInv
<1> QED BY <1>1, BuzonInvariante, PTL

\* What is reenviado or fallido never changes again: no redelivery or restart
\* brings a message back to the queue.
THEOREM FinalParaSiempre == Spec => TerminadoEsFinal
<1>1. IInv /\ [Next]_vars
        => [\A m \in Mensaje :
              estado[m] \in {"reenviado", "fallido"} => estado'[m] = estado[m]]_vars
  BY FinalPaso DEF IInv
<1> QED BY <1>1, BuzonInvariante, PTL DEF Spec, TerminadoEsFinal
=============================================================================
