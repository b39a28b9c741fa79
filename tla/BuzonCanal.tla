------------------------------ MODULE BuzonCanal ------------------------------
(***************************************************************************)
(* The WhatsApp mailbox of the edge server: Meta delivers batches until it *)
(* reads a 200, each message is inserted once per wamid, and one worker    *)
(* forwards what is pendiente to the store, with retries and a circuit     *)
(* breaker that outlives the pass.                                         *)
(***************************************************************************)
EXTENDS Naturals, FiniteSets

CONSTANTS
  Mensaje,      \* wamids
  Lote,         \* what one webhook call carries: sets of messages
  SinLote,      \* a webhook slot with no call in it
  Ninguno,      \* the worker is at no message
  Llamada,      \* concurrent webhook calls
  Invalido,     \* messages NewMensajeEntrante rejects
  Rechazado,    \* messages the store answers with a permanent 4xx
  Limite,       \* ReenvioWorkerConfig.Batch
  MaxAttempts,  \* RetryConfig.MaxAttempts
  Umbral,       \* CircuitConfig.FailureThreshold
  Exitos,       \* CircuitConfig.SuccessThreshold
  Cifras,       \* digits of a second's fraction: 9 in the code
  MaxCifra,     \* bound: the largest digit
  MaxSeg,       \* bound: seconds the clock goes through
  MaxFallas     \* bound: failed calls, lost answers and restarts

ASSUME BuzonAssumption ==
  /\ Lote \subseteq SUBSET Mensaje /\ SinLote \notin Lote
  /\ Ninguno \notin Mensaje
  /\ Invalido \subseteq Mensaje /\ Rechazado \subseteq Mensaje
  /\ Limite \in Nat \ {0} /\ MaxAttempts \in Nat \ {0}
  /\ Umbral \in Nat \ {0} /\ Exitos \in Nat \ {0} /\ MaxFallas \in Nat
  /\ Cifras \in Nat /\ MaxCifra \in Nat /\ MaxSeg \in Nat

VARIABLES
  acusados,   \* batches for which Meta has read a 200
  lote,       \* [Llamada -> its batch]
  resto,      \* [Llamada -> valid messages of it not processed yet]
  bien,       \* [Llamada -> no storage failure so far]
  atiende,    \* [Llamada -> the message it is processing, or Ninguno]
  sello,      \* [Llamada -> the RecibidoEn it read for that message]
  estado,     \* [Mensaje -> its ESTADO, or "ausente" with no row]
  llego,      \* [Mensaje -> its RECIBIDO_EN, Cero with no row]
  pc,         \* what the worker does with the message it is at
  actual,     \* that message
  lista,      \* what is left of the pass, actual included
  intentos,   \* attempts spent on it
  circuito,   \* [modo, cuenta]: the breaker and its consecutive outcomes
  plazo,      \* the delay of the open breaker has passed
  turnos,     \* [Mensaje -> times the store has processed it]
  sinAcuse,   \* history: [Mensaje -> times that went unrecorded here]
  pospuestos, \* history: messages a pass tried and left pendiente
  tardios,    \* history: <<m, n>> with m inserted after the pass had taken or
              \* the store had seen n, stamped later than m
  fallas

recepcion == <<acusados, lote, resto, bien, atiende, sello>>
buzon == <<estado, llego>>
pasada == <<pc, actual, lista, intentos>>
breaker == <<circuito, plazo>>
historia == <<sinAcuse, pospuestos, tardios>>
vars == <<recepcion, buzon, pasada, breaker, turnos, historia, fallas>>

\* EstadoReenvio, with "ausente" for no row.
Estado == {"ausente", "pendiente", "reenviado", "fallido"}
Cerrado == [modo |-> "cerrado", cuenta |-> 0]
Abierto == [modo |-> "abierto", cuenta |-> 0]

\* An instant: its second, and the digits of the fraction.
Instante == [seg: 0 .. MaxSeg, frac: [1 .. Cifras -> 0 .. MaxCifra]]
Cero == [seg |-> 0, frac |-> [k \in 1 .. Cifras |-> 0]]

\* The digits of a and b before the k-th are the same.
Comparten(a, b, k) ==
  a.seg = b.seg /\ \A j \in 1 .. Cifras : j < k => a.frac[j] = b.frac[j]

\* The order of time.
Anterior(a, b) ==
  \/ a.seg < b.seg
  \/ \E k \in 1 .. Cifras : Comparten(a, b, k) /\ a.frac[k] < b.frac[k]

\* formatUTC writes no digit from the k-th on: they are zeros.
Recortado(a, k) == \A j \in 1 .. Cifras : j >= k => a.frac[j] = 0

Init ==
  /\ acusados = {}
  /\ lote = [s \in Llamada |-> SinLote]
  /\ resto = [s \in Llamada |-> {}]
  /\ bien = [s \in Llamada |-> TRUE]
  /\ atiende = [s \in Llamada |-> Ninguno]
  /\ sello = [s \in Llamada |-> Cero]
  /\ estado = [m \in Mensaje |-> "ausente"]
  /\ llego = [m \in Mensaje |-> Cero]
  /\ pc = "ocio" /\ actual = Ninguno /\ lista = {} /\ intentos = 0
  /\ circuito = Cerrado /\ plazo = FALSE
  /\ turnos = [m \in Mensaje |-> 0]
  /\ sinAcuse = [m \in Mensaje |-> 0]
  /\ pospuestos = {} /\ tardios = {}
  /\ fallas = 0

Falla == fallas < MaxFallas /\ fallas' = fallas + 1

-----------------------------------------------------------------------------
(* The webhook *)

\* Meta delivers a batch it has no 200 for, perhaps while an earlier delivery
\* of it is still being served.  The invalid messages of it are logged and
\* dropped: they change nothing.
Entregar(s, l) ==
  /\ lote[s] = SinLote /\ l \notin acusados
  /\ lote' = [lote EXCEPT ![s] = l]
  /\ resto' = [resto EXCEPT ![s] = l \ Invalido]
  /\ bien' = [bien EXCEPT ![s] = TRUE]
  /\ UNCHANGED <<acusados, atiende, sello, buzon, pasada, breaker, turnos, historia, fallas>>

Filas == {m \in Mensaje : estado[m] # "ausente"}

\* The readings of the clock that are still somewhere.
Leidos ==
  {llego[m] : m \in Filas} \cup {sello[s] : s \in {r \in Llamada : atiende[r] # Ninguno}}

\* procesarMensaje takes up a message and reads the clock for it: another call
\* may read it later and store first, or read the same instant.
Sellar(s, m) ==
  /\ m \in resto[s] /\ atiende[s] = Ninguno
  /\ atiende' = [atiende EXCEPT ![s] = m]
  /\ \E i \in Instante :
       /\ \A j \in Leidos : ~Anterior(i, j)
       /\ sello' = [sello EXCEPT ![s] = i]
  /\ UNCHANGED <<acusados, lote, resto, bien, buzon, pasada, breaker, turnos,
                 historia, fallas>>

\* Later rows the worker or the store already has.
Alcanzados(i) ==
  {n \in Filas : (n \in lista \/ turnos[n] > 0) /\ Anterior(i, llego[n])}

\* Repo.Guardar: the INSERT that does nothing on a wamid it has.
Guardar(m, i) ==
  \/ /\ m \notin Filas
     /\ estado' = [estado EXCEPT ![m] = "pendiente"]
     /\ llego' = [llego EXCEPT ![m] = i]
     /\ tardios' = tardios \cup ({m} \X Alcanzados(i))
  \/ /\ m \in Filas
     /\ UNCHANGED <<buzon, tardios>>

\* The call is done with the message it is at.
Soltar(s) ==
  /\ atiende[s] # Ninguno
  /\ resto' = [resto EXCEPT ![s] = @ \ {atiende[s]}]
  /\ atiende' = [atiende EXCEPT ![s] = Ninguno]
  /\ sello' = [sello EXCEPT ![s] = Cero]

\* RecibirMensaje, with the reading it was given.
RecibirMensaje(s) ==
  /\ Soltar(s)
  /\ Guardar(atiende[s], sello[s])
  /\ UNCHANGED <<acusados, lote, bien, pasada, breaker, turnos, sinAcuse,
                 pospuestos, fallas>>

\* Mutant: the failure is logged like a validation failure.
GuardarFallaCallada(s) ==
  /\ Soltar(s)
  /\ Falla
  /\ UNCHANGED <<acusados, lote, bien, buzon, pasada, breaker, turnos, historia>>

\* The INSERT fails: the rest of the batch is still attempted.
GuardarFalla(s) ==
  /\ Soltar(s)
  /\ Falla
  /\ bien' = [bien EXCEPT ![s] = FALSE]
  /\ UNCHANGED <<acusados, lote, buzon, pasada, breaker, turnos, historia>>

\* The call is over and its slot is free.
Colgar(s) ==
  /\ lote' = [lote EXCEPT ![s] = SinLote]
  /\ resto' = [resto EXCEPT ![s] = {}]
  /\ bien' = [bien EXCEPT ![s] = TRUE]
  /\ atiende' = [atiende EXCEPT ![s] = Ninguno]
  /\ sello' = [sello EXCEPT ![s] = Cero]

\* handleReceive answers: 200 if every message was persisted or invalid.
Responder(s) ==
  /\ lote[s] # SinLote /\ resto[s] = {}
  /\ acusados' = IF bien[s] THEN acusados \cup {lote[s]} ELSE acusados
  /\ Colgar(s)
  /\ UNCHANGED <<buzon, pasada, breaker, turnos, historia, fallas>>

\* The call ends before Meta reads an answer, with part of its work done.
CortarLlamada(s) ==
  /\ lote[s] # SinLote
  /\ Falla
  /\ Colgar(s)
  /\ UNCHANGED <<acusados, buzon, pasada, breaker, turnos, historia>>

-----------------------------------------------------------------------------
(* The worker *)

\* Mutant: no filter on ESTADO but for the failed ones.
PendientesYReenviados == {m \in Filas : estado[m] # "fallido"}

\* The rows ListarPendientes looks at.
Pendientes == {m \in Mensaje : estado[m] = "pendiente"}

\* Mutant: newest first.
Despues(m, n) == Anterior(llego[n], llego[m])

\* ORDER BY recibido_en, as the text formatUTC wrote: of two stamps that agree
\* up to where one of them was trimmed, the trimmed one is the last.
Antes(m, n) ==
  LET a == llego[m] b == llego[n]
  IN \/ a.seg < b.seg
     \/ \E k \in 1 .. Cifras :
          /\ Comparten(a, b, k) /\ ~Recortado(a, k)
          /\ a.frac[k] < b.frac[k] \/ Recortado(b, k)

\* LIMIT: the first rows in that order, equal stamps in any.
Primeras(filas) ==
  /\ filas # {}
  /\ Cardinality(filas) <= Limite
  /\ \/ filas = Pendientes
     \/ /\ Cardinality(filas) = Limite
        /\ \A m \in filas : \A n \in Pendientes \ filas : ~Antes(n, m)

\* The pass goes on with the first of what is left.
Seguir(quedan) ==
  /\ lista' = quedan /\ intentos' = 0
  /\ \/ /\ quedan = {}
        /\ pc' = "ocio" /\ actual' = Ninguno
     \/ /\ pc' = "intentar" /\ actual' \in quedan
        /\ \A m \in quedan : ~Antes(m, actual')

\* tick: DrenarCola takes its snapshot.
Tick ==
  /\ pc = "ocio"
  /\ \E filas \in SUBSET Pendientes : Primeras(filas) /\ Seguir(filas)
  /\ UNCHANGED <<recepcion, buzon, breaker, turnos, historia, fallas>>

\* Done with this message.
Siguiente == Seguir(lista \ {actual})

\* Mutant: MaxAttempts retries.
ReintentarDeMas ==
  IF intentos < MaxAttempts
  THEN /\ intentos' = intentos + 1
       /\ UNCHANGED <<pc, actual, lista, pospuestos>>
  ELSE /\ Siguiente
       /\ pospuestos' = pospuestos \cup {actual}

\* One attempt went wrong: retry, or leave the message as it is.
Reintentar ==
  IF intentos + 1 < MaxAttempts
  THEN /\ intentos' = intentos + 1
       /\ UNCHANGED <<pc, actual, lista, pospuestos>>
  ELSE /\ Siguiente
       /\ pospuestos' = pospuestos \cup {actual}

\* Mutant: the state of the breaker is asked before the executor.
PermisoSinPlazo == circuito.modo # "abierto"

\* TryAcquirePermit: an open breaker lets a probe through after its delay.
Permiso == circuito.modo # "abierto" \/ plazo

\* The breaker an attempt is made under.
Vigente ==
  IF circuito.modo = "abierto" THEN [modo |-> "medio", cuenta |-> 0] ELSE circuito

\* What the breaker becomes when it is told of a success.
TrasExito ==
  IF Vigente.modo = "medio" /\ Vigente.cuenta + 1 < Exitos
  THEN [modo |-> "medio", cuenta |-> Vigente.cuenta + 1]
  ELSE Cerrado

\* ... and of a failure.
TrasFracaso ==
  IF Vigente.modo = "cerrado" /\ Vigente.cuenta + 1 < Umbral
  THEN [modo |-> "cerrado", cuenta |-> Vigente.cuenta + 1]
  ELSE Abierto

Anotar(despues) == circuito' = despues /\ plazo' = FALSE

PasaDelay ==
  /\ circuito.modo = "abierto" /\ ~plazo
  /\ plazo' = TRUE
  /\ UNCHANGED <<recepcion, buzon, pasada, circuito, turnos, historia, fallas>>

Intentar == pc = "intentar" /\ Permiso

\* The breaker rejects the attempt; the forwarder is not called.
SinPermiso ==
  /\ pc = "intentar" /\ ~Permiso
  /\ Reintentar
  /\ UNCHANGED <<recepcion, buzon, breaker, turnos, sinAcuse, tardios, fallas>>

\* The store processes the message and its 2xx arrives.
ReenviarOk ==
  /\ Intentar /\ actual \notin Rechazado
  /\ turnos' = [turnos EXCEPT ![actual] = @ + 1]
  /\ Anotar(TrasExito)
  /\ pc' = "reenviado"
  /\ UNCHANGED <<recepcion, buzon, actual, lista, intentos, historia, fallas>>

\* The store processes it and the answer is lost or late: transient.
ReenviarSinRespuesta ==
  /\ Intentar /\ actual \notin Rechazado
  /\ Falla
  /\ turnos' = [turnos EXCEPT ![actual] = @ + 1]
  /\ sinAcuse' = [sinAcuse EXCEPT ![actual] = @ + 1]
  /\ Anotar(TrasFracaso)
  /\ Reintentar
  /\ UNCHANGED <<recepcion, buzon, tardios>>

\* Mutant: whatever the store could not take is fallido.
ReenviarTransitorioFallido ==
  /\ Intentar
  /\ Falla
  /\ Anotar(TrasFracaso)
  /\ pc' = "fallido"
  /\ UNCHANGED <<recepcion, buzon, actual, lista, intentos, turnos, historia>>

\* The store is unreachable, or answers 5xx, 429, 401 or 403.
ReenviarTransitorio ==
  /\ Intentar
  /\ Falla
  /\ Anotar(TrasFracaso)
  /\ Reintentar
  /\ UNCHANGED <<recepcion, buzon, turnos, sinAcuse, tardios>>

\* The store says no: neither retried nor held against it by the breaker.
ReenviarRechazado ==
  /\ Intentar /\ actual \in Rechazado
  /\ Anotar(TrasExito)
  /\ pc' = "fallido"
  /\ UNCHANGED <<recepcion, buzon, actual, lista, intentos, turnos, historia, fallas>>

\* marcarReenviado, marcarFallido.
Marcar ==
  /\ pc \in {"reenviado", "fallido"}
  /\ estado' = [estado EXCEPT ![actual] = pc]
  /\ Siguiente
  /\ UNCHANGED <<recepcion, llego, breaker, turnos, historia, fallas>>

\* What the store did and this side forgot.
Olvido ==
  sinAcuse' = IF pc = "reenviado" THEN [sinAcuse EXCEPT ![actual] = @ + 1]
              ELSE sinAcuse

SinPasada == pc' = "ocio" /\ actual' = Ninguno /\ lista' = {} /\ intentos' = 0

\* The UPDATE fails: the pass is abandoned.
MarcarFalla ==
  /\ pc \in {"reenviado", "fallido"}
  /\ Falla
  /\ Olvido
  /\ SinPasada
  /\ UNCHANGED <<recepcion, buzon, breaker, turnos, pospuestos, tardios>>

\* The process dies and starts again: calls, pass and breaker are gone.
Reinicio ==
  /\ Falla
  /\ Olvido
  /\ SinPasada
  /\ lote' = [s \in Llamada |-> SinLote]
  /\ resto' = [s \in Llamada |-> {}]
  /\ bien' = [s \in Llamada |-> TRUE]
  /\ atiende' = [s \in Llamada |-> Ninguno]
  /\ sello' = [s \in Llamada |-> Cero]
  /\ circuito' = Cerrado /\ plazo' = FALSE
  /\ UNCHANGED <<acusados, buzon, turnos, pospuestos, tardios>>

-----------------------------------------------------------------------------
Atender(s) ==
  \/ \E m \in Mensaje : Sellar(s, m)
  \/ RecibirMensaje(s) \/ Responder(s)
Trabajar ==
  Tick \/ SinPermiso \/ ReenviarOk \/ ReenviarRechazado \/ Marcar

Next ==
  \/ \E s \in Llamada :
       \/ \E l \in Lote : Entregar(s, l)
       \/ Atender(s)
       \/ GuardarFalla(s)
       \/ CortarLlamada(s)
  \/ Trabajar \/ PasaDelay
  \/ ReenviarSinRespuesta \/ ReenviarTransitorio \/ MarcarFalla \/ Reinicio

Spec == Init /\ [][Next]_vars

\* Meta insists until it reads a 200, accepted calls are served, the ticker
\* ticks, and time passes.  Which batch comes or which call goes on is left
\* open, and nothing is promised of the store but that its faults are finitely
\* many.
FairSpec ==
  /\ Spec
  /\ WF_vars(\E s \in Llamada : \E l \in Lote : Entregar(s, l))
  /\ WF_vars(\E s \in Llamada : Atender(s))
  /\ WF_vars(Trabajar) /\ WF_vars(PasaDelay)

-----------------------------------------------------------------------------
TypeOK ==
  /\ acusados \subseteq Lote
  /\ lote \in [Llamada -> Lote \cup {SinLote}]
  /\ resto \in [Llamada -> SUBSET Mensaje]
  /\ bien \in [Llamada -> BOOLEAN]
  /\ estado \in [Mensaje -> Estado]
  /\ atiende \in [Llamada -> Mensaje \cup {Ninguno}]
  /\ sello \in [Llamada -> Instante]
  /\ llego \in [Mensaje -> Instante]
  /\ pc \in {"ocio", "intentar", "reenviado", "fallido"}
  /\ lista \subseteq Mensaje
  /\ actual \in IF pc = "ocio" THEN {Ninguno} ELSE lista
  /\ intentos \in 0 .. MaxAttempts - 1
  /\ circuito \in [modo: {"cerrado", "abierto", "medio"}, cuenta: Nat]
  /\ plazo \in BOOLEAN
  /\ turnos \in [Mensaje -> Nat] /\ sinAcuse \in [Mensaje -> Nat]
  /\ pospuestos \subseteq Mensaje /\ tardios \subseteq Mensaje \X Mensaje
  /\ fallas \in 0 .. MaxFallas

\* What Meta has been told is safe has a row: a delivery part of which could
\* not be stored is never acknowledged, whatever calls ran beside it.
AcusadoGuardado ==
  \A l \in acusados : \A m \in l \ Invalido : estado[m] # "ausente"

\* A message is given up only when the store itself refused it: an outage,
\* however long, never turns into fallido.
FallidoPorRechazo == \A m \in Mensaje : estado[m] = "fallido" => m \in Rechazado

\* The store processed a message once for the row that says so, and once more
\* for each time its answer, or the mark of it, was lost on this side.
TurnosExplicados ==
  \A m \in Mensaje :
    turnos[m] = sinAcuse[m]
                + (IF estado[m] = "reenviado" THEN 1 ELSE 0)
                + (IF pc = "reenviado" /\ actual = m THEN 1 ELSE 0)

\* Without its trailing zeros, the fraction of a is the beginning of b's.
EsPrefijo(a, b) ==
  \E k \in 1 .. Cifras : Comparten(a, b, k) /\ Recortado(a, k) /\ ~Recortado(b, k)

\* A message reaches the store before an older one, by the clock the webhook
\* read, only if a pass tried the older one first and had to leave it, if the
\* older one was stored when the newer was already on its way (the clock is
\* read before the INSERT), or if the older stamp, trimmed, is a prefix of the
\* newer and so sorts after it as text.
AdelantoConCausa ==
  \A m, n \in Filas :
    (Anterior(llego[m], llego[n]) /\ estado[m] = "pendiente" /\ turnos[m] = 0
       /\ turnos[n] > 0)
    => m \in pospuestos \/ <<m, n>> \in tardios \/ EsPrefijo(llego[m], llego[n])

\* What makes them inductive.  A batch not acknowledged yet has rows for what
\* its call went through without a failure; the worker's pass holds pendientes
\* only, none of which goes before the one it is at; and a message never tried
\* goes before one of a pass it is not in only if it came too late for it.
EnCurso ==
  \A s \in Llamada : lote[s] # SinLote /\ bien[s] =>
    \A m \in lote[s] \ (Invalido \cup resto[s]) : estado[m] # "ausente"

Pasada ==
  /\ pc = "ocio" <=> lista = {}
  /\ lista \subseteq Pendientes
  /\ \A m \in lista : ~Antes(m, actual)
  /\ pc = "reenviado" => actual \notin Rechazado
  /\ pc = "fallido" => actual \in Rechazado

SinTocar(m) == estado[m] = "pendiente" /\ turnos[m] = 0 /\ m \notin pospuestos

Llegadas ==
  /\ \A m \in Mensaje \ lista : SinTocar(m) =>
       \A n \in lista :
         Anterior(llego[m], llego[n]) /\ Antes(m, n) => <<m, n>> \in tardios
  /\ \A m \in Mensaje : turnos[m] > 0 => m \in Filas

IInv ==
  /\ TypeOK /\ AcusadoGuardado /\ FallidoPorRechazo /\ TurnosExplicados
  /\ AdelantoConCausa /\ EnCurso /\ Pasada /\ Llegadas

\* A row the worker is done with stays as it is, also when Meta delivers its
\* message again.
TerminadoEsFinal ==
  [][\A m \in Mensaje :
       estado[m] \in {"reenviado", "fallido"} => estado'[m] = estado[m]]_vars

\* Once faults stop, every message Meta has is forwarded or refused: neither a
\* failed INSERT nor a breaker left open keeps one for ever.
TodoLlega ==
  <>(\A m \in UNION Lote \ Invalido : estado[m] \in {"reenviado", "fallido"})
=============================================================================
