-------------------------- MODULE EnviosReactivacion --------------------------
(***************************************************************************)
(* The sending channel of internal/reactivacion: the queue MSP_RX_MENSAJES,*)
(* the run that queues an opener for every cliente of the treatment group, *)
(* the replies operators approve, and the drains (the worker's tick and    *)
(* POST /reactivacion/envios/drenar) with the gobernador's daily cap.  A   *)
(* drain reads the queue in one transaction, sends outside any, and        *)
(* records each answer in another; no row is claimed, and a batch is the   *)
(* first rows by ENCOLADO_EN, so that two drains may hold disjoint ones.   *)
(* auto_send is on.                                                        *)
(***************************************************************************)
EXTENDS Naturals, FiniteSets

CONSTANTS
  Clientes,       \* the rows of MSP_RX_COHORTE
  Control,        \* those with EN_CONTROL = 1
  Corridas,       \* goroutines of EncolarEnSegundoPlano
  Peticiones,     \* requests to drain the queue
  Trabajador,     \* the EnvioWorker goroutine
  Limite,         \* [Proc -> Nat]: the rows a batch asks for
  Tope,           \* TopeDiario of the gobernador
  MaxPorCliente,  \* bound: messages of one cliente
  MaxAprobados,   \* bound: replies operators approve
  MaxHora,        \* bound: readings of the clock that stamps the queue
  MaxFallas       \* bound: crashes and failed transactions after a send

Proc == Peticiones \cup {Trabajador}

ASSUME EnviosAssumption ==
  /\ Control \subseteq Clientes
  /\ IsFiniteSet(Clientes)
  /\ Trabajador \notin Peticiones
  /\ Limite \in [Proc -> Nat \ {0}]
  /\ Tope \in Nat
  /\ MaxPorCliente \in Nat
  /\ MaxAprobados \in Nat
  /\ MaxHora \in Nat
  /\ MaxFallas \in Nat

VARIABLES
  fila,         \* [Ids -> Fila]: MSP_RX_MENSAJES
  enviadosHoy,  \* rows enviado with an ENVIADO_EN of today
  contactados,  \* the clientes with FUE_CONTACTADO = 1
  encolando,    \* encolarRunning
  corrida,      \* [Corridas -> Corrida]: what each run read
  hilo,         \* [Proc -> Hilo]: what each drain has in hand
  hora,         \* the latest reading of the clock that stamps the queue
  fallas,       \* faults so far
  salioPor,     \* auxiliary: [Proc -> SUBSET Ids]: what the sender accepted from each today
  dudosos,      \* auxiliary: in the hands of two drains, or sent and not recorded
  rezagados,    \* auxiliary: drains whose count misses a send of another
  desfasados    \* auxiliary: messages those sent today

auxiliares == <<salioPor, dudosos, rezagados, desfasados>>

vars == <<fila, enviadosHoy, contactados, encolando, corrida, hilo, hora, fallas,
          auxiliares>>

\* The messages of a cliente, numbered as they are stored.
Ids == Clientes \X (1..MaxPorCliente)

\* A row, or its absence; auxiliary, how often the sender accepted it (2: more
\* than once).  Nothing produces bloqueado.
Fila == [estado : {"ninguno", "encolado", "enviado", "fallido"},
         apertura : BOOLEAN, encolado : Nat, entregas : 0..2]

SinFila == [estado |-> "ninguno", apertura |-> FALSE, encolado |-> 0, entregas |-> 0]

Nuevo(apertura, t) ==
  [estado |-> "encolado", apertura |-> apertura, encolado |-> t, entregas |-> 0]

Corrida == [activa : BOOLEAN, ahora : Nat, destinos : SUBSET Clientes]

Terminada == [activa |-> FALSE, ahora |-> 0, destinos |-> {}]

\* hoy: the clock read after the send, ENVIADO_EN, is of today.
Hilo == [paso : {"libre", "lista", "envia", "mano"}, lote : SUBSET Ids,
         cuenta : Nat, mano : SUBSET Ids, acepto : BOOLEAN, hoy : BOOLEAN]

Libre == [paso |-> "libre", lote |-> {}, cuenta |-> 0, mano |-> {},
          acepto |-> FALSE, hoy |-> FALSE]

Existe(m) == fila[m].estado # "ninguno"

Pendientes == {m \in Ids : fila[m].estado = "encolado"}

\* ORDER BY ENCOLADO_EN; equal stamps come in any order.
NoDespues(m, n) == fila[m].encolado <= fila[n].encolado

\* FIRST n of the queue.
Primeros(S, n) ==
  /\ S \subseteq Pendientes
  /\ Cardinality(S) = IF Cardinality(Pendientes) < n THEN Cardinality(Pendientes) ELSE n
  /\ \A m \in S, k \in Pendientes \ S : NoDespues(m, k)

ClientesConMensaje == {c \in Clientes : \E m \in Ids : m[1] = c /\ Existe(m)}

\* Whom a run will write to.
Faltan == Clientes \ (Control \cup ClientesConMensaje)

\* Where the next row of a cliente goes.
Siguiente(m) == ~Existe(m) /\ \A n \in Ids : n[1] = m[1] /\ n[2] < m[2] => Existe(n)

\* In the hands of p: still to be sent, or sent and not recorded yet.
EnManos(p) == hilo[p].lote \cup hilo[p].mano

SinAnotar(p) == IF hilo[p].acepto THEN hilo[p].mano ELSE {}

\* What p will record as sent today.
PorContar(p) == IF hilo[p].hoy THEN SinAnotar(p) ELSE {}
-----------------------------------------------------------------------------
Init ==
  /\ fila = [m \in Ids |-> SinFila]
  /\ enviadosHoy = {}
  /\ contactados = {}
  /\ encolando = FALSE
  /\ corrida = [r \in Corridas |-> Terminada]
  /\ hilo = [p \in Proc |-> Libre]
  /\ hora = 0
  /\ fallas = 0
  /\ salioPor = [p \in Proc |-> {}]
  /\ dudosos = {}
  /\ rezagados = {}
  /\ desfasados = {}

Pasa(p, h) == hilo' = [hilo EXCEPT ![p] = h]

UnchangedTablas == UNCHANGED <<fila, enviadosHoy, contactados>>

UnchangedAuxiliares == UNCHANGED auxiliares

(***************************************************************************)
(* What enters the queue.                                                  *)
(***************************************************************************)

Corre(r, x) == corrida' = [corrida EXCEPT ![r] = x]

\* Mutant: no single flight.
EncolarSinGuardia(r) ==
  /\ ~corrida[r].activa
  /\ Faltan # {}
  /\ encolando' = TRUE
  /\ \E t \in hora..MaxHora :
       /\ hora' = t
       /\ Corre(r, [activa |-> TRUE, ahora |-> t, destinos |-> Faltan])
  /\ UNCHANGED <<hilo, fallas>>
  /\ UnchangedTablas /\ UnchangedAuxiliares

\* EncolarEnSegundoPlano takes encolarRunning; EncolarCohorte reads the clock
\* and lists the treatment group, which the upsert of the cohorte never
\* reassigns, and whoever has a message.  A run that finds everybody with one
\* ends as it began.
Encolar(r) ==
  /\ ~corrida[r].activa
  /\ ~encolando
  /\ Faltan # {}
  /\ encolando' = TRUE
  /\ \E t \in hora..MaxHora :
       /\ hora' = t
       /\ Corre(r, [activa |-> TRUE, ahora |-> t, destinos |-> Faltan])
  /\ UNCHANGED <<hilo, fallas>>
  /\ UnchangedTablas /\ UnchangedAuxiliares

Aperturas(r) ==
  {m \in Ids : m[1] \in corrida[r].destinos /\ Siguiente(m)}

\* buildMensajes and Insertar: all of them in one transaction, with the stamp
\* the run took before it listed.
InsertarAperturas(r) ==
  /\ corrida[r].activa
  /\ \A c \in corrida[r].destinos : \E m \in Ids : m[1] = c /\ ~Existe(m)
  /\ fila' = [m \in Ids |-> IF m \in Aperturas(r) THEN Nuevo(TRUE, corrida[r].ahora)
                                                     ELSE fila[m]]
  /\ encolando' = FALSE
  /\ Corre(r, Terminada)
  /\ UNCHANGED <<enviadosHoy, contactados, hilo, hora, fallas>>
  /\ UnchangedAuxiliares

\* The opener, a read or the transaction fails, and the whole run with it.
FallaEncolar(r) ==
  /\ corrida[r].activa
  /\ encolando' = FALSE
  /\ Corre(r, Terminada)
  /\ UNCHANGED <<hilo, hora, fallas>>
  /\ UnchangedTablas /\ UnchangedAuxiliares

\* enqueueAprobado, for any cliente with a conversation (module Copiloto), with
\* the clock as it read it now or at any moment before.
EncolarAprobado ==
  /\ Cardinality({m \in Ids : Existe(m) /\ ~fila[m].apertura}) < MaxAprobados
  /\ \E m \in Ids, t \in 0..MaxHora :
       /\ Siguiente(m)
       /\ fila' = [fila EXCEPT ![m] = Nuevo(FALSE, t)]
       /\ hora' = IF t > hora THEN t ELSE hora
  /\ UNCHANGED <<enviadosHoy, contactados, encolando, corrida, hilo, fallas>>
  /\ UnchangedAuxiliares

(***************************************************************************)
(* DrenarCola.                                                             *)
(***************************************************************************)
ListarPendientes(p) ==
  /\ hilo[p].paso = "libre"
  /\ Pendientes # {}
  /\ \E S \in SUBSET Pendientes :
       /\ Primeros(S, Limite[p])
       /\ Pasa(p, [Libre EXCEPT !.paso = "lista", !.lote = S])
       /\ dudosos' = dudosos \cup (S \cap UNION {EnManos(q) : q \in Proc})
  /\ UNCHANGED <<encolando, corrida, hora, fallas, salioPor, rezagados, desfasados>>
  /\ UnchangedTablas

\* The count of p misses what others sent today and have not recorded.
Cuenta(p) ==
  rezagados' = IF \E q \in Proc : q # p /\ PorContar(q) # {}
               THEN rezagados \cup {p} ELSE rezagados \ {p}

\* Mutant: the cap starts afresh with every batch.
ContarDesdeCero(p) ==
  /\ hilo[p].paso = "lista"
  /\ Pasa(p, [hilo[p] EXCEPT !.paso = "envia"])
  /\ Cuenta(p)
  /\ UNCHANGED <<encolando, corrida, hora, fallas, salioPor, dudosos, desfasados>>
  /\ UnchangedTablas

\* ContarEnviadosHoy, once per batch.
Contar(p) ==
  /\ hilo[p].paso = "lista"
  /\ Pasa(p, [hilo[p] EXCEPT !.paso = "envia", !.cuenta = Cardinality(enviadosHoy)])
  /\ Cuenta(p)
  /\ UNCHANGED <<encolando, corrida, hora, fallas, salioPor, dudosos, desfasados>>
  /\ UnchangedTablas

Otra(n) == IF n = 0 THEN 1 ELSE 2

\* The sender accepted m of p: no count of another drain knows of it.
Sale(p, m) ==
  /\ fila' = [fila EXCEPT ![m].entregas = Otra(@)]
  /\ salioPor' = [salioPor EXCEPT ![p] = @ \cup {m}]
  /\ rezagados' = rezagados \cup {q \in Proc \ {p} : hilo[q].paso \in {"envia", "mano"}}
  /\ desfasados' = IF p \in rezagados THEN desfasados \cup {m} ELSE desfasados

\* enviarUno up to the answer of the sender and the clock read after it,
\* outside any transaction.
Enviar(p) ==
  /\ hilo[p].paso = "envia"
  /\ hilo[p].cuenta < Tope
  /\ \E m \in hilo[p].lote, acepta \in BOOLEAN :
       /\ \A n \in hilo[p].lote : NoDespues(m, n)
       /\ Pasa(p, [hilo[p] EXCEPT !.paso = "mano", !.lote = @ \ {m}, !.mano = {m},
                                  !.acepto = acepta, !.hoy = acepta])
       /\ IF acepta THEN Sale(p, m)
                    ELSE UNCHANGED <<fila, salioPor, rezagados, desfasados>>
  /\ UNCHANGED <<enviadosHoy, contactados, encolando, corrida, hora, fallas, dudosos>>

Sigue(p, cuenta) ==
  Pasa(p, [hilo[p] EXCEPT !.paso = "envia", !.cuenta = cuenta,
                          !.mano = {}, !.acepto = FALSE, !.hoy = FALSE])

\* Actualizar, by ID and whatever the row says by now, and MarcarContactado, in
\* one transaction.
RegistrarEnviado(p) ==
  /\ hilo[p].paso = "mano" /\ hilo[p].acepto
  /\ \E m \in hilo[p].mano :
       /\ fila' = [fila EXCEPT ![m].estado = "enviado"]
       /\ enviadosHoy' = IF hilo[p].hoy THEN enviadosHoy \cup {m} ELSE enviadosHoy \ {m}
       /\ contactados' = contactados \cup {m[1]}
  /\ Sigue(p, hilo[p].cuenta + 1)
  /\ UNCHANGED <<encolando, corrida, hora, fallas>>
  /\ UnchangedAuxiliares

\* Mutant: whoever was written to counts as contacted.
RegistrarFallidoContactado(p) ==
  /\ hilo[p].paso = "mano" /\ ~hilo[p].acepto
  /\ \E m \in hilo[p].mano :
       /\ fila' = [fila EXCEPT ![m].estado = "fallido"]
       /\ enviadosHoy' = enviadosHoy \ {m}
       /\ contactados' = contactados \cup {m[1]}
  /\ Sigue(p, hilo[p].cuenta)
  /\ UNCHANGED <<encolando, corrida, hora, fallas>>
  /\ UnchangedAuxiliares

\* Mutant: a rejected message stays in the queue, to be tried again.
RegistrarFallidoEnCola(p) ==
  /\ hilo[p].paso = "mano" /\ ~hilo[p].acepto
  /\ Sigue(p, hilo[p].cuenta)
  /\ UNCHANGED <<encolando, corrida, hora, fallas>>
  /\ UnchangedTablas /\ UnchangedAuxiliares

\* FUE_CONTACTADO is not touched, and the cap does not count the row.
RegistrarFallido(p) ==
  /\ hilo[p].paso = "mano" /\ ~hilo[p].acepto
  /\ \E m \in hilo[p].mano :
       /\ fila' = [fila EXCEPT ![m].estado = "fallido"]
       /\ enviadosHoy' = enviadosHoy \ {m}
  /\ Sigue(p, hilo[p].cuenta)
  /\ UNCHANGED <<contactados, encolando, corrida, hora, fallas>>
  /\ UnchangedAuxiliares

\* The transaction after the send fails, and the batch is abandoned.
FallaRegistro(p) ==
  /\ hilo[p].paso = "mano"
  /\ fallas < MaxFallas
  /\ fallas' = fallas + 1
  /\ dudosos' = dudosos \cup SinAnotar(p)
  /\ rezagados' = rezagados \ {p}
  /\ Pasa(p, Libre)
  /\ UNCHANGED <<encolando, corrida, hora, salioPor, desfasados>>
  /\ UnchangedTablas

\* The batch ends: nothing left, or the gobernador says no (the cap, the hour,
\* the jitter).  A batch whose count fails sends nothing, as if not begun.
TerminarLote(p) ==
  /\ hilo[p].paso = "envia"
  /\ Pasa(p, Libre)
  /\ rezagados' = rezagados \ {p}
  /\ UNCHANGED <<encolando, corrida, hora, fallas, salioPor, dudosos, desfasados>>
  /\ UnchangedTablas

(***************************************************************************)
(* The process dies and starts again; the business day changes.            *)
(***************************************************************************)
Caida ==
  /\ fallas < MaxFallas
  /\ fallas' = fallas + 1
  /\ hilo' = [p \in Proc |-> Libre]
  /\ corrida' = [r \in Corridas |-> Terminada]
  /\ encolando' = FALSE
  /\ dudosos' = dudosos \cup UNION {SinAnotar(p) : p \in Proc}
  /\ rezagados' = {}
  /\ UNCHANGED <<hora, salioPor, desfasados>>
  /\ UnchangedTablas

\* startOfBusinessDay moves on: nothing counts as sent today, and a count taken
\* before only errs on the safe side.
NuevoDia ==
  /\ enviadosHoy' = {}
  /\ hilo' = [p \in Proc |-> [hilo[p] EXCEPT !.hoy = FALSE]]
  /\ salioPor' = [p \in Proc |-> {}]
  /\ rezagados' = {}
  /\ desfasados' = {}
  /\ UNCHANGED <<fila, contactados, encolando, corrida, hora, fallas, dudosos>>
-----------------------------------------------------------------------------
Next ==
  \/ \E r \in Corridas :
       Encolar(r) \/ InsertarAperturas(r) \/ FallaEncolar(r)
  \/ \E p \in Proc :
       \/ ListarPendientes(p) \/ Contar(p) \/ Enviar(p)
       \/ RegistrarEnviado(p) \/ RegistrarFallido(p) \/ FallaRegistro(p)
       \/ TerminarLote(p)
  \/ EncolarAprobado
  \/ Caida
  \/ NuevoDia

Spec == Init /\ [][Next]_vars

\* The ticker never stops, what a tick started ends, and midnight comes.  The
\* hour and the jitter do not refuse for ever.
Fairness ==
  /\ WF_vars(ListarPendientes(Trabajador))
  /\ WF_vars(Contar(Trabajador))
  /\ SF_vars(Enviar(Trabajador))
  /\ WF_vars(RegistrarEnviado(Trabajador))
  /\ WF_vars(RegistrarFallido(Trabajador))
  /\ WF_vars(TerminarLote(Trabajador))
  /\ WF_vars(NuevoDia)

FairSpec == Spec /\ Fairness
-----------------------------------------------------------------------------
(* Properties *)

TypeOK ==
  /\ fila \in [Ids -> Fila]
  /\ enviadosHoy \subseteq Ids
  /\ contactados \subseteq Clientes
  /\ encolando \in BOOLEAN
  /\ corrida \in [Corridas -> Corrida]
  /\ hilo \in [Proc -> Hilo]
  /\ hora \in Nat
  /\ fallas \in 0..MaxFallas
  /\ salioPor \in [Proc -> SUBSET Ids]
  /\ dudosos \subseteq Ids
  /\ rezagados \subseteq Proc
  /\ desfasados \subseteq Ids

\* A cliente gets at most one opener, whatever runs, crashes or is repeated
\* ("running it twice never duplicates a mensaje for the same cliente").
AperturaUnica ==
  \A m, n \in Ids :
    fila[m].apertura /\ fila[n].apertura /\ m[1] = n[1] => m = n

\* Of a message that is not in doubt (never in the hands of two drains, never
\* sent and left unrecorded) the row and the sender tell the same story; and
\* FUE_CONTACTADO is set for those whom a recorded send reached, and only them.
Medicion ==
  /\ \A m \in Ids \ dudosos :
       /\ fila[m].entregas <= 1
       /\ fila[m].estado = "enviado" => fila[m].entregas = 1
       /\ fila[m].estado = "fallido" => fila[m].entregas = 0
       /\ fila[m].entregas = 1 =>
            fila[m].estado = "enviado" \/ \E p \in Proc : m \in SinAnotar(p)
  /\ \A m \in Ids : fila[m].estado = "enviado" => m[1] \in contactados
  /\ \A c \in contactados : \E m \in Ids : m[1] = c /\ fila[m].entregas > 0

\* The rows marked enviado today exceed the cap only by what a drain sent although
\* its count missed a send of another (taken while that send was unrecorded, or
\* overtaken by it); and no drain exceeds the cap by itself, over all its batches
\* of the day, but for messages in doubt.
TopeConCausa ==
  /\ Cardinality(enviadosHoy \ desfasados) <= Tope
  /\ \A p \in Proc : Cardinality(salioPor[p] \ dudosos) <= Tope

\* What gobernador.go says of TopeDiario, "the maximum number of ENVIADO messages
\* allowed per business day".  It does not hold: two drains with disjoint batches
\* and counts that miss each other's sends exceed it, with nothing in doubt.
TopeSinExcepcion == Cardinality(enviadosHoy) <= Tope

\* However drains overlap, are denied or fail, the queue is emptied again and
\* again: as no row comes back to it, every queued message is sent or marked
\* fallido in the end.
SeDespacha == []<>(Pendientes = {})
-----------------------------------------------------------------------------
(* The inductive invariant *)

SinMensaje == \A m \in Ids : ~Existe(m) => fila[m] = SinFila

\* encolarRunning is held by whoever is queueing openers.
Guardia ==
  \A r \in Corridas : corrida[r].activa =>
    /\ encolando
    /\ \A q \in Corridas : corrida[q].activa => q = r
    /\ \A m \in Ids : m[1] \in corrida[r].destinos => ~fila[m].apertura

\* What a drain holds at each step; the queue knows all of it.
EnSuPasoDe(p) ==
  /\ hilo[p].paso \notin {"lista", "envia", "mano"} => hilo[p].lote = {}
  /\ IF hilo[p].paso = "mano"
     THEN (\E m \in Ids : hilo[p].mano = {m}) /\ hilo[p].lote \cap hilo[p].mano = {}
     ELSE hilo[p].mano = {} /\ ~hilo[p].acepto
  /\ \A m \in EnManos(p) : Existe(m)
  /\ \A m \in SinAnotar(p) : fila[m].entregas > 0

EnSuPaso == \A p \in Proc : EnSuPasoDe(p)

\* What is not in doubt one drain holds at most, and as the queue has it.
UnaSolaMano ==
  /\ \A p, q \in Proc : p = q \/ EnManos(p) \cap EnManos(q) \subseteq dudosos
  /\ \A p \in Proc : \A m \in EnManos(p) \ dudosos :
       /\ fila[m].estado = "encolado"
       /\ fila[m].entregas = 1 => m \in SinAnotar(p)

\* What p sent today and is not in doubt is counted or in its hand, and the count
\* of p has the rest.
CuentaPropia(p) ==
  /\ \A m \in salioPor[p] : fila[m].entregas > 0
  /\ salioPor[p] \ dudosos \subseteq enviadosHoy \cup PorContar(p)
  /\ hilo[p].paso \in {"envia", "mano"} =>
       Cardinality(salioPor[p] \ (dudosos \cup SinAnotar(p))) <= hilo[p].cuenta

\* A count that misses no send has all of them: nobody else is about to record.
CuentaAlDia(p) ==
  hilo[p].paso \in {"envia", "mano"} /\ p \notin rezagados =>
    /\ Cardinality(enviadosHoy) <= hilo[p].cuenta
    /\ \A q \in Proc : q # p => PorContar(q) = {}

Cuentas ==
  /\ \A m \in enviadosHoy : fila[m].estado = "enviado"
  /\ \A p \in Proc : CuentaPropia(p) /\ CuentaAlDia(p)

\* What counts as sent today, or is about to.
Contados == enviadosHoy \cup UNION {PorContar(p) : p \in Proc}

TopeDeLosContados == Cardinality(Contados \ desfasados) <= Tope

IInv ==
  /\ TypeOK /\ SinMensaje /\ Guardia /\ EnSuPaso /\ UnaSolaMano /\ Cuentas
  /\ AperturaUnica /\ Medicion /\ TopeDeLosContados /\ TopeConCausa
=============================================================================
