----------------------------- MODULE OutboxVentas -----------------------------
(***************************************************************************)
(* The outbox and the search index it feeds.  A ventas request commits its *)
(* write and then drains its events to MSP_OUTBOX_EVENTS; the Dispatcher   *)
(* claims a batch per tick, inside one transaction, and reindexes each     *)
(* venta; VentasReconcileWorker pushes the whole catalogue now and then.   *)
(* The index is outside every transaction.                                 *)
(***************************************************************************)
EXTENDS Naturals, Sequences, FiniteSets

CONSTANTS
  Venta,        \* ventas
  BatchSize,    \* events per tick
  MaxAttempts,  \* of an event that fails transiently
  MaxCambios,   \* bound: mutations per venta
  MaxFallas,    \* bound: failed calls (enqueue, handler, mark, page)
  MaxCaidas     \* bound: ticks that do not commit, and restarts

ASSUME OutboxAssumption ==
  /\ IsFiniteSet(Venta)
  /\ BatchSize \in Nat \ {0} /\ MaxAttempts \in Nat \ {0}
  /\ MaxCambios \in Nat /\ MaxFallas \in Nat /\ MaxCaidas \in Nat

VARIABLES
  version,    \* [Venta -> committed state of the venta, counted]
  porDrenar,  \* mutations committed whose request has not drained its event
  eventos,    \* MSP_OUTBOX_EVENTS, by CREATED_AT
  dpc,        \* of the Dispatcher
  lote,       \* events claimed and not yet handled in this tick
  marcas,     \* the rows this tick updated, uncommitted: a partial [Nat -> Evento]
  leida,      \* version FindByID gave the handler
  indice,     \* [Venta -> version in Meilisearch, 0 if none]
  faltan,     \* ventas this reconcile pass has not pushed
  foto,       \* the page in hand: {} or {[venta, n]}
  perdidos,   \* history: ventas with an event that was never enqueued
  pisadas,    \* history: ventas whose document a page made older
  fallas, caidas

negocio == <<version, porDrenar>>
despachador == <<dpc, lote, marcas, leida>>
recon == <<faltan, foto>>
outboxVars ==
  <<negocio, eventos, despachador, indice, recon, perdidos, pisadas, fallas, caidas>>

Cambio == [venta: Venta, n: 1..MaxCambios]
Evento == [venta: Venta, n: 1..MaxCambios,
           estado: {"nuevo", "procesado", "fallido"}, attempts: 0..MaxAttempts]

OutboxInit ==
  /\ version = [v \in Venta |-> 0]
  /\ porDrenar = {}
  /\ eventos = <<>>
  /\ dpc = "reposo"
  /\ lote = {}
  /\ marcas = <<>>
  /\ leida = 0
  /\ indice = [v \in Venta |-> 0]
  /\ faltan = {}
  /\ foto = {}
  /\ perdidos = {}
  /\ pisadas = {}
  /\ fallas = 0
  /\ caidas = 0

Fallar == fallas < MaxFallas /\ fallas' = fallas + 1

-----------------------------------------------------------------------------
(* The requests *)

\* The write of a request commits.
Mutar(v) ==
  /\ version[v] < MaxCambios
  /\ version' = [version EXCEPT ![v] = @ + 1]
  /\ porDrenar' = porDrenar \cup {[venta |-> v, n |-> version'[v]]}
  /\ UNCHANGED <<eventos, despachador, indice, recon, perdidos, pisadas, fallas, caidas>>

\* drainEvents: Enqueue in a transaction of its own.
DrainEvents(c) ==
  /\ porDrenar' = porDrenar \ {c}
  /\ eventos' = Append(eventos, [venta |-> c.venta, n |-> c.n,
                                 estado |-> "nuevo", attempts |-> 0])
  /\ UNCHANGED <<version, despachador, indice, recon, perdidos, pisadas, fallas, caidas>>

\* enqueueEvent only logs a failed Enqueue.
EnqueueFalla(c) ==
  /\ Fallar
  /\ porDrenar' = porDrenar \ {c}
  /\ perdidos' = perdidos \cup {c.venta}
  /\ UNCHANGED <<version, eventos, despachador, indice, recon, pisadas, caidas>>

-----------------------------------------------------------------------------
(* The Dispatcher *)

SinRequest == UNCHANGED <<negocio, recon, perdidos, pisadas>>

\* The claim of fetchPending.
Pendientes == {i \in DOMAIN eventos : eventos[i].estado = "nuevo"}

\* tick begins: the oldest BatchSize pending events.
Tick ==
  /\ dpc = "reposo"
  /\ Pendientes # {}
  /\ lote' = {i \in Pendientes : Cardinality({j \in Pendientes : j < i}) < BatchSize}
  /\ dpc' = "leer"
  /\ SinRequest
  /\ UNCHANGED <<eventos, marcas, leida, indice, fallas, caidas>>

\* The oldest of what is left of the batch.
E == CHOOSE i \in lote : \A j \in lote : i <= j

\* The next event of the batch, or the COMMIT.
Seguir ==
  /\ lote' = lote \ {E}
  /\ dpc' = IF lote = {E} THEN "commit" ELSE "leer"
  /\ leida' = 0

\* Mutant: the handler indexes what the event says.
LeerDelEvento ==
  /\ dpc = "leer"
  /\ leida' = eventos[E].n
  /\ dpc' = "indexar"
  /\ SinRequest
  /\ UNCHANGED <<eventos, lote, marcas, indice, fallas, caidas>>

\* ReindexVenta reads the venta as it is now ...
Leer ==
  /\ dpc = "leer"
  /\ leida' = version[eventos[E].venta]
  /\ dpc' = "indexar"
  /\ SinRequest
  /\ UNCHANGED <<eventos, lote, marcas, indice, fallas, caidas>>

Marca(estado, n) ==
  marcas' = [i \in DOMAIN marcas \cup {E} |->
               IF i = E THEN [eventos[E] EXCEPT !.estado = estado, !.attempts = n]
               ELSE marcas[i]]

Escrito == indice' = [indice EXCEPT ![eventos[E].venta] = leida]

\* ... and upserts its document; markProcessed.
Indexar ==
  /\ dpc = "indexar"
  /\ Escrito
  /\ Marca("procesado", eventos[E].attempts + 1)
  /\ Seguir
  /\ SinRequest
  /\ UNCHANGED <<eventos, fallas, caidas>>

\* Mutant: an event may always be tried again.
AgotadoNunca(n) == FALSE

Agotado(n) == n >= MaxAttempts

\* ErrTransient, whether or not Meilisearch got the document: markRetry.
IndexarTransitorio ==
  /\ dpc = "indexar"
  /\ Fallar
  /\ Escrito \/ UNCHANGED indice
  /\ LET n == eventos[E].attempts + 1 IN
       Marca(IF Agotado(n) THEN "fallido" ELSE "nuevo", n)
  /\ Seguir
  /\ SinRequest
  /\ UNCHANGED <<eventos, caidas>>

\* Any other error, of the read or of the upsert: markFailed.
FalloPermanente ==
  /\ dpc \in {"leer", "indexar"}
  /\ Fallar
  /\ Marca("fallido", eventos[E].attempts + 1)
  /\ Seguir
  /\ SinRequest
  /\ UNCHANGED <<eventos, indice, caidas>>

\* The mark fails, whatever the handler did: tick logs it and goes on.
MarcaFalla ==
  /\ dpc \in {"leer", "indexar"}
  /\ Fallar
  /\ (dpc = "indexar" /\ Escrito) \/ UNCHANGED indice
  /\ Seguir
  /\ SinRequest
  /\ UNCHANGED <<eventos, marcas, caidas>>

\* Event i as this tick leaves it.
Quedara(i) == IF i \in DOMAIN marcas THEN marcas[i] ELSE eventos[i]

\* The tick commits its marks together.
CommitTick ==
  /\ dpc = "commit"
  /\ eventos' = [i \in DOMAIN eventos |-> Quedara(i)]
  /\ dpc' = "reposo"
  /\ marcas' = <<>>
  /\ SinRequest
  /\ UNCHANGED <<lote, leida, indice, fallas, caidas>>

SinTick == dpc' = "reposo" /\ lote' = {} /\ marcas' = <<>> /\ leida' = 0

\* TickTimeout, or the COMMIT fails: the marks are lost, the documents stay.
AbortarTick ==
  /\ dpc # "reposo"
  /\ caidas < MaxCaidas
  /\ caidas' = caidas + 1
  /\ SinTick
  /\ SinRequest
  /\ UNCHANGED <<eventos, indice, fallas>>

-----------------------------------------------------------------------------
(* VentasReconcileWorker *)

SinDespacho == UNCHANGED <<negocio, eventos, despachador, perdidos>>

\* tick, or the warm-up of Start.
ReconTick ==
  /\ faltan = {} /\ foto = {}
  /\ faltan' = Venta
  /\ SinDespacho
  /\ UNCHANGED <<indice, foto, pisadas, fallas, caidas>>

\* Mutant: ventas already in the index are skipped.
ReconLeerNuevas(v) ==
  /\ v \in faltan /\ foto = {}
  /\ foto' = IF indice[v] = 0 THEN {[venta |-> v, n |-> version[v]]} ELSE {}
  /\ faltan' = faltan \ {v}
  /\ SinDespacho
  /\ UNCHANGED <<indice, pisadas, fallas, caidas>>

\* ReconciliarVentas reads a page of ventas ...
ReconLeer(v) ==
  /\ v \in faltan /\ foto = {}
  /\ foto' = {[venta |-> v, n |-> version[v]]}
  /\ faltan' = faltan \ {v}
  /\ SinDespacho
  /\ UNCHANGED <<indice, pisadas, fallas, caidas>>

\* ... and pushes it, over whatever the handler wrote in between.
Reconciliar ==
  /\ \E d \in foto :
       /\ indice' = [indice EXCEPT ![d.venta] = d.n]
       /\ pisadas' = IF d.n < indice[d.venta] THEN pisadas \cup {d.venta} ELSE pisadas
  /\ foto' = {}
  /\ SinDespacho
  /\ UNCHANGED <<faltan, fallas, caidas>>

\* A failed page ends the pass.
ReconFalla ==
  /\ foto # {}
  /\ Fallar
  /\ foto' = {} /\ faltan' = {}
  /\ SinDespacho
  /\ UNCHANGED <<indice, pisadas, caidas>>

\* The process restarts: buffered events, the tick and the pass are gone.
Reinicio ==
  /\ caidas < MaxCaidas
  /\ caidas' = caidas + 1
  /\ porDrenar' = {}
  /\ perdidos' = perdidos \cup {c.venta : c \in porDrenar}
  /\ SinTick
  /\ faltan' = Venta /\ foto' = {}
  /\ UNCHANGED <<version, eventos, indice, pisadas, fallas>>

-----------------------------------------------------------------------------
Drenar == \E c \in porDrenar : DrainEvents(c) \/ EnqueueFalla(c)
Procesar ==
  Leer \/ Indexar \/ IndexarTransitorio \/ FalloPermanente \/ MarcaFalla \/ CommitTick
ReconPaso == \/ \E v \in Venta : ReconLeer(v)
             \/ Reconciliar \/ ReconFalla

OutboxNext ==
  \/ \E v \in Venta : Mutar(v)
  \/ Drenar
  \/ Tick \/ Procesar \/ AbortarTick
  \/ ReconTick \/ ReconPaso
  \/ Reinicio

OutboxSpec == OutboxInit /\ [][OutboxNext]_outboxVars

\* Requests finish, tickers fire and goroutines run.
OutboxFairness ==
  WF_outboxVars(Drenar) /\ WF_outboxVars(Tick) /\ WF_outboxVars(Procesar)
  /\ WF_outboxVars(ReconTick) /\ WF_outboxVars(ReconPaso)

OutboxFairSpec == OutboxSpec /\ OutboxFairness

-----------------------------------------------------------------------------
(* Properties *)

\* Types, the size of a batch, and when the Dispatcher holds one.
OutboxTypeOK ==
  /\ version \in [Venta -> 0..MaxCambios] /\ porDrenar \subseteq Cambio
  /\ eventos \in Seq(Evento)
  /\ dpc \in {"reposo", "leer", "indexar", "commit"}
  /\ lote \subseteq DOMAIN eventos /\ Cardinality(lote) <= BatchSize
  /\ lote # {} <=> dpc \in {"leer", "indexar"}
  /\ DOMAIN marcas \subseteq DOMAIN eventos
  /\ \A i \in DOMAIN marcas : marcas[i] \in Evento
  /\ leida \in 0..MaxCambios
  /\ indice \in [Venta -> 0..MaxCambios]
  /\ faltan \subseteq Venta
  /\ foto = {} \/ \E d \in [venta: Venta, n: 0..MaxCambios] : foto = {d}
  /\ perdidos \subseteq Venta /\ pisadas \subseteq Venta
  /\ fallas \in 0..MaxFallas /\ caidas \in 0..MaxCaidas

\* A venta whose document is out of date has an event that will fix it or that
\* says it will not (pending or failed, as other transactions see it), unless
\* its event was lost on the way or a page of the worker overwrote it.  Marks
\* lost with a tick, events handled twice, late or out of order never leave the
\* index behind with nothing pending.
AtrasadaConEvento ==
  \A v \in Venta :
    \/ indice[v] = version[v]
    \/ \E c \in porDrenar : c.venta = v
    \/ \E i \in DOMAIN eventos :
         eventos[i].venta = v /\ eventos[i].estado \in {"nuevo", "fallido"}
    \/ v \in perdidos \cup pisadas

\* Once writes and failures stop, the index ends up equal to Firebird and stays
\* so, whatever was lost, failed for good or overwritten before.
IndiceConverge == <>[](\A v \in Venta : indice[v] = version[v])

-----------------------------------------------------------------------------
(* The inductive invariant *)

\* An event still pending, or left so by this tick, has attempts left.
PendienteConIntentos ==
  \A i \in DOMAIN eventos :
    /\ eventos[i].estado = "nuevo" => eventos[i].attempts < MaxAttempts
    /\ Quedara(i).estado = "nuevo" => Quedara(i).attempts < MaxAttempts

\* The tick claims what others see pending, and marks it once.
TickReclama ==
  /\ dpc = "reposo" => DOMAIN marcas = {}
  /\ lote \cap DOMAIN marcas = {}
  /\ \A i \in lote \cup DOMAIN marcas : eventos[i].estado = "nuevo"
  /\ \A i \in DOMAIN marcas : marcas[i].venta = eventos[i].venta

\* The events of venta v that this tick does not leave processed.
Vivos(v) ==
  {i \in DOMAIN eventos : eventos[i].venta = v /\ Quedara(i).estado # "procesado"}

PorDrenar(v) == \E c \in porDrenar : c.venta = v

\* Even the marks not committed yet leave an event to whoever needs it.
AtrasadaConVivo ==
  \A v \in Venta :
    indice[v] = version[v] \/ PorDrenar(v) \/ Vivos(v) # {} \/ v \in perdidos \cup pisadas

\* What the handler has read is the venta as it is, or another event follows.
LeidaVigente ==
  dpc = "indexar" =>
    \A v \in Venta : v = eventos[E].venta =>
      leida = version[v] \/ PorDrenar(v) \/ Vivos(v) \ {E} # {} \/ v \in perdidos

\* The worker's page was true when it was read.
FotoPosible == \A d \in foto : d.n <= version[d.venta]

\* All of it holds between two steps of the requests, the Dispatcher and the worker.
OutboxIInv ==
  /\ OutboxTypeOK /\ PendienteConIntentos /\ TickReclama /\ AtrasadaConVivo
  /\ LeidaVigente /\ FotoPosible
=============================================================================
