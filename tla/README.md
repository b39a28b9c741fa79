# A TLA+ model of msp-api

`msp-api` is the HTTP API (Go) that a furniture-on-credit business runs on top
of the Firebird database of its ERP, Microsip. The API and the Microsip desktop
GUI write the same database; phones in the field sync from it, upload payments,
sales and visits with bad connectivity, and retry. This directory holds TLA+
modules that model the parts of the system where that makes things hard, TLC
configurations that check them on small instances, and TLAPS proofs for every
instance.

    tlc  -workers 2 -config PagosRecibidos_completo.cfg MCPagosRecibidos
    tlapm PagosRecibidos_proofs.tla

Paths below are relative to `src/internal/` unless they begin with another
directory of the repository. Names in the modules follow the code, Spanish
where the code is Spanish.

## 1. Inventory

### 1.1 The database as shared memory

Everything meets in Firebird. All transactions of the API are READ COMMITTED
(`platform/firebird/transaction.go`); `RunInTx` is re-entrant and re-uses the
transaction in its context; `WITH LOCK` gives row locks. `RunInReadTx` is not
read-only for the server: the driver ignores the flag, so a reading request
also counts as an active transaction for the watermark. Microsip's triggers
and the migrations' (`migrations-firebird/`) maintain two caches,
`MSP_SALDOS_VENTAS` and `MSP_PAGOS_VENTAS`, and two changelogs, inside whatever
transaction writes. Files (images), Meilisearch, WhatsApp, Firestore and the
in-memory bus are outside every transaction.

### 1.2 Components

| component | state it keeps | operations | interacts with | what is hard | what makes it correct |
|---|---|---|---|---|---|
| pago pipeline (`cobranza/app`) | `MSP_PAGOS_RECIBIDOS` (P/A, INTENTOS), `DOCTOS_CC`, saldo | create, force apply, retry worker | row locks; Microsip writer; saldo trigger | two transactions per apply; concurrent callers; lost COMMIT answers; crash between the two; poison rows | one document per pago; an applied row is final; each failure counts one; every pendiente ends |
| comprobantes de pago (`cobranza/app`) | imagen rows, blobs on disk | upload with the pago, attach, delete | storage outside the transaction | compensation on rollback, replay, concurrent requests on one key | a row has its blob; no orphan unless something failed; all images or none |
| changelog listener (`cobranza/infra/ventfb`) | cursor in memory, connection | event loop, watermark probe, reconnect | POST_EVENT, changelog, event bus | two goroutines on one cursor; in-flight transactions; drops | no row is skipped without a known cause; no event is wasted; history is not replayed |
| cursor sync (`cobranza/infra/ventfb`) | caches; the phone's cursor and copy | page, by-ids, digest | writers' transactions, clock, watermark | stamped when written, visible when committed | nothing falls behind the cursor but for named causes; the rest arrives |
| outbox (`platform/outboxfb`, `*outbox`) | `MSP_OUTBOX_EVENTS` | enqueue, tick, mark | handlers, Meilisearch | at-least-once; batch commit; late, repeated and reordered events | stale index implies something pending; final is final; the index converges |
| idempotency (`platform/idempotency`) | `MSP_IDEMPOTENCY_KEYS` | get, save, purge | every POST/PATCH | no in-flight mark; expiry; fail-open | honest, stable replays; second execution only with a cause |
| failed intents (`platform/failedintent`) | `MSP_FAILED_INTENTS`, blobs on disk, the janitor's cut | capture inside and outside the auth chain, merge of retries, custody header, close on success, resolve, replay, reconcile, purge, boot sweep | wraps idempotency and auth; asks each module what landed | a merge that reads a row, loses the race and inserts; a replay against the device's own retry; two statements of a purge; blobs outside the transaction | a row's body is on disk; custody confirmed lasts until a retention; a row is closed only with a cause and then moves only by a replay that landed; what landed stops being pending |
| event bus, sync epoch (`platform/eventbus`, `cobranza`) | subscriber channels; epochs with a 30 s cache | subscribe, publish, close; read epoch | listener, SSE handlers | latest-wins coalescing; close under publish; stale cache | a wakeup is never the one that is lost; no send on a closed channel |
| ventas (`ventas`) | venta with VERSION, productos, combos, vendedores, image rows and blobs, `DOCTOS_PV`, the caja's folio counter | create with photos, edit data or lines, send to review, approve, send back, cancel, attach and delete photos, apply to Microsip | inventario, auth, outbox, storage | every command decides on an old copy and writes it back under compare-and-swap; photos are under no version; apply locks the row but not the counter | one Microsip sale per venta, of the approved lines; legal state changes only; a photo row has its blob |
| inventario (`inventario`) | traspasos and their details | create for venta, resync, reverse | Microsip inventory, NO WAIT locks | stock checked in an earlier transaction; resync racing with edit and cancel | net reservation equals the venta's articles |
| garantias (`garantias`) | folios, articles, events, images | open, advance, decide, close, cancel | blobs, signatures | many commands over one state machine; retries by fingerprint | legal transitions; a closed folio has no open article |
| visitas (`visitas`) | visits, images | register, attach, announce | storage, bus | idempotency on UUID | as comprobantes |
| canal (`canal`) | WhatsApp mailbox, in SQLite at the edge; a circuit breaker in memory | receive a batch, forward with retries under the breaker, mark, send | Meta's webhooks, the store's endpoint | batches redelivered whole, also while being served; half-stored batches; an outage of the store; an answer or a mark that is lost; a breaker that stays open | acknowledged implies stored; only a refusal gives a message up; every repetition has a lost answer behind it; nobody is overtaken untried; everything is forwarded or refused in the end |
| reactivacion (`reactivacion`) | cohort, send queue `MSP_RX_MENSAJES`, conversation, append-only decisions | queue openers (single flight), drain under the gobernador, receive, approve, edit, escalate, dictate | canal, analytics, LLM | two drains over an unclaimed queue; a send between two transactions; conversations read before the LLM is called and written whole after it; CREATED_AT taken before the call | one opener per cliente; rows, FUE_CONTACTADO and the sender agree; the cap is exceeded only by drains that miss each other's sends; a draft is queued once; an escalation stays; a draft stays visible |
| comprobantes (`comprobantes`) | domain only, `Envio` state machine | claim, send, retry, stop | no caller yet | - | legal transitions |
| analytics, clientes, rutas, desempeno, flota, config, microsip | read models, snapshots, catalogs | queries, periodic refresh | Firebird, Firestore, Meilisearch, LLM | little: single writer, whole refresh | formulas (tested in Go against fixtures) |
| auth (`auth`) | users, roles, permissions | sync from Firebase, assign | Firebase, outbox | duplicate first logins | one user per email and UID |
| platform glue | configuration, logging, middleware, lifecycle, pagination, validation | - | all | start/stop order | - |

### 1.3 How they interact

A phone's `POST /pagos` crosses failed-intent capture, authentication, the
idempotency middleware and then the pago pipeline, which stores images, inserts
the row and pushes it into Microsip in one transaction. Microsip's trigger
rewrites the caches and appends to the changelog in that same transaction, and
POST_EVENT fires at COMMIT. The listener wakes, reads the changelog under the
watermark and publishes ids to the bus; SSE handlers tell phones, which fetch by
id or page with the cursor sync. Ventas follow the same path up to their COMMIT
and then drain events to the outbox, which feeds Meilisearch.

## 2. Modules

| module | models | composes or refines |
|---|---|---|
| `CobroUnaVez` | what the pago pipeline promises: a pago counts failures, then is charged once, for good | abstract specification |
| `PagosRecibidos` | create, force apply and retry worker, step by step | implements `CobroUnaVez` |
| `VentaUnaVez` | what ventas promises: exact reservation until cancelled, one sale of the lines it had, then nothing changes | abstract specification |
| `VentaAplicada` | every command of ventas with the traspasos of inventario and the writer of Microsip | implements `VentaUnaVez` |
| `ComprobantesPago` | imagen rows and blobs | - |
| `IntentosFallidos` | capture, merge, custody, replay, janitor | - |
| `Idempotencia` | the middleware, its store and its janitor | - |
| `TransaccionesFb` | transaction ids, active set and watermark | extended by the next two |
| `EscuchaCambios` | the listener's two goroutines with the writers | `TransaccionesFb` |
| `CursorSync` | the paged syncs of pagos, saldos and ventas with the writers | `TransaccionesFb` |
| `OutboxVentas` | requests, dispatcher, reindex handler, reconcile worker | - |
| `BuzonCanal` | the WhatsApp mailbox: webhook, rows, worker, retries, breaker | - |
| `EnviosReactivacion` | the send queue: openers, approved replies, drains, cap | - |
| `Copiloto` | inbound messages and the operators' actions on one conversation | its `GuardaAprobado` is the `EncolarAprobado` of `EnviosReactivacion` |
| `X_proofs` | theorems about `X`, for `PagosRecibidos`, `ComprobantesPago`, `Idempotencia`, `BuzonCanal`, `VentaAplicada` | - |
| `SyncCobranza_proofs` | theorems about `EscuchaCambios` and `CursorSync`, both under the watermark | `TransaccionesFb` |
| `Plataforma_proofs` | theorems about `IntentosFallidos` and `OutboxVentas` | - |
| `Reactivacion_proofs` | theorems about `EnviosReactivacion` and `Copiloto` | - |

`MC*` modules hold the values TLC uses for constants. Every definition marked
"Mutant" is not part of a specification: it is a way the definition after it
could plausibly be wrong, kept to show that the properties notice.

### 2.1 PagosRecibidos

State: `fila` is the committed table, `doctos` and `saldo` are Microsip's side,
`candado` the row locks (the primary-key wait of an uncommitted INSERT is one
too), and each process has a `pc`, the pago it works on (`arg`) and the
aggregate it read (`leida`). `Insertar` ... `Commit` are the first transaction,
`LockFallo`, `Releer`, `AnotarFallo` the second (`registrarFalloAparte`).
`Tick` takes the snapshot `ListPendientes` returns and `Siguiente` walks it.
`CommitIncierto` is a COMMIT whose answer is lost, `Abortar` any failure of our
own, `Reinicio` the death of the process. The backoff is one bit per pago: it
runs or it has passed; its arithmetic is not modelled.

### 2.2 ComprobantesPago

Blobs are keyed by pago and imagen (`newStorageKeyPago`). A request stores blobs
one at a time, runs its transaction, and on any outcome but a first COMMIT
deletes what it stored, one call at a time; each call may fail, which the code
logs and forgets. The validation before storage either ends the request or not.
Requests may bring ids of their own or repeat those of another, as a retry with
stable `id_<n>` does. `subidas` is a history variable: the keys each request has
called `storage.Store` with; `Repetida(k)` says that two have with `k`.

### 2.3 TransaccionesFb, EscuchaCambios, CursorSync

Transactions get increasing ids and end in any order. The watermark is the
oldest active id, or a sentinel above all ids when none is active. In
`EscuchaCambios` a goroutine reads the watermark (`Sondear`), then the cursor
under its mutex (`Leer`), then queries, publishes and sets the cursor, each a
step of its own because the mutex is released in between. `Caida`,
`Desconectar`, `Reconectar`, `Suscribir` are the connection. In `CursorSync` the
two reads of `serverNowAndWatermark` and the page are three steps; `conMarca`,
chosen at the start, says whether the page filters by the watermark, as those of
pagos and saldos do, or reads it and throws it away, as that of ventas does.

### 2.4 OutboxVentas

A venta is a counter of committed changes. The index holds, per venta, the
change its document shows. `Mutar` is the COMMIT of the request and `DrainEvents`
the later transaction that inserts the event. One tick of the dispatcher is a
claim, a read and an upsert per event, and one COMMIT of all marks; the batch is
the set of the oldest pending events, handled oldest first, and the marks are
apart from the table until the COMMIT (`Quedara` applies them). A page of
the worker is a read and a push with anything in between; pages hold one venta
in the model, because ventas do not interact.

### 2.5 Idempotencia

A POST looks up, runs the handler and saves, three steps between which others
run. The table is a set of records with an expiry; `Save` is one atomic step
because its UPDATE, INSERT and unique violation are in one transaction that
waits for a concurrent one on the same key.

### 2.6 BuzonCanal

`lote`, `resto` and `bien` are the webhook calls being served: `Entregar` is
Meta's call, `Sellar` the reading of the clock for the message the loop in
`procesarEntrantes` is at (`atiende`, `sello`), `RecibirMensaje` and
`GuardarFalla` the INSERT that follows it in a step of its own, `Responder` the
answer, `CortarLlamada` a call whose answer Meta never reads. `estado` and `llego`
are the row (ESTADO, RECIBIDO_EN). Concurrent calls may therefore insert in the
opposite order of their stamps, or with equal ones. A stamp is a second and the
`Cifras` digits of its fraction, and there are two orders of them: `Anterior`,
that of time, and `Antes`, that of the text `formatUTC` writes without trailing
zeros, in which a stamp that was trimmed goes after those it is a prefix of
(`...00Z` after `...00.5Z`). The pass goes by `Antes`, equal stamps in any order;
the clock does not go back. `Tick` takes the snapshot `ListarPendientes` returns,
and the pass walks it one attempt at a time; each attempt asks the breaker
(`Permiso`), calls the store and tells the breaker of the outcome (`Anotar`). `intentos` counts `reliability.NewRetry`'s attempts;
its delays are not modelled. The breaker is failsafe-go's, external to the
repository: closed with the length of its run of failures, open until its delay
passes (`plazo`), half-open with the length of its run of successes. What the store
does with a message is one atomic outcome, counted in `turnos`; the store keeps
no wamid, so a message forwarded again is processed again. `sinAcuse`,
`pospuestos` and `tardios` (pairs: inserted after a later one was on its way) are
history variables the properties speak through: no guard reads them.

### 2.7 VentaAplicada

`fila` is the header row with its VERSION, `lineas` the productos and combos,
`directos` the traspasos of a venta that nobody reversed, `doctos` the documents
made of it in Microsip. A goroutine (`hilo`) keeps the command it runs and the
copy it read. `LeerCabecera` and `LeerLineas` are the two halves of `FindByID`,
between which others commit; `Guardar` takes the row and compares VERSION,
moves the reservation and may be refused by the stock; `Confirmar` is the COMMIT.
`TomarVenta` ... `MarcarAplicada` are `AplicarVenta`: the row is locked first and
checked again, the folio is read without a lock (`LeerFolio`), and the UPDATE of
`FOLIOS_CAJAS` is where two applies of one caja meet (`caja`). Photos are stored
one at a time before the row, and compensated (`Limpiar`) when it does not
commit; `EliminarImagen` deletes row, then blob. Lines are a quantity and a
warehouse: enough to tell a stale reservation from a right one. `subidas` and
`aprobado` are history. Left out: sellers, cajas, prices, and the cliente's own
data beyond whether there is one.

### 2.8 IntentosFallidos

Captures are numbered in the order of their RECEIVED_AT, and begin when the
response is known: before that a request touches nothing shared. `Busca` reads
the pending row of the key and `EscribeFila` merges into it (`SeFunde`) or, when
it is not pending any more, inserts; `Limpia` then deletes whichever blob was
left over (`Sobra`). A body is described by what the merge rule looks at (blob,
truncation, length) and by `integro`, which no action reads: whether it is all
the phone meant to send. `Fuera` is the instance outside the auth chain, whose
rows have no requester. A replay is `Lee`, `Despacha` and `Anota`; the janitor's
round is the reconciliation and two purges, each a read of paths and a delete of
rows; `Reinicia` is a crash with the boot sweep of orphans.

### 2.9 EnviosReactivacion and Copiloto

`EnviosReactivacion`: a run of `EncolarEnSegundoPlano` takes `encolando`, reads
the clock and who has a message, and inserts all openers in one transaction with
that stamp; an approved reply carries a stamp of its own, so rows are committed in
another order than they are stamped. A drain takes the first `Limite` rows by
stamp, ties in any order (`ListarPendientes`, `Primeros`; no row is claimed),
counts the sent of today once, and then sends and records one message at a time,
oldest first. `Enviar` is outside any transaction and takes with it the clock read
after the send (`hoy`), which is the day the row will count for. Four history
variables tell the exceptions apart: `dudosos` has what two drains held at once
and what was sent and not recorded; `salioPor`, what the sender accepted from each
drain today; `rezagados`, the drains whose count misses a send of another, because
it was taken while that send was unrecorded or before it; and `desfasados`, what
those sent.

`Copiloto`: every operation reads (`LeeReloj`, `LeeConversacion`, the decisions),
is elsewhere for a while, and writes; the conversation is written whole. The
clock is read once per operation at the line the code reads it, which for an
inbound message is before the LLM is asked. The turnos and the texts are left
out: they are written with the decision and decide nothing.

## 3. Runs

| run | instance | shows |
|---|---|---|
| `PagosRecibidos_completo` | 2 pagos on one cargo, 1 request, worker one row per tick, 2 faults | charged once; exact counts; implements `CobroUnaVez`; every pendiente is applied or runs out of attempts |
| `ComprobantesPago_subidas` | 2 pagos, 4 imagen ids, 3 requests with new ids or with those of another, 2 faults | `IInv`: compensation is complete, and a row has its blob unless its key was uploaded twice or its COMMIT was in doubt; all rows of a pago or none, with the blobs |
| `EscuchaCambios_saltos` | 1 topic, 2 transactions, 2 rows, batches of one, a drop, a failed query | skips have one of two causes; no event whose row fits its batch is wasted |
| `CursorSync_pagina` | 2 rows, 3 transactions, 3 ticks, pages of one, with and without the watermark | what can be lost and why, in each kind of sync; the rest arrives |
| `OutboxVentas_indice` | 1 venta, 3 changes, batches of two, 2 failures, 1 crash | stale implies pending; convergence |
| `Idempotencia_repite` | 3 POSTs, 1 key, 2 bodies, 1 fault | honest and stable replays; causes of a second execution |
| `BuzonCanal_llega` | 2 webhook batches, 3 messages (one invalid, one the store refuses), 2 calls at once, 3 instants (a second's start and two tenths of it, so that stamps tie, follow and invert), passes of two, two attempts, a breaker that opens on one failure and closes on two successes, 2 faults | acknowledged is stored; refusals are the store's; repetitions and overtakings have causes; everything arrives |
| `VentaAplicada_ciclo` | 1 venta, 2 goroutines, 2 photos, 2 warehouses, two versions, 1 fault | one document, of the approved lines; exact reservation; no photo lost under fresh ids; implements `VentaUnaVez` |
| `VentaAplicada_folios` | 2 approved ventas of one caja, 2 goroutines | violation: both get the same folio |
| `IntentosFallidos_custodia` | 2 captures (the second may have no key), 1 replay, operator, janitor, crashes | bodies on disk; closing has a cause; custody lasts; a closed row moves only by a replay that read it closed and landed; what landed stops being pending |
| `EnviosReactivacion_cola` | 2 clientes, one of control, 2 runs, worker (batches of 1) and 1 request (batches of 2), cap 1, 1 approved reply, 2 readings of the stamping clock, 1 fault | one opener each; rows, FUE_CONTACTADO and sender agree; how the cap may be exceeded; the queue empties |
| `Copiloto_borradores` | 3 operations, 2 queued drafts, 4 decisions, 4 readings of the clock | a draft queued twice, an escalation undone and a draft hidden each need operations that overlap |

**Bounds.** Each is named in its module's CONSTANTS. One fault is where a
recovery path runs, two where the recovery itself fails. A request and the
worker give every pairwise race on a pago. Three transactions are the fewest in
which an inversion of stamps and ids can hide behind a third. Batches and pages
of one or two make every batch boundary happen. Three changes of a venta make
events late, out of order and in different batches. Three POSTs are a race and a
latecomer. Two calls at once let Meta redeliver a batch that is still being
stored; a pass of two is where a message left behind is overtaken within the
pass. Two goroutines over one venta make every command run on a copy that
another made stale; `MaxVersion` ends the edits, not the photos. Two captures
are a first failure and its retry; a third brings only more of the same merges,
which the theorems cover. Two runs exercise the single flight, a request and the
worker the race of two drains, and batches of one and two let them overlap or be
disjoint. Three operations are two that overlap and one
begun after either. `SeCierra` needs `TopePendientes` to be no less than the
rows there are: the reconciliation always reads the newest, so under a smaller
cap an older row may wait for ever (section 5). `EntregaEventual` speaks of the
rows stamped before the last tick, since the margin of one second never passes
for those of the last.

**Deadlock.** Requests are served once, and writers, clocks and faults are
bounded, so most of these systems do come to rest: their cfg says so.
`CursorSync`, `OutboxVentas`, `VentaAplicada`, `IntentosFallidos` and
`EnviosReactivacion` go on for ever and are checked for deadlock.

**Fairness.** Weak fairness is used on steps the code's own loops take: tickers
(`time.Ticker`), goroutines in their loops, transactions of the server that end,
timers that pass, and the phone that polls. Requests are not assumed to arrive,
faults are not assumed to happen or to stop except by their bound, and no
handler is assumed to succeed except where its failures are bounded. Strong
fairness is used in three places, each for something that is tried again and
again and may fail any one time: the delivery of a page (`EntregaEventual`), the
janitor's reconciliation, whose query may fail in a round but not in every round
(`SeCierra`), and the send of a message, because the hour and the jitter of the
gobernador refuse but not for ever and midnight comes (`SeDespacha`). In
`BuzonCanal` Meta insists until it reads a 200, as its webhooks do, calls that
were accepted are served (which batch and which call is left open), the ticker
ticks and the breaker's delay passes; faults are finitely many, so `TodoLlega`
says nothing of a message the store answers 5xx for ever.

## 4. Proofs

The safety of all eleven components is proved, for any sets and any bounds, in
eight modules of proofs; the only assumptions are those on the constants
(`PagosAssumption`, `BuzonAssumption`, ...). Each proof rests on an inductive invariant, `IInv` (`SyncIInv`,
`OutboxIInv`, `CopilotoIInv` in the modules that share a proof module with
another). In most modules it was checked with TLC before it was proved; the three
named last and that of `ComprobantesPago` still are invariants of their runs.

| module | theorems | statements |
|---|---|---|
| `PagosRecibidos_proofs` | `TipoCorrecto`, `Invariante`, `UnSoloCobro`, `SinHuerfanos`, `AplicadaNoCambia`, `CadaFalloCuentaUno`, `NadieNacePendiente`, `Implementa` | `[]TypeOK`, `[]IInv`, `[]CobroUnico`, `[]FilaYMicrosipConcuerdan`, `AplicadaEsFinal`, `IntentosExactos`, `CreacionSinPendientes`, `ImplementaCobro` |
| `ComprobantesPago_proofs` | `CompensacionCompleta`, `Invariante`, `ComprobanteAbre`, `PagoCompleto` | `[]HuerfanoConDueno`; `[]IInv`, `[]FilaConBlob`, `PagoConSusImagenes` |
| `SyncCobranza_proofs` | of the listener: `Invariante`, `SaltoExplicado`; of the cursor sync: `SyncInvariante`, `PerdidaConInversion`, `PerdidaConCausa`, `MargenBasta`, `NadaRetrocede` | `[]IInv`, `[]SaltoConCausa`; `[]SyncIInv`, `[]PerdidaSoloPorInversion`, `[]PerdidaSoloOculta`, `[]VentaPerdidaSoloLenta`, and that no step takes the cursor or a row of the phone back |
| `Idempotencia_proofs` | `Invariante`, `RepiteFielmente`, `SegundaConCausa`, `PrimeroGana` | `[]IInv`, `[]RepeticionFiel`, `[]EjecutaOtraVezConCausa`, `RespuestaEstable` |
| `BuzonCanal_proofs` | `BuzonInvariante`, `NoSePierde`, `NoSeAbandona`, `RepeticionesContadas`, `EnOrden`, `FinalParaSiempre` | `[]IInv`, `[]AcusadoGuardado`, `[]FallidoPorRechazo`, `[]TurnosExplicados`, `[]AdelantoConCausa`, `TerminadoEsFinal` |
| `VentaAplicada_proofs` | `Invariante`, `VendidaUnaVez`, `ReservaSiempre`, `FotoConBlob`, `Implementa` | `[]IInv`, `[]DoctoDeLoAprobado`, `[]ReservaNeta`, `[]ImagenConBlob`, `ImplementaVenta` |
| `Plataforma_proofs` | of failed intents: `Invariante`, `CuerpoEnDisco`, `CierraConCausa`, `HistoriaSeCierra`, `EnCustodia`; of the outbox: `OutboxInvariante`, `NingunaOlvidada`, `EventoFinal` | `[]IInv`, `[]FilaConBlob`, `[]CierreConCausa`, `HistoriaCerrada`, `Custodia`; `[]OutboxIInv`, `[]AtrasadaConEvento`, and that an event processed or failed stays as it is |
| `Reactivacion_proofs` | of the queue: `Invariante`, `UnaSolaApertura`, `MedicionHonesta`, `TopeRespetado`; of the copiloto: `CopilotoInvariante`, `DobleAprobacionExplicada`, `RetomaExplicada`, `NingunBorradorOculto` | `[]IInv`, `[]AperturaUnica`, `[]Medicion`, `[]TopeConCausa`; `[]CopilotoIInv`, `[]AprobadoUnaVez`, `[]TomaConCausa`, `[]BorradorVisible` |

**PagosRecibidos.** `CobroUnico` is not inductive: that two documents do not
belong to one pago depends on the row saying so, on nobody else being past the
check, and on document numbers being fresh. `IInv` adds exactly that: rows and
documents agree; a process inside its critical section holds the lock of its
row (`CandadoEsSuyo`); what it read under the lock is still what the row says
(`LecturaVigente`); a document number in flight is nobody else's
(`DoctosFrescos`); rows that are not there have no attempts, and only a creation
works on one. The actions that write the row have lemmas of their own, and the
others follow from lemmas on a process that moves without touching the tables.
The theorems say nothing of the saldo, which the code does not protect.

**ComprobantesPago.** A blob without a row always has a request that answers for
it (`HuerfanoConDueno`). Nothing is assumed of the ids. The invariant speaks of
each key by itself (`BlobsPropios`): as long as only one request has uploaded it,
its blob is there until that request's transaction ends, its row appears only when
that request has ended, and whoever deletes the blob then deletes one no row
names; once a second request uploads the key there is no such promise (`Repetida`,
which no step takes back). The exception is as narrow as the code allows: one
retry of a stored creation under its ids is enough to lose the blobs (section 5).

**EscuchaCambios.** Each goroutine that handles a batch has in hand rows from
the cursor it read up to the last of them (`EnMano`, `HastaAqui`, stated for
every cursor and every hand), so that setting the cursor skips only what was not
visible when the batch was read. What was not visible was of a transaction
active at the watermark's reading, or below it by an inversion; a lemma on the
watermark (no active id is below it) separates the two. The minimum and maximum
of a set of naturals that they need come from well-founded induction, cited from
the library for sets, not as an operator.

**Idempotencia.** A record keeps the body and the answer of an execution that
took place, one record per key, and a POST past its lookup saw what the history
says; a second execution is then one whose lookup met no live record.

**BuzonCanal.** A call without a failure so far has left a row for everything it
went through (`EnCurso`), which is what makes a 200 safe. The snapshot of the
worker holds pendientes only, none of which goes before the one it is at, though
rows are inserted meanwhile (`Pasada`); so a mark never touches a finished row. A
message no pass has tried goes before one of a pass it is not in only if it was
inserted after that one was taken (`Llegadas`), and an older stamp sorts first
unless it is a prefix (`OrdenDeTexto`): hence the causes of an overtaking. The
proof needs neither a clock that never goes back nor stamps that differ. A step
is the worker's or it is `Aparte`, which at most inserts a row.

**VentaAplicada.** The copy a command is about to write back is the row, or the
row has a later version (`CopiaVigente`); under the lock it is the row
(`CopiaBloqueada`); an approved venta still has the lines that were approved
(`AprobadaSinCambios`). From these the core (`Nucleo`) gives the document, the
reservation and the step simulation of `VentaUnaVez`, in which each COMMIT is one
abstract step and everything else a stutter. Photos are apart: a key written
once is the business of one command at a time (`BlobDeUno`).

**IntentosFallidos.** The question is who may name a blob at each moment. Until
a capture writes its row nobody else names it (`SinNombrar`); two rows never
share a blob, and whoever is about to delete one knows whose it was
(`BlobsAparte`). What is about to close a row knows that its work landed
(`CierraLoHecho`). Custody is an action property: the row a confirmation speaks
of is there at that step, and every later step keeps a row of that work or is a
purge whose cut the row satisfies.

**EnviosReactivacion.** A message that is not in doubt is in the hands of one
drain at most (`UnaSolaMano`), because a drain that takes a message another holds
puts it in doubt; the drains may still hold disjoint batches, so this says
nothing of the cap. The cap is two counting arguments. A drain's count covers
what it has itself sent today and recorded, but for messages in doubt
(`CuentaPropia`). And the count of a drain that misses no send covers every row of
today, and nobody else is about to record one (`CuentaAlDia`); so what such a
drain sends stays under the cap together with whatever is recorded or about to be
(`TopeDeLosContados`), and the rest is `desfasados`. Any `Limite` will do. `Guardia`
says what the single flight protects: the run that is active read the clientes
after the last openers were stored. It needs the set of clientes finite.

**CursorSync.** That a lost version has a cause is not inductive: the row may be
lost at the moment its transaction commits, when the cursor has long passed its
stamp. So the cause is asked for as soon as the cursor passes a row still pending
(`PendienteConCausa`). It comes from what a page knows: between reading the
watermark and the query, a pending row it may pass over is of a transaction at or
above the watermark (`MarcaVigente`), because what an older transaction writes
from then on is stamped above `upper`, which is behind the clock (`EnElPasado`).
The page itself is closed under the order of the cursor (`PaginaCerrada`): it
holds the first `LimitePagina` rows, so a row at or before its last row is in it
or was not eligible. That is an argument on cardinalities, and that a page that
is not empty has a last row a least-number one. For the sync of ventas there is
no watermark, and the same argument ends in the margin. `VersionesEnOrden` is for
`NadaRetrocede`: versions of a row are stamped in the order they commit, since
the row lock is held until then.

**OutboxVentas.** What others see of the table is too weak during a tick, whose
marks are not committed: `AtrasadaConVivo` says that even with them applied a
venta out of date has a live event. Before the upsert, what the handler read is
current or another event follows (`LeidaVigente`), because a later change is
still to drain or drained after the claim. A tick that is lost loses marks of
rows the table still says are pending (`TickReclama`), so `AtrasadaConEvento`
follows with and without the COMMIT; a page of the worker was true when it was
read (`FotoPosible`), so it puts a document that was current out of date only by
making it older, which is `pisadas`. That a claim takes at most `BatchSize` events is
proved by mapping each to the number of those before it.

**Copiloto.** The log of decisions only grows, so each property is an invariant
of the log once an operation in flight is known to be able to keep it (`EnVuelo`):
the draft it approves was approved by nobody it could list, its copy of the
conversation is one whose escalations it saw were taken back already, and its
reading of the clock is later than all it found stored. From `SelloPosterior` the
newest decision exists and is the one `Vigente` chooses, which `BorradorVisible`
needs; `ColaAprobada` ties queue and log, one message to one approval.

**Model-checked only.** Liveness (`Drena`, `EventoAtendido`, `EntregaEventual`,
`IndiceConverge`, `TodoLlega`, `SeCierra`, `SeDespacha`) is beyond the prover, and
the violation of `FoliosUnicos` is a counterexample. No safety property of a run
is left without a theorem.

## 5. Disagreements between code and documentation

One is a run that ends in a violation and a finding in `PROJECT.json`:
`VentaAplicada_folios`. `Aplicar` reads the counter of the caja without a lock,
so two ventas applied at once get one folio, where
`docs/microsip-crear-venta-paso-a-paso.md:71-73` asks to reserve it. The others
were met while modelling; the models show them and no run is kept for them.

Pagos and cursors:

- Two creations on one cargo may overdraw it: `validateCargo` reads the saldo
  outside the creating transaction (`cobranza/app/crear_pago.go:99`), against
  `cobranza/domain/pago_recibido.go:116-117`. `SaldoNoNegativo` in
  `PagosRecibidos` states what does not hold.
- The retry of an applied pago is judged against the saldo that pago lowered,
  and refused.
- "The client should send stable IDs for replay safety"
  (`cobranzahttp/multipart_helpers.go:132-134`), and the second call of a creation
  "returns the existing pago without rewriting blobs"
  (`cobranza/app/crear_pago_con_imagenes.go:54-60`): the second call stores the
  blobs first, under the same keys, finds the pago and deletes them as its own, so
  the stored pago loses its comprobantes. `FilaConBlob` and `PagoConSusImagenes`
  except just the keys that two requests uploaded.
- The changelog cursor passes a row of a transaction in flight: `SaltoConCausa`
  is as much as holds.
- The watermark probe is dead after its first tick with no active transaction:
  the sentinel is kept in `lastObservedWatermark` and nothing is ever larger
  (`cobranza/infra/ventfb/fb_event_listener.go:500`, against its comment :21-25).
- The wakeup after an outage is published before `Subscribe`; a commit between
  the two is announced by nobody (`fb_event_listener.go:327`, against :325-326).
- The cursor sync can lose a row that a younger transaction stamped before an
  older one's: `PerdidaSoloPorInversion` is as much as holds, where
  `docs/adr/0007-cobranza-push-watermark.md:41` says zero by construction. That
  of ventas discards the watermark and trusts the margin, which covers only
  transactions shorter than it (`ventas_repo.go:187-195`; `VentaPerdidaSoloLenta`).

Ventas and inventario:

- `CrearVentaConImagenes` has no guard for a venta that is already there
  (`ventas/app/crear_venta_con_imagenes.go:99`): the retry of a creation rewrites
  the keys of the stored photos, fails and deletes them. `ImagenConBlob` speaks of
  keys written once.
- The stock is checked in an earlier transaction than the one that reserves
  (`crear_venta_con_imagenes.go:80`): two ventas may reserve the same piece.
- `EliminarImagen` writes under no version: it may remove the last photo that
  `aplicar_venta.go:143-151` counted.
- `AdjuntarImagen` mints the id of a photo in the server
  (`handlers_imagenes.go:38`): its retry is a second photo.

Outbox and idempotency:

- The outbox row is not in the business transaction: `drainEvents` runs after
  `RunInTx` returns and its failure is logged (`ventas/app/service.go:451`),
  against `docs/module-standards/CQRS_PATTERN.md:109` and ADR 0008.
- `outboxfb` retries with no backoff, every tick, where
  `ventas/infra/ventoutbox/search_handler.go:60` speaks of one: ten failures take
  about twenty seconds.
- The idempotency middleware never answers 409 for a key in flight;
  `ErrInProgress` is declared and unused (`platform/idempotency/idempotency.go:61-64`).

Mailbox:

- "Returns pending rows oldest-first" (`canal/infra/canalsqlite/queries.go:20`):
  the stamp is read before the INSERT (`canalhttp/webhook.go:297`) and compared as
  text without its trailing zeros (`timeutil.go:15-22`), so a newer message may be
  listed, or forwarded, before an older one no pass has tried. `AdelantoConCausa`
  says exactly when.

Failed intents:

- "Re-replay of a terminal intent is permitted but it does NOT change the status"
  (`failedintent/failedintent.go:95-96`), and what an operator ignored or resolved
  by hand is skipped (rule 4, `failedintent/http/handlers.go:660-661`): a replay
  that lands moves any of them to retried_ok, as rule 1 of the same comment says
  (:651-654, :672-675; `TransitionAfterReplay` asks only for the status that was
  read). `CerradoEsFinal` in `IntentosFallidos` states what the first two say and
  does not hold. `HistoriaCerrada` is as much as does: that replay is the only
  exception, and it must have read the closed status itself, so no merge, no
  reconciliation and no replay begun before the closing undoes it.
- An upload the phone cut is stored as if complete, and its merge replaces a
  whole body (`failedintent/firebird/store.go:331`, against :302). `NuncaPeor` in
  `IntentosFallidos` states it: it fails as soon as `Formas` has `"cortado"`.
- `X-Intent-Captured` is sent although the blob could not be saved and the row
  has no body, where `failedintent.go` says of the header that the request is
  stored and recoverable. After a merge the header carries an id no row has.
- The reconciliation restarts at the newest page on every tick, so pending rows
  beyond its page cap are never reached, where its comment leaves them to the
  next tick.
- The retention counts from the RECEIVED_AT of the first attempt, so a merge does
  not extend it; only ventas answers the reconciliation; the comment on
  `intentoPendiente` (`store.go:97-98`) does not hold under READ COMMITTED: two
  captures of one key may insert two rows.

Reactivacion:

- `TopeDiario`, "the maximum number of ENVIADO messages allowed per business day"
  (`gobernador.go:40-42`), is not (`TopeSinExcepcion` in `EnviosReactivacion`
  states it): drains count once, before their batch, so two that overlap, with
  the same batch or with disjoint ones, each send up to the cap, and n drains up
  to n times it. `TopeConCausa` says that there is no other way to exceed it, and
  that a drain never does by itself. A message sent and not recorded escapes the
  count altogether.
- "Approving twice never sends the message twice" (`reactivacion/app/acciones.go:132-134`):
  two approvals that overlap both queue the draft (`AprobadoUnaVez` says exactly
  when). An approval approves whatever draft is newest, not the one shown.
- "Never regresses to conversando" (`procesar_entrante.go:322-325`): the check is
  on the copy read before the LLM was asked, and the row is written whole
  (`TomaConCausa`).
- A decision carries the clock reading from before the LLM was asked, so an older
  message may hide a newer draft or be hidden by it (`BorradorVisible`). The order
  of ties is that of the list, and the SQL orders by CREATED_AT alone.
- An inbound message that escalates clears the assignee
  (`MarcarEscalada("")`); "a human must always end up handling" a message
  (:214-219) fails when an answer begun earlier is stored later.
- The jitter is not kept across batches (`envio_service.go:163-165` says so;
  `gobernador.go` promises it of every send), and of two drains that hold one
  message the later record wins: a fallido may overwrite an enviado.
- A cliente of the control group may be written to through an approved draft.

## 6. What is not modelled

Money arithmetic and formatting, HTTP and JSON, SQL text, image processing,
permissions, and the read models of analytics, clientes, rutas, desempeno and
flota: sequential computation that Go tests with fixtures cover, or I/O. The
process is single (one API instance, as deployed): two dispatchers or two
workers at once are not modelled. Firebird itself is assumed to be what its
manual says of READ COMMITTED, `WITH LOCK`, generators and POST_EVENT at COMMIT.
Of the components that are modelled in part, the cursor sync leaves out its
balance and window filters, the outbox the purge of a venta that is gone,
failed intents the resumen and the error columns, ventas the sellers, cajas and
prices, and the mailbox its signature check and outbound send.
`PROJECT.json` lists every component with its reason.

## 7. What could come next

In order of weight:

1. `Garantias`: the folio state machine with its articles, fingerprints and
   blobs. Retries are recognised by fingerprint there, not by key.
2. `BusEventos`: the bus with coalescing and close, composed with
   `EscuchaCambios`, and the epoch cache.
3. The reconciler of the caches, as an extension of `CursorSync`.
4. Arithmetic: `backoffDelay` and the gobernador's windows as functions against
   a reference.
