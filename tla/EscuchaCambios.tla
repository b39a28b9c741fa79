---------------------------- MODULE EscuchaCambios ----------------------------
(***************************************************************************)
(* FbEventListener: the bridge from Firebird's POST_EVENT and changelog to *)
(* the in-process bus.  Two goroutines run handleEvent concurrently over   *)
(* the same cursor: the event loop, woken by POST_EVENT, and the watermark *)
(* probe, woken by a ticker.  The writers (the API and the Microsip GUI)   *)
(* append changelog rows inside transactions of any length.                *)
(***************************************************************************)
EXTENDS TransaccionesFb, FiniteSets

CONSTANTS
  Tema,       \* the topics, pagos_changed and saldos_changed
  Limite,     \* rows per Since query
  MaxSeq,     \* bound: rows per changelog
  MaxCaidas,  \* bound: drops of the event connection
  MaxFallas   \* bound: failed queries

ASSUME EscuchaAssumption ==
  /\ IsFiniteSet(Tema)
  /\ Limite \in Nat \ {0}
  /\ MaxSeq \in Nat /\ MaxCaidas \in Nat /\ MaxFallas \in Nat

VARIABLES
  registro,     \* MSP_*_CHANGELOG, [tema, seq, tx], in-flight rows included
  sigSeq,       \* [Tema -> next value of the changelog's generator]
  evento,       \* topics with a POST_EVENT delivered and not yet drained
  suscrito,     \* the event channel is open
  pc,           \* [Hilo -> Paso]
  temas,        \* [Hilo -> topics left to handle, the current one included]
  wm,           \* [Hilo -> watermark read]
  desde,        \* [Hilo -> sinceSeq read]
  filas,        \* [Hilo -> rows Since returned]
  lastSeenSeq,  \* [Tema -> the cursor]
  lastObserved, \* lastObservedWatermark
  inicio,       \* history: [Tema -> the cursor at Start]
  publicadas,   \* history: the rows whose id was published
  avisadas,     \* history: published, or covered by a later [] wakeup
  sinMarca,     \* history: published by a query with no watermark to respect
  caidas, fallas

entorno == <<sigTx, activas, registro, sigSeq>>
vars == <<entorno, evento, suscrito, pc, temas, wm, desde, filas, lastSeenSeq,
          lastObserved, inicio, publicadas, avisadas, sinMarca, caidas, fallas>>

Hilo == {"loop", "sonda"}
Fila == [tema: Tema, seq: 1..MaxSeq, tx: Tx]
\* Where a goroutine is.
Paso == {"parado", "arranque", "suscribir", "drenar", "esperar", "reposo",
         "sondear", "leer", "consultar", "publicar", "avanzar"}

\* READ COMMITTED: a query sees the rows of the transactions that ended.
Visibles == {f \in registro : f.tx \notin activas}

Init ==
  /\ TxInit
  /\ registro = {}
  /\ sigSeq = [t \in Tema |-> 1]
  /\ evento = {}
  /\ suscrito = FALSE
  /\ pc = [h \in Hilo |-> IF h = "loop" THEN "arranque" ELSE "parado"]
  /\ temas = [h \in Hilo |-> {}]
  /\ wm = [h \in Hilo |-> 0]
  /\ desde = [h \in Hilo |-> 0]
  /\ filas = [h \in Hilo |-> {}]
  /\ lastSeenSeq = [t \in Tema |-> 0]
  /\ lastObserved = 0
  /\ inicio = [t \in Tema |-> 0]
  /\ publicadas = {}
  /\ avisadas = {}
  /\ sinMarca = {}
  /\ caidas = 0
  /\ fallas = 0

-----------------------------------------------------------------------------
(* The writers *)

SinOyente == UNCHANGED <<pc, temas, wm, desde, filas, lastSeenSeq, lastObserved,
                         inicio, publicadas, avisadas, sinMarca, fallas>>

Empezar ==
  /\ Begin
  /\ SinOyente
  /\ UNCHANGED <<registro, sigSeq, evento, suscrito, caidas>>

\* A trigger of Microsip recomputes a row: MSP_RECOMPUTE_PAGO and
\* MSP_RECOMPUTE_SALDO_VENTA append to the changelog.
Escribir(x, t) ==
  /\ x \in activas
  /\ sigSeq[t] <= MaxSeq
  /\ registro' = registro \cup {[tema |-> t, seq |-> sigSeq[t], tx |-> x]}
  /\ sigSeq' = [sigSeq EXCEPT ![t] = @ + 1]
  /\ SinOyente
  /\ UNCHANGED <<sigTx, activas, evento, suscrito, caidas>>

\* COMMIT makes the rows visible and delivers one POST_EVENT per topic
\* written, to whoever is subscribed.
Confirmar(x) ==
  /\ Fin(x)
  /\ evento' = IF suscrito THEN evento \cup {f.tema : f \in {g \in registro : g.tx = x}}
               ELSE evento
  /\ SinOyente
  /\ UNCHANGED <<registro, sigSeq, suscrito, caidas>>

\* ROLLBACK leaves no rows; the generator keeps its gap.
Revertir(x) ==
  /\ Fin(x)
  /\ registro' = {f \in registro : f.tx # x}
  /\ SinOyente
  /\ UNCHANGED <<sigSeq, evento, suscrito, caidas>>

\* The event connection drops; events still in its channels may be lost.
Caida ==
  /\ suscrito
  /\ caidas < MaxCaidas
  /\ caidas' = caidas + 1
  /\ suscrito' = FALSE
  /\ evento' \in SUBSET evento
  /\ SinOyente
  /\ UNCHANGED entorno

-----------------------------------------------------------------------------
(* Start *)

MaxSeqID(t, w) ==
  LET vistas == {f \in Visibles : f.tema = t /\ f.tx < w} IN
  IF vistas = {} THEN 0
  ELSE (CHOOSE f \in vistas : \A g \in vistas : g.seq <= f.seq).seq

\* Mutant: the cursor starts at zero and replays history.
StartDesdeCero ==
  /\ pc["loop"] = "arranque"
  /\ inicio' = [t \in Tema |-> MaxSeqID(t, Watermark)]
  /\ UNCHANGED lastSeenSeq
  /\ pc' = [pc EXCEPT !["loop"] = "suscribir", !["sonda"] = "reposo"]
  /\ UNCHANGED <<entorno, evento, suscrito, temas, wm, desde, filas,
                 lastObserved, publicadas, avisadas, sinMarca, caidas, fallas>>

\* Start: the cursor of each topic is the newest row under the watermark, so
\* history is never replayed.  Then both goroutines are launched.
Start ==
  /\ pc["loop"] = "arranque"
  /\ inicio' = [t \in Tema |-> MaxSeqID(t, Watermark)]
  /\ lastSeenSeq' = inicio'
  /\ pc' = [pc EXCEPT !["loop"] = "suscribir", !["sonda"] = "reposo"]
  /\ UNCHANGED <<entorno, evento, suscrito, temas, wm, desde, filas,
                 lastObserved, publicadas, avisadas, sinMarca, caidas, fallas>>

-----------------------------------------------------------------------------
(* handleEvent *)

\* What the subscribers of t have been told once ids (or, empty, a wakeup that
\* makes them cursor-sync) are published.
Publicar(t, ids) ==
  /\ publicadas' = publicadas \cup ids
  /\ avisadas' = avisadas \cup
       (IF ids = {} THEN {f \in Visibles : f.tema = t} ELSE ids)

SinPublicar == UNCHANGED <<publicadas, avisadas, sinMarca>>

\* The topic in hand; the probe handles its topics one after the other.
Actual(h) == CHOOSE t \in temas[h] : TRUE

\* handleEvent returns: the loop goes back to its channel, the probe goes on
\* to its next topic or to its next tick.
Retornar(h) ==
  /\ temas' = [temas EXCEPT ![h] = @ \ {Actual(h)}]
  /\ pc' = [pc EXCEPT ![h] =
              IF temas[h] # {Actual(h)} THEN "sondear"
              ELSE IF h = "loop" THEN "drenar" ELSE "reposo"]
  /\ wm' = [wm EXCEPT ![h] = 0]
  /\ desde' = [desde EXCEPT ![h] = 0]
  /\ filas' = [filas EXCEPT ![h] = {}]

SinCursor == UNCHANGED <<entorno, evento, suscrito, lastObserved, inicio, caidas>>

\* The watermark is read first.
Sondear(h) ==
  /\ pc[h] = "sondear"
  /\ wm' = [wm EXCEPT ![h] = Watermark]
  /\ pc' = [pc EXCEPT ![h] = "leer"]
  /\ SinPublicar
  /\ SinCursor
  /\ UNCHANGED <<temas, desde, filas, lastSeenSeq, fallas>>

\* Then the cursor, under its mutex, which is released before the query.
Leer(h) ==
  /\ pc[h] = "leer"
  /\ desde' = [desde EXCEPT ![h] = lastSeenSeq[Actual(h)]]
  /\ pc' = [pc EXCEPT ![h] = "consultar"]
  /\ SinPublicar
  /\ SinCursor
  /\ UNCHANGED <<temas, wm, filas, lastSeenSeq, fallas>>

\* Since: the first Limite rows after the cursor and under the watermark.
Since(t, s, w) ==
  LET todas == {f \in Visibles : f.tema = t /\ f.seq > s /\ f.tx < w} IN
  {f \in todas : Cardinality({g \in todas : g.seq < f.seq}) < Limite}

\* Nothing new is published when the rows are still in flight or already seen.
Consultar(h) ==
  /\ pc[h] = "consultar"
  /\ LET nuevas == Since(Actual(h), desde[h], wm[h]) IN
       IF nuevas = {}
       THEN Retornar(h)
       ELSE /\ filas' = [filas EXCEPT ![h] = nuevas]
            /\ pc' = [pc EXCEPT ![h] = "publicar"]
            /\ UNCHANGED <<temas, wm, desde>>
  /\ SinPublicar
  /\ SinCursor
  /\ UNCHANGED <<lastSeenSeq, fallas>>

\* A failed probe or query wakes the subscribers up with no ids.
Falla(h) ==
  /\ pc[h] \in {"sondear", "consultar"}
  /\ fallas < MaxFallas
  /\ fallas' = fallas + 1
  /\ Publicar(Actual(h), {})
  /\ Retornar(h)
  /\ SinCursor
  /\ UNCHANGED <<lastSeenSeq, sinMarca>>

PublicarFilas(h) ==
  /\ pc[h] = "publicar"
  /\ Publicar(Actual(h), filas[h])
  /\ sinMarca' = IF wm[h] = Sentinela THEN sinMarca \cup filas[h] ELSE sinMarca
  /\ pc' = [pc EXCEPT ![h] = "avanzar"]
  /\ SinCursor
  /\ UNCHANGED <<temas, wm, desde, filas, lastSeenSeq, fallas>>

\* Mutant: the cursor jumps to everything visible, hidden rows included.
AvanzarDeMas(h) ==
  /\ pc[h] = "avanzar"
  /\ lastSeenSeq' = [lastSeenSeq EXCEPT ![Actual(h)] = MaxSeqID(Actual(h), Sentinela)]
  /\ Retornar(h)
  /\ SinPublicar
  /\ SinCursor
  /\ UNCHANGED fallas

\* The cursor is set, blindly, to the largest seq returned.
Avanzar(h) ==
  /\ pc[h] = "avanzar"
  /\ LET mayor == CHOOSE f \in filas[h] : \A g \in filas[h] : g.seq <= f.seq IN
       lastSeenSeq' = [lastSeenSeq EXCEPT ![Actual(h)] = mayor.seq]
  /\ Retornar(h)
  /\ SinPublicar
  /\ SinCursor
  /\ UNCHANGED fallas

-----------------------------------------------------------------------------
(* The event loop *)

SinManejar == UNCHANGED <<entorno, wm, desde, filas, lastSeenSeq, inicio>>

\* Subscribe succeeds; what was committed before is not looked at.
Suscribir ==
  /\ pc["loop"] = "suscribir"
  /\ suscrito' = TRUE
  /\ pc' = [pc EXCEPT !["loop"] = "drenar"]
  /\ SinPublicar
  /\ SinManejar
  /\ UNCHANGED <<evento, temas, lastObserved, caidas, fallas>>

\* Mutant: an event is dropped while the probe is handling one.
DrenarSiLibre ==
  /\ pc["loop"] = "drenar"
  /\ \E t \in evento :
       /\ evento' = evento \ {t}
       /\ temas' = [temas EXCEPT !["loop"] = IF temas["sonda"] = {} THEN {t} ELSE {}]
  /\ pc' = [pc EXCEPT !["loop"] = IF temas["sonda"] = {} THEN "sondear" ELSE "drenar"]
  /\ SinPublicar
  /\ SinManejar
  /\ UNCHANGED <<suscrito, lastObserved, caidas, fallas>>

\* drain takes an event from the channel.
Drenar ==
  /\ pc["loop"] = "drenar"
  /\ \E t \in evento :
       /\ evento' = evento \ {t}
       /\ temas' = [temas EXCEPT !["loop"] = {t}]
  /\ pc' = [pc EXCEPT !["loop"] = "sondear"]
  /\ SinPublicar
  /\ SinManejar
  /\ UNCHANGED <<suscrito, lastObserved, caidas, fallas>>

\* drain finds the channel closed, or Subscribe fails.
Desconectar ==
  /\ \/ /\ pc["loop"] = "drenar"
        /\ ~suscrito
        /\ evento = {}
        /\ UNCHANGED caidas
     \/ /\ pc["loop"] = "suscribir"
        /\ caidas < MaxCaidas
        /\ caidas' = caidas + 1
  /\ pc' = [pc EXCEPT !["loop"] = "esperar"]
  /\ SinPublicar
  /\ SinManejar
  /\ UNCHANGED <<evento, suscrito, temas, lastObserved, fallas>>

\* After the backoff, a wakeup for both topics, and only then Subscribe.
Reconectar ==
  /\ pc["loop"] = "esperar"
  /\ avisadas' = avisadas \cup Visibles
  /\ pc' = [pc EXCEPT !["loop"] = "suscribir"]
  /\ SinManejar
  /\ UNCHANGED <<evento, suscrito, temas, lastObserved, publicadas, sinMarca,
                 caidas, fallas>>

-----------------------------------------------------------------------------
(* The watermark probe *)

\* probeWatermarkOnce: a strict advance synthesizes an event per topic.
ProbeWatermarkOnce ==
  /\ pc["sonda"] = "reposo"
  /\ lastObserved < Watermark
  /\ lastObserved' = Watermark
  /\ temas' = [temas EXCEPT !["sonda"] = Tema]
  /\ pc' = [pc EXCEPT !["sonda"] = IF Tema = {} THEN "reposo" ELSE "sondear"]
  /\ SinPublicar
  /\ SinManejar
  /\ UNCHANGED <<evento, suscrito, caidas, fallas>>

-----------------------------------------------------------------------------
Escritores ==
  \/ Empezar
  \/ \E x \in activas : Confirmar(x) \/ Revertir(x) \/ \E t \in Tema : Escribir(x, t)

Manejar(h) ==
  Sondear(h) \/ Leer(h) \/ Consultar(h) \/ PublicarFilas(h) \/ Avanzar(h)

Next ==
  \/ Escritores
  \/ Caida
  \/ Start \/ Suscribir \/ Drenar \/ Desconectar \/ Reconectar
  \/ ProbeWatermarkOnce
  \/ \E h \in Hilo : Manejar(h) \/ Falla(h)

Spec == Init /\ [][Next]_vars

\* Goroutines are scheduled, tickers fire, and every transaction ends.
Fairness ==
  /\ WF_vars(Start) /\ WF_vars(Suscribir) /\ WF_vars(Drenar)
  /\ WF_vars(Reconectar) /\ WF_vars(Desconectar) /\ WF_vars(ProbeWatermarkOnce)
  /\ \A h \in Hilo : WF_vars(Manejar(h))
  /\ \A x \in Tx : WF_vars(Confirmar(x) \/ Revertir(x))

FairSpec == Spec /\ Fairness

-----------------------------------------------------------------------------
(* Properties *)

\* Types, and what a goroutine holds at each step of handleEvent.
TypeOK ==
  /\ TxTypeOK
  /\ registro \subseteq Fila /\ sigSeq \in [Tema -> 1..(MaxSeq + 1)]
  /\ evento \subseteq Tema /\ suscrito \in BOOLEAN
  /\ pc \in [Hilo -> Paso]
  /\ temas \in [Hilo -> SUBSET Tema]
  /\ wm \in [Hilo -> 0..Sentinela]
  /\ desde \in [Hilo -> 0..MaxSeq]
  /\ filas \in [Hilo -> SUBSET Fila]
  /\ lastSeenSeq \in [Tema -> 0..MaxSeq] /\ lastObserved \in 0..Sentinela
  /\ inicio \in [Tema -> 0..MaxSeq]
  /\ publicadas \subseteq Fila /\ avisadas \subseteq Fila /\ sinMarca \subseteq publicadas
  /\ caidas \in 0..MaxCaidas /\ fallas \in 0..MaxFallas
  /\ \A h \in Hilo :
       /\ temas[h] # {} <=>
            pc[h] \in {"sondear", "leer", "consultar", "publicar", "avanzar"}
       /\ filas[h] # {} <=> pc[h] \in {"publicar", "avanzar"}

\* A committed row the cursor of its topic has gone past with no id published.
Saltada(e) ==
  /\ e \in Visibles \ publicadas
  /\ inicio[e.tema] < e.seq
  /\ e.seq <= lastSeenSeq[e.tema]

\* What explains that e is skipped: a later row of its topic was published that
\* has an older transaction (SEQ_ID and TX_ID disagree), or that was read when
\* the probe had seen no active transaction at all.
Causa(e) ==
  \E f \in publicadas :
    /\ f.tema = e.tema /\ e.seq < f.seq
    /\ f.tx < e.tx \/ f \in sinMarca

\* A row is skipped only for those two reasons.  The cap on the batch, the two
\* goroutines sharing the cursor and a cursor that goes back lose nothing.
SaltoConCausa == \A e \in registro : Saltada(e) => Causa(e)

\* The cursor starts at what Start saw, and no race between the goroutines
\* takes it back into history: no row from before Start is ever published.
SinHistoria == \A f \in publicadas : inicio[f.tema] < f.seq

\* The changelogs as their generators and transactions leave them; what was
\* returned or published is committed.
EnOrden ==
  /\ IsFiniteSet(registro)
  /\ \A e \in registro : e.seq < sigSeq[e.tema] /\ e.tx < sigTx
  /\ \A e, f \in registro : e.tema = f.tema /\ e.seq = f.seq => e = f
  /\ publicadas \subseteq Visibles /\ \A h \in Hilo : filas[h] \subseteq Visibles

\* Position b of t is in no unwritten future, and what it leaves behind was
\* published or has its reason, in-flight rows included.
HastaAqui(t, b) ==
  /\ inicio[t] <= b /\ b < sigSeq[t]
  /\ \A e \in registro \ publicadas :
       e.tema = t /\ inicio[t] < e.seq /\ e.seq <= b => Causa(e)

\* What a goroutine read stays true while it is handled: nothing in flight is
\* under its watermark, its cursor, its batch and the rows its batch leaves out.
EnMano(h) ==
  /\ pc[h] \in {"leer", "consultar", "publicar", "avanzar"} =>
       \/ wm[h] = Sentinela
       \/ wm[h] < sigTx /\ \A t \in activas : wm[h] <= t
  /\ pc[h] \in {"consultar", "publicar", "avanzar"} => HastaAqui(Actual(h), desde[h])
  /\ \A f \in filas[h] : f.tema = Actual(h) /\ desde[h] < f.seq
  /\ pc[h] = "publicar" =>
       \A e \in registro \ (publicadas \cup filas[h]) : \A f \in filas[h] :
         e.tema = f.tema /\ inicio[e.tema] < e.seq /\ e.seq < f.seq
           => Causa(e) \/ f.tx < e.tx \/ wm[h] = Sentinela
  /\ pc[h] = "avanzar" => \A f \in filas[h] : HastaAqui(Actual(h), f.seq)

IInv ==
  /\ TypeOK /\ SinHistoria /\ EnOrden
  /\ pc["loop"] = "arranque" => pc["sonda"] = "parado" /\ publicadas = {}
  /\ \A t \in Tema : HastaAqui(t, lastSeenSeq[t])
  /\ \A h \in Hilo : EnMano(h)

Atendida(e) == e.seq <= lastSeenSeq[e.tema] \/ e \in avisadas

\* Nothing in flight is older than e: every later probe lets e through.
Asentada(e) == e \in Visibles /\ e.tx < Watermark

\* The lowest the cursor of t can be, now or when a goroutine that has read it
\* sets it again.
Base(t) ==
  {lastSeenSeq[t]} \cup
  {desde[h] : h \in {g \in Hilo : /\ pc[g] \in {"consultar", "publicar", "avanzar"}
                                /\ Actual(g) = t}}

\* No batch that starts at the cursor can be filled before it reaches e.
Cabe(e) ==
  Cardinality({f \in registro : /\ f.tema = e.tema /\ f.seq < e.seq
                                /\ \E b \in Base(e.tema) : b < f.seq}) < Limite

\* A delivered event is never wasted: a settled row that fits in the batch and
\* whose topic has an event pending is passed by the cursor or covered by a
\* wakeup, whatever the probe does meanwhile, and also when the connection
\* drops or a query fails.  Beyond the batch there is no such promise: the rest
\* waits for the next event.
EventoAtendido ==
  \A e \in Fila :
    (Asentada(e) /\ e.tema \in evento /\ Cabe(e)) ~> Atendida(e)
=============================================================================
