------------------------------ MODULE CursorSync ------------------------------
(***************************************************************************)
(* The incremental sync of a cobranza cache to one phone: SyncPorZona over *)
(* the (UPDATED_AT, pk) cursor, the one-second margin and the watermark.   *)
(* The triggers of the API's and Microsip's transactions stamp UPDATED_AT  *)
(* when a row is written, not when it is committed.  The syncs of pagos and*)
(* saldos hide what is at or above the watermark; the sync of ventas       *)
(* discards it and trusts the margin: conMarca tells them apart.           *)
(***************************************************************************)
EXTENDS TransaccionesFb, FiniteSets

CONSTANTS
  Pk,            \* primary keys of the cache rows of the zone
  LimitePagina,  \* rows per page
  MaxReloj       \* bound: ticks of the server's clock

ASSUME CursorSyncAssumption ==
  /\ IsFiniteSet(Pk) /\ Pk \subseteq Nat \ {0}
  /\ LimitePagina \in Nat \ {0}
  /\ MaxReloj \in Nat \ {0}

VARIABLES
  conMarca,    \* whether this cache's page applies the watermark
  reloj,       \* CURRENT_TIMESTAMP, in ticks of its resolution
  confirmada,  \* [Pk -> the committed version of the row]
  pendiente,   \* [Pk -> the version an active transaction wrote]
  paso,        \* of the page request under way
  upper, marca,   \* what serverNowAndWatermark read
  cursor,      \* the phone's position
  copia,       \* [Pk -> the version the phone holds]
  entregadas,  \* history: every version delivered
  ocultas,     \* history, with the mark: transactions begun and hidden by a page
  lentas       \* history, without it: those that committed a version a margin old

syncVars == <<sigTx, activas, conMarca, reloj, confirmada, pendiente, paso, upper,
             marca, cursor, copia, entregadas, ocultas, lentas>>

\* syncClockSkewSeconds, in ticks of the clock: the least it can be.
Margen == 1

Version == [pk: Pk, upd: 0..MaxReloj, tx: 0..MaxTx]
Nula(k) == [pk |-> k, upd |-> 0, tx |-> 0]
Posicion == [upd: 0..MaxReloj, pk: Pk \cup {0}]

\* The order of the cursor: (UPDATED_AT, pk).
Despues(v, c) == v.upd > c.upd \/ (v.upd = c.upd /\ v.pk > c.pk)

SyncInit ==
  /\ TxInit
  /\ conMarca \in BOOLEAN
  /\ reloj = 1
  /\ confirmada = [k \in Pk |-> Nula(k)]
  /\ pendiente = [k \in Pk |-> Nula(k)]
  /\ paso = "reposo"
  /\ upper = 0
  /\ marca = 0
  /\ cursor = [upd |-> 0, pk |-> 0]
  /\ copia = [k \in Pk |-> Nula(k)]
  /\ entregadas = {}
  /\ ocultas = {} /\ lentas = {}

-----------------------------------------------------------------------------
(* The server: its clock and the writers *)

SinTelefono ==
  UNCHANGED <<conMarca, paso, upper, marca, cursor, copia, entregadas, ocultas>>

Tic ==
  /\ reloj < MaxReloj
  /\ reloj' = reloj + 1
  /\ SinTelefono
  /\ UNCHANGED <<txVars, confirmada, pendiente, lentas>>

AbrirTx ==
  /\ Begin
  /\ SinTelefono
  /\ UNCHANGED <<reloj, confirmada, pendiente, lentas>>

\* A trigger recomputes row k inside transaction x: upsert or tombstone, with
\* UPDATED_AT now and TX_ID its own.  A row written by another active
\* transaction is locked.
EscribirFila(x, k) ==
  /\ x \in activas
  /\ pendiente[k].tx \in {0, x}
  /\ reloj < MaxReloj
  /\ pendiente' = [pendiente EXCEPT ![k] = [pk |-> k, upd |-> reloj, tx |-> x]]
  /\ SinTelefono
  /\ UNCHANGED <<txVars, reloj, confirmada, lentas>>

Suyas(x) == {k \in Pk : pendiente[k].tx = x}

ConfirmarTx(x) ==
  /\ Fin(x)
  /\ confirmada' = [k \in Pk |-> IF k \in Suyas(x) THEN pendiente[k] ELSE confirmada[k]]
  /\ pendiente' = [k \in Pk |-> IF k \in Suyas(x) THEN Nula(k) ELSE pendiente[k]]
  /\ lentas' = IF ~conMarca /\ \E k \in Suyas(x) : reloj - pendiente[k].upd >= Margen
                THEN lentas \cup {x} ELSE lentas
  /\ SinTelefono
  /\ UNCHANGED reloj

RevertirTx(x) ==
  /\ Fin(x)
  /\ pendiente' = [k \in Pk |-> IF k \in Suyas(x) THEN Nula(k) ELSE pendiente[k]]
  /\ SinTelefono
  /\ UNCHANGED <<reloj, confirmada, lentas>>

-----------------------------------------------------------------------------
(* runSyncPage *)

SinServidor ==
  UNCHANGED <<txVars, conMarca, reloj, confirmada, pendiente, lentas>>

\* Mutant: no margin under the server's clock.
PedirSinMargen ==
  /\ paso = "reposo"
  /\ upper' = reloj
  /\ paso' = "marca"
  /\ SinServidor
  /\ UNCHANGED <<marca, cursor, copia, entregadas, ocultas>>

\* serverNowAndWatermark reads CURRENT_TIMESTAMP first ...
PedirPagina ==
  /\ paso = "reposo"
  /\ upper' = reloj - Margen
  /\ paso' = "marca"
  /\ SinServidor
  /\ UNCHANGED <<marca, cursor, copia, entregadas, ocultas>>

\* ... and then the watermark.
LeerMarca ==
  /\ paso = "marca"
  /\ marca' = Watermark
  /\ paso' = "consulta"
  /\ ocultas' = ocultas \cup {t \in Tx : conMarca /\ Watermark <= t /\ t < sigTx}
  /\ SinServidor
  /\ UNCHANGED <<upper, cursor, copia, entregadas>>

\* Mutant: the predicate on TX_ID is dropped from every sync.
ElegiblesSinMarca ==
  {v \in {confirmada[k] : k \in Pk} :
     v.upd # 0 /\ v.upd <= upper /\ Despues(v, cursor)}

\* Mutant: UPDATED_AT > cursor, with no tie-break.
ElegiblesSinDesempate ==
  {v \in {confirmada[k] : k \in Pk} :
     v.upd # 0 /\ v.upd <= upper /\ (conMarca => v.tx < marca) /\ v.upd > cursor.upd}

\* The WHERE of querySyncPage, queryPagoSyncPage and queryVentaSyncPage.
Elegibles ==
  {v \in {confirmada[k] : k \in Pk} :
     v.upd # 0 /\ v.upd <= upper /\ (conMarca => v.tx < marca) /\ Despues(v, cursor)}

\* FIRST LimitePagina, ORDER BY UPDATED_AT, pk.
Pagina ==
  {v \in Elegibles : Cardinality({u \in Elegibles : Despues(v, u)}) < LimitePagina}

\* MaxUpdatedAt and the last pk; an empty page gives back the cursor received.
CursorSiguiente ==
  IF Pagina = {} THEN cursor
  ELSE LET ultima == CHOOSE v \in Pagina : \A u \in Pagina : ~Despues(u, v)
       IN [upd |-> ultima.upd, pk |-> ultima.pk]

FinPagina ==
  /\ paso = "consulta"
  /\ paso' = "reposo"
  /\ upper' = 0 /\ marca' = 0
  /\ SinServidor
  /\ UNCHANGED ocultas

\* runSyncPage's query runs and the phone applies the page ...
Entregar ==
  /\ FinPagina
  /\ cursor' = CursorSiguiente
  /\ copia' = [k \in Pk |-> IF confirmada[k] \in Pagina THEN confirmada[k] ELSE copia[k]]
  /\ entregadas' = entregadas \cup Pagina

\* ... or it fails, or its answer never arrives, and the phone asks again from
\* the same cursor.
PerderRespuesta ==
  /\ FinPagina
  /\ UNCHANGED <<cursor, copia, entregadas>>

-----------------------------------------------------------------------------
EscritoresCache ==
  \/ AbrirTx
  \/ \E x \in activas : ConfirmarTx(x) \/ RevertirTx(x) \/ \E k \in Pk : EscribirFila(x, k)

SyncNext == Tic \/ EscritoresCache \/ PedirPagina \/ LeerMarca \/ Entregar \/ PerderRespuesta

SyncSpec == SyncInit /\ [][SyncNext]_syncVars

\* The clock runs, the phone polls, every transaction ends, and an answer that
\* is asked for again and again arrives.
SyncFairness ==
  /\ WF_syncVars(Tic) /\ WF_syncVars(PedirPagina) /\ WF_syncVars(LeerMarca)
  /\ SF_syncVars(Entregar)
  /\ \A x \in Tx : WF_syncVars(ConfirmarTx(x) \/ RevertirTx(x))

SyncFairSpec == SyncSpec /\ SyncFairness

-----------------------------------------------------------------------------
(* Properties *)

\* Types, and the rows of the active transactions are theirs alone.
SyncTypeOK ==
  /\ TxTypeOK
  /\ conMarca \in BOOLEAN
  /\ reloj \in 1..MaxReloj
  /\ confirmada \in [Pk -> Version] /\ pendiente \in [Pk -> Version]
  /\ copia \in [Pk -> Version]
  /\ \A k \in Pk : pendiente[k].tx \in activas \cup {0}
  /\ \A k \in Pk : confirmada[k].pk = k /\ confirmada[k].tx \notin activas
  /\ paso \in {"reposo", "marca", "consulta"}
  /\ upper \in 0..MaxReloj /\ marca \in 0..Sentinela
  /\ cursor \in Posicion
  /\ entregadas \subseteq Version /\ ocultas \subseteq Tx /\ lentas \subseteq Tx

\* The committed version of row k is behind the cursor and the phone does not
\* hold it: no page will ever bring it.
Perdida(k) ==
  /\ copia[k] # confirmada[k]
  /\ ~Despues(confirmada[k], cursor)

\* Where the watermark applies, a version is lost only if its transaction had
\* begun when a page read its watermark, which hid it: what is begun after a
\* page, even in the same tick, is ahead of the cursor that page left.
PerdidaSoloOculta ==
  conMarca => \A k \in Pk : Perdida(k) => confirmada[k].tx \in ocultas

\* Version v was overtaken by one stamped at the same time or later, which a page
\* delivered: where the watermark applies, by one of an older transaction.
Adelantada(v) ==
  \E w \in entregadas : ~Despues(v, w) /\ (conMarca => w.tx < v.tx)

\* A version is lost only to a row stamped at the same time or later, which a
\* page delivered; where the watermark applies, to one of an OLDER transaction:
\* of younger ones it protects.
PerdidaSoloPorInversion ==
  \A k \in Pk : Perdida(k) => Adelantada(confirmada[k])

\* The sync of ventas, without the watermark, loses a version only if its
\* transaction held it for the margin before committing: "the clock-skew margin
\* is sufficient" is true of shorter transactions, and only of those.
VentaPerdidaSoloLenta ==
  ~conMarca => \A k \in Pk : Perdida(k) => confirmada[k].tx \in lentas

\* A committed version that is not lost reaches the phone, or is replaced
\* first, whatever answers are lost on the way: pages of any size and rows that
\* share a tick do not leave it behind.
EntregaEventual ==
  \A k \in Pk, u \in 1..(MaxReloj - 1) :
    (confirmada[k].upd = u /\ copia[k] # confirmada[k])
      ~> (confirmada[k].upd # u \/ copia[k] = confirmada[k] \/ Perdida(k))

-----------------------------------------------------------------------------
(* The inductive invariant *)

\* No page reaches the current tick; a committed version has a transaction that
\* began, a stamp and never gives way to none.
EnElPasado ==
  /\ upper < reloj /\ cursor.upd < reloj
  /\ \A k \in Pk :
       /\ confirmada[k].tx < sigTx
       /\ confirmada[k].tx = 0 => copia[k] = confirmada[k]
       /\ confirmada[k].tx # 0 => confirmada[k].upd # 0
       /\ pendiente[k].tx # 0 => pendiente[k].pk = k /\ pendiente[k].upd # 0

\* The versions of a row are stamped in the order they are committed: what the
\* phone holds, what is committed and what is pending.
VersionesEnOrden ==
  \A k \in Pk :
    /\ copia[k].upd <= confirmada[k].upd /\ confirmada[k].upd <= reloj
    /\ pendiente[k].tx # 0 =>
         confirmada[k].upd <= pendiente[k].upd /\ pendiente[k].upd <= reloj

\* The cursor is where a delivered version left it.
CursorEntregado ==
  cursor.upd # 0 => \E v \in entregadas : v.upd = cursor.upd /\ v.pk = cursor.pk

\* When the page is queried, what it may pass over without delivering is of the
\* transactions its watermark hid, and an active transaction below the watermark
\* began after it and stamps above upper.
MarcaVigente ==
  paso = "consulta" =>
    \A k \in Pk :
      /\ pendiente[k].tx # 0 /\ pendiente[k].upd <= upper => marca <= pendiente[k].tx
      /\ conMarca => \A v \in {confirmada[k], pendiente[k]} :
           v.tx # 0 /\ v.upd <= upper /\ marca <= v.tx => v.tx \in ocultas

\* What the properties say of a lost version holds already of a pending one that
\* the cursor has passed.
PendienteConCausa ==
  conMarca => \A k \in Pk :
    pendiente[k].tx # 0 /\ ~Despues(pendiente[k], cursor) =>
      Adelantada(pendiente[k]) /\ pendiente[k].tx \in ocultas

\* All of it holds of every state between two steps.
SyncIInv ==
  /\ SyncTypeOK /\ EnElPasado /\ VersionesEnOrden /\ CursorEntregado
  /\ MarcaVigente /\ PendienteConCausa
  /\ PerdidaSoloOculta /\ PerdidaSoloPorInversion /\ VentaPerdidaSoloLenta

=============================================================================
