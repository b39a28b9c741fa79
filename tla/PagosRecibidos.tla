--------------------------- MODULE PagosRecibidos ---------------------------
(***************************************************************************)
(* The pago pipeline of internal/cobranza: requests that create a pago     *)
(* (CrearPago), requests that force one (AplicarPagoForzar) and the retry  *)
(* worker, all pushing rows of MSP_PAGOS_RECIBIDOS into Microsip.  Every   *)
(* apply runs in two transactions: the first takes the row lock, charges   *)
(* and marks; when Microsip refuses, a second one, under a new lock,       *)
(* counts the failure.  Any process may die between two steps.             *)
(***************************************************************************)
EXTENDS Integers, FiniteSets

CONSTANTS
  Pago,          \* the client-generated UUIDs
  Peticion,      \* HTTP requests, each served once
  Worker,        \* the retry worker goroutine
  Cargo,         \* the cargos being paid
  CargoDe,       \* [Pago -> Cargo]
  Importe,       \* [Pago -> Nat]
  SaldoInicial,  \* [Cargo -> Nat]
  Recibido,      \* [Pago -> Nat]: RECEIVED_AT, the order ListPendientes uses
  MaxIntentos,   \* the worker leaves a row alone from this count on
  BatchLimit,    \* rows the worker lists per tick
  MaxFallas,     \* bound: infrastructure faults and crashes per behaviour
  Nadie          \* no process holds the row lock

ASSUME PagosAssumption ==
  /\ Worker \notin Peticion
  /\ Nadie \notin Peticion \cup {Worker}
  /\ CargoDe \in [Pago -> Cargo]
  /\ Importe \in [Pago -> Nat]
  /\ SaldoInicial \in [Cargo -> Nat]
  /\ Recibido \in [Pago -> Nat]
  /\ MaxIntentos \in Nat
  /\ BatchLimit \in Nat \ {0}
  /\ MaxFallas \in Nat

VARIABLES
  fila,      \* [Pago -> Fila]: the committed rows of MSP_PAGOS_RECIBIDOS
  doctos,    \* the committed DOCTOS_CC documents, [id, pago]
  saldo,     \* [Cargo -> Int]: MSP_SALDOS_VENTAS, kept by Microsip's trigger
  candado,   \* [Pago -> Proc or Nadie]: who locks (or is inserting) the row
  pc,        \* [Proc -> Paso]: where each process is
  op,        \* [Proc -> {"aplicar", "crear"}]
  arg,       \* [Proc -> Pago]: the pago each process works on
  leida,     \* [Proc -> Fila]: the aggregate the process has in memory
  nuevo,     \* [Proc -> Nat]: the DOCTO_CC_ID inserted by its transaction
  lote,      \* rows left in the worker's tick
  enfria,    \* [Pago -> BOOLEAN]: the backoff since the last failure runs
  genDocto,  \* Microsip's DOCTO_CC_ID generator, which no rollback undoes
  res,       \* [Peticion -> answer given]
  fallas     \* faults injected so far

vars == <<fila, doctos, saldo, candado, pc, op, arg, leida, nuevo, lote,
          enfria, genDocto, res, fallas>>

Proc == Peticion \cup {Worker}

\* A row, or its absence ("ausente"); docto = 0 and error = FALSE are NULL.
Fila == [estado: {"ausente", "P", "A"}, intentos: Nat, docto: Nat,
         error: BOOLEAN]

SinFila == [estado |-> "ausente", intentos |-> 0, docto |-> 0,
            error |-> FALSE]

Paso == {"inicio", "ocioso", "lote", "insertar", "bloquear", "leer", "writer",
         "marcar", "fallo", "releer", "anotar", "fin"}

Respuesta == {"ninguna", "ok", "saldo", "error"}

-----------------------------------------------------------------------------
(* The aggregate, domain/pago_recibido.go *)

\* NewPagoRecibido: a pendiente with no attempts.
NewPagoRecibido == [SinFila EXCEPT !.estado = "P"]

IsAplicada(f) == f.estado = "A"

\* Mutant: applying forgets the attempts counted so far.
MarcarAplicadaBorraIntentos(f, d) ==
  [f EXCEPT !.estado = "A", !.docto = d, !.intentos = 0, !.error = FALSE]

MarcarAplicada(f, d) ==
  [f EXCEPT !.estado = "A", !.docto = d, !.error = FALSE]

\* Mutant: the failure is described but not counted.
RegistrarFalloSinContar(f) == [f EXCEPT !.error = TRUE]

RegistrarFallo(f) == [f EXCEPT !.intentos = @ + 1, !.error = TRUE]

-----------------------------------------------------------------------------
Init ==
  /\ fila \in [Pago -> {SinFila, NewPagoRecibido}]
  /\ doctos = {}
  /\ saldo = SaldoInicial
  /\ candado = [x \in Pago |-> Nadie]
  /\ pc = [p \in Proc |-> IF p = Worker THEN "ocioso" ELSE "inicio"]
  /\ op = [p \in Proc |-> "aplicar"]
  /\ arg \in {a \in [Proc -> Pago] : a[Worker] = CHOOSE x \in Pago : TRUE}
  /\ leida = [p \in Proc |-> SinFila]
  /\ nuevo = [p \in Proc |-> 0]
  /\ lote = {}
  /\ enfria = [x \in Pago |-> FALSE]
  /\ genDocto = 0
  /\ res = [r \in Peticion |-> "ninguna"]
  /\ fallas = 0

\* The call returns and its locals are gone: a request answers, the worker
\* goes to its next row.
Terminar(p, respuesta) ==
  /\ pc' = [pc EXCEPT ![p] = IF p = Worker THEN "lote" ELSE "fin"]
  /\ res' = IF p = Worker THEN res ELSE [res EXCEPT ![p] = respuesta]
  /\ leida' = [leida EXCEPT ![p] = SinFila]
  /\ nuevo' = [nuevo EXCEPT ![p] = 0]

\* The transaction of p ends, and with it the row lock it may hold.
Soltar(p) == candado' = [candado EXCEPT ![arg[p]] = IF @ = p THEN Nadie ELSE @]

Falla == fallas < MaxFallas /\ fallas' = fallas + 1

-----------------------------------------------------------------------------
(* Creation *)

\* CrearPago up to validateCargo: the saldo is read outside any transaction
\* and without a lock.
CrearPago(r) ==
  /\ r \in Peticion
  /\ pc[r] = "inicio"
  /\ IF Importe[arg[r]] <= saldo[CargoDe[arg[r]]]
     THEN /\ pc' = [pc EXCEPT ![r] = "insertar"]
          /\ op' = [op EXCEPT ![r] = "crear"]
          /\ UNCHANGED <<leida, nuevo, res>>
     ELSE /\ Terminar(r, "saldo")
          /\ UNCHANGED op
  /\ UNCHANGED <<fila, doctos, saldo, candado, arg, lote, enfria, genDocto,
                 fallas>>

\* persistPagoTx, the Insert goes through; a concurrent Insert of the same
\* UUID waits on the primary key until this transaction ends.
Insertar(r) ==
  /\ pc[r] = "insertar"
  /\ fila[arg[r]].estado = "ausente"
  /\ candado[arg[r]] = Nadie
  /\ candado' = [candado EXCEPT ![arg[r]] = r]
  /\ leida' = [leida EXCEPT ![r] = NewPagoRecibido]
  /\ pc' = [pc EXCEPT ![r] = "writer"]
  /\ UNCHANGED <<fila, doctos, saldo, op, arg, nuevo, lote, enfria, genDocto,
                 res, fallas>>

\* persistPagoTx on ErrPagoYaExiste: the stored pago is the answer.
InsertarDuplicado(r) ==
  /\ pc[r] = "insertar"
  /\ fila[arg[r]].estado # "ausente"
  /\ Terminar(r, "ok")
  /\ UNCHANGED <<fila, doctos, saldo, candado, op, arg, lote, enfria, genDocto,
                 fallas>>

-----------------------------------------------------------------------------
(* Apply *)

\* AplicarPagoForzar: an operator asks for one more attempt.
AplicarPagoForzar(r) ==
  /\ r \in Peticion
  /\ pc[r] = "inicio"
  /\ pc' = [pc EXCEPT ![r] = "bloquear"]
  /\ UNCHANGED <<fila, doctos, saldo, candado, op, arg, leida, nuevo, lote,
                 enfria, genDocto, res, fallas>>

\* Mutant: SELECT without WITH LOCK, which waits for nobody.
LockByIDSinEsperar(p) ==
  /\ pc[p] = "bloquear"
  /\ fila[arg[p]].estado # "ausente"
  /\ candado' = [candado EXCEPT ![arg[p]] = p]
  /\ pc' = [pc EXCEPT ![p] = "leer"]
  /\ UNCHANGED <<fila, doctos, saldo, op, arg, leida, nuevo, lote, enfria,
                 genDocto, res, fallas>>

\* LockByID in the apply transaction: a missing row ends the call.
LockByID(p) ==
  /\ pc[p] = "bloquear"
  /\ IF fila[arg[p]].estado = "ausente"
     THEN /\ Terminar(p, "error")
          /\ UNCHANGED candado
     ELSE /\ candado[arg[p]] = Nadie
          /\ candado' = [candado EXCEPT ![arg[p]] = p]
          /\ pc' = [pc EXCEPT ![p] = "leer"]
          /\ UNCHANGED <<leida, nuevo, res>>
  /\ UNCHANGED <<fila, doctos, saldo, op, arg, lote, enfria, genDocto, fallas>>

\* Mutant: the row is read but IsAplicada is not asked.
LeerSinPreguntar(p) ==
  /\ pc[p] = "leer"
  /\ leida' = [leida EXCEPT ![p] = fila[arg[p]]]
  /\ pc' = [pc EXCEPT ![p] = "writer"]
  /\ UNCHANGED <<fila, doctos, saldo, candado, op, arg, nuevo, lote, enfria,
                 genDocto, res, fallas>>

\* FindByID under the lock; an applied pago is answered as it is.
LeerBajoCandado(p) ==
  /\ pc[p] = "leer"
  /\ IF IsAplicada(fila[arg[p]])
     THEN Terminar(p, "ok") /\ Soltar(p)
     ELSE /\ leida' = [leida EXCEPT ![p] = fila[arg[p]]]
          /\ pc' = [pc EXCEPT ![p] = "writer"]
          /\ UNCHANGED <<candado, nuevo, res>>
  /\ UNCHANGED <<fila, doctos, saldo, op, arg, lote, enfria, genDocto, fallas>>

\* PagoWriter.Aplicar succeeds inside the transaction of p.
MicrosipAcepta(p) ==
  /\ pc[p] = "writer"
  /\ genDocto' = genDocto + 1
  /\ nuevo' = [nuevo EXCEPT ![p] = genDocto + 1]
  /\ pc' = [pc EXCEPT ![p] = "marcar"]
  /\ UNCHANGED <<fila, doctos, saldo, candado, op, arg, leida, lote, enfria,
                 res, fallas>>

\* PagoWriter.Aplicar fails: the transaction rolls back.  An apply goes on
\* to record the attempt, a creation answers the error and leaves no row.
MicrosipRechaza(p) ==
  /\ pc[p] = "writer"
  /\ Soltar(p)
  /\ IF op[p] = "crear"
     THEN Terminar(p, "error")
     ELSE /\ pc' = [pc EXCEPT ![p] = "fallo"]
          /\ UNCHANGED <<leida, nuevo, res>>
  /\ UNCHANGED <<fila, doctos, saldo, op, arg, lote, enfria, genDocto, fallas>>

\* MarcarAplicada, Update and COMMIT: the row is rewritten from the
\* aggregate in memory and Microsip's trigger lowers the saldo.
ConfirmarAplicada(p) ==
  LET x == arg[p] IN
  /\ fila' = [fila EXCEPT ![x] = MarcarAplicada(leida[p], nuevo[p])]
  /\ doctos' = doctos \cup {[id |-> nuevo[p], pago |-> x]}
  /\ saldo' = [saldo EXCEPT ![CargoDe[x]] = @ - Importe[x]]

Commit(p) ==
  /\ pc[p] = "marcar"
  /\ ConfirmarAplicada(p)
  /\ Soltar(p)
  /\ Terminar(p, "ok")
  /\ UNCHANGED <<op, arg, lote, enfria, genDocto, fallas>>

\* The COMMIT reached the server but its answer was lost.
CommitIncierto(p) ==
  /\ pc[p] = "marcar"
  /\ Falla
  /\ ConfirmarAplicada(p)
  /\ Soltar(p)
  /\ Terminar(p, "error")
  /\ UNCHANGED <<op, arg, lote, enfria, genDocto>>

\* Our own failure (lock, read, Update or COMMIT): rollback, nothing counted.
Abortar(p) ==
  /\ pc[p] \in {"insertar", "bloquear", "leer", "writer", "marcar"}
  /\ Falla
  /\ Soltar(p)
  /\ Terminar(p, "error")
  /\ UNCHANGED <<fila, doctos, saldo, op, arg, lote, enfria, genDocto>>

-----------------------------------------------------------------------------
(* registrarFalloAparte, the second transaction *)

LockFallo(p) ==
  /\ pc[p] = "fallo"
  /\ candado[arg[p]] = Nadie
  /\ candado' = [candado EXCEPT ![arg[p]] = p]
  /\ pc' = [pc EXCEPT ![p] = "releer"]
  /\ UNCHANGED <<fila, doctos, saldo, op, arg, leida, nuevo, lote, enfria,
                 genDocto, res, fallas>>

\* Mutant: the failure is written over the snapshot of the first transaction.
ReleerConFotoVieja(p) ==
  /\ pc[p] = "releer"
  /\ IF IsAplicada(fila[arg[p]])
     THEN Terminar(p, "error") /\ Soltar(p)
     ELSE /\ pc' = [pc EXCEPT ![p] = "anotar"]
          /\ UNCHANGED <<leida, candado, nuevo, res>>
  /\ UNCHANGED <<fila, doctos, saldo, op, arg, lote, enfria, genDocto, fallas>>

\* Mutant: neither re-read nor asked whether somebody applied it meanwhile.
ReleerACiegas(p) ==
  /\ pc[p] = "releer"
  /\ pc' = [pc EXCEPT ![p] = "anotar"]
  /\ UNCHANGED <<fila, doctos, saldo, candado, op, arg, leida, nuevo, lote,
                 enfria, genDocto, res, fallas>>

\* The row is read again; if somebody applied it meanwhile nothing is written.
Releer(p) ==
  /\ pc[p] = "releer"
  /\ IF IsAplicada(fila[arg[p]])
     THEN Terminar(p, "error") /\ Soltar(p)
     ELSE /\ leida' = [leida EXCEPT ![p] = fila[arg[p]]]
          /\ pc' = [pc EXCEPT ![p] = "anotar"]
          /\ UNCHANGED <<candado, nuevo, res>>
  /\ UNCHANGED <<fila, doctos, saldo, op, arg, lote, enfria, genDocto, fallas>>

\* RegistrarFallo, Update and COMMIT; the backoff starts over.
AnotarFallo(p) ==
  /\ pc[p] = "anotar"
  /\ fila' = [fila EXCEPT ![arg[p]] = RegistrarFallo(leida[p])]
  /\ enfria' = [enfria EXCEPT ![arg[p]] = TRUE]
  /\ Soltar(p)
  /\ Terminar(p, "error")
  /\ UNCHANGED <<doctos, saldo, op, arg, lote, genDocto, fallas>>

\* The failure record is lost (lock timeout, falloPersistTimeout, COMMIT).
FalloNoPersistido(p) ==
  /\ pc[p] \in {"fallo", "releer", "anotar"}
  /\ Falla
  /\ Soltar(p)
  /\ Terminar(p, "error")
  /\ UNCHANGED <<fila, doctos, saldo, op, arg, lote, enfria, genDocto>>

-----------------------------------------------------------------------------
(* The retry worker *)

\* ListPendientes: ESTADO = 'P' AND INTENTOS < max, the oldest BatchLimit.
Pendientes == {x \in Pago : fila[x].estado = "P" /\ fila[x].intentos < MaxIntentos}

ListPendientes ==
  {x \in Pendientes :
     Cardinality({y \in Pendientes : Recibido[y] < Recibido[x]}) < BatchLimit}

\* A row with no attempt on record has no backoff to respect.
Elegible(x) == fila[x].intentos = 0 \/ ~enfria[x]

\* tick lists once and judges every row by that snapshot.
Tick ==
  /\ pc[Worker] = "ocioso"
  /\ lote' = {x \in ListPendientes : Elegible(x)}
  /\ lote' # {}
  /\ pc' = [pc EXCEPT ![Worker] = "lote"]
  /\ UNCHANGED <<fila, doctos, saldo, candado, op, arg, leida, nuevo, enfria,
                 genDocto, res, fallas>>

\* The next row of the tick, oldest first, whatever happened to the previous.
Siguiente ==
  /\ pc[Worker] = "lote"
  /\ \/ /\ lote = {}
        /\ pc' = [pc EXCEPT ![Worker] = "ocioso"]
        /\ UNCHANGED <<lote, arg>>
     \/ \E x \in lote :
          /\ \A y \in lote : Recibido[x] <= Recibido[y]
          /\ lote' = lote \ {x}
          /\ arg' = [arg EXCEPT ![Worker] = x]
          /\ pc' = [pc EXCEPT ![Worker] = "bloquear"]
  /\ UNCHANGED <<fila, doctos, saldo, candado, op, leida, nuevo, enfria,
                 genDocto, res, fallas>>

\* backoffDelay has passed since the last failure of x.
PasaBackoff(x) ==
  /\ enfria[x]
  /\ enfria' = [enfria EXCEPT ![x] = FALSE]
  /\ UNCHANGED <<fila, doctos, saldo, candado, pc, op, arg, leida, nuevo,
                 lote, genDocto, res, fallas>>

\* The process dies: Firebird rolls its transactions back, every request in
\* flight is cut off and the worker starts over.
Reinicio ==
  /\ Falla
  /\ candado' = [x \in Pago |-> Nadie]
  /\ pc' = [p \in Proc |-> IF p = Worker THEN "ocioso"
                           ELSE IF pc[p] = "inicio" THEN "inicio" ELSE "fin"]
  /\ lote' = {}
  /\ leida' = [p \in Proc |-> SinFila]
  /\ nuevo' = [p \in Proc |-> 0]
  /\ UNCHANGED <<fila, doctos, saldo, op, arg, enfria, genDocto, res>>

-----------------------------------------------------------------------------
Crear(r) == CrearPago(r) \/ Insertar(r) \/ InsertarDuplicado(r)

\* The steps an apply takes when nothing of ours fails.
Aplicar(p) ==
  \/ LockByID(p) \/ LeerBajoCandado(p)
  \/ MicrosipAcepta(p) \/ MicrosipRechaza(p) \/ Commit(p)
  \/ LockFallo(p) \/ Releer(p) \/ AnotarFallo(p)

Fallo(p) == CommitIncierto(p) \/ Abortar(p) \/ FalloNoPersistido(p)

Next ==
  \/ \E p \in Proc :
       Crear(p) \/ AplicarPagoForzar(p) \/ Aplicar(p) \/ Fallo(p)
  \/ Tick \/ Siguiente
  \/ \E x \in Pago : PasaBackoff(x)
  \/ Reinicio

Spec == Init /\ [][Next]_vars

\* The ticker fires, the clock advances, the server ends what it started.
Fairness ==
  /\ WF_vars(Tick) /\ WF_vars(Siguiente)
  /\ \A p \in Proc : WF_vars(Insertar(p)) /\ WF_vars(Aplicar(p))
  /\ \A x \in Pago : WF_vars(PasaBackoff(x))

FairSpec == Spec /\ Fairness

-----------------------------------------------------------------------------
(* Properties *)

\* Every variable has its type.
TypeOK ==
  /\ fila \in [Pago -> Fila]
  /\ doctos \subseteq [id: Nat, pago: Pago]
  /\ saldo \in [Cargo -> Int]
  /\ candado \in [Pago -> Proc \cup {Nadie}]
  /\ pc \in [Proc -> Paso]
  /\ op \in [Proc -> {"aplicar", "crear"}]
  /\ arg \in [Proc -> Pago]
  /\ leida \in [Proc -> Fila]
  /\ nuevo \in [Proc -> Nat]
  /\ lote \subseteq Pago
  /\ enfria \in [Pago -> BOOLEAN]
  /\ genDocto \in Nat
  /\ res \in [Peticion -> Respuesta]
  /\ fallas \in Nat

\* "No double-INSERT to Microsip is possible" (aplicar_pago.go:68-69): of all
\* the requests, retries and restarts that touch a pago, one document at most
\* survives in Microsip.
CobroUnico == \A d, e \in doctos : d.pago = e.pago => d = e

\* The row and Microsip tell the same story: a row is aplicada exactly when
\* Microsip holds the document it refers to, so no document is orphaned and
\* no reference erased.
FilaYMicrosipConcuerdan ==
  /\ \A x \in Pago : IsAplicada(fila[x]) =>
       [id |-> fila[x].docto, pago |-> x] \in doctos
  /\ \A d \in doctos : IsAplicada(fila[d.pago]) /\ fila[d.pago].docto = d.id

\* A pago that is aplicada keeps its state, its references and its counter for
\* good: no late failure record resurrects it (aplicar_pago.go:165-175).
AplicadaEsFinal ==
  [][\A x \in Pago : IsAplicada(fila[x]) => fila'[x] = fila[x]]_vars

\* A pendiente row changes only by counting one more failure or by being
\* applied with its counter intact, however many callers fail at once
\* ("keeping INTENTOS monotonic", aplicar_pago.go:173-175).
IntentosExactos ==
  [][\A x \in Pago :
       fila[x].estado = "P" /\ fila'[x] # fila[x] =>
         fila'[x].intentos = IF IsAplicada(fila'[x]) THEN fila[x].intentos
                             ELSE fila[x].intentos + 1]_vars

\* "Creation no longer produces pendientes at all" (pago_retry_worker.go:68):
\* the first time a row is visible, it is already applied.
CreacionSinPendientes ==
  [][\A x \in Pago :
       fila[x].estado = "ausente" => fila'[x].estado # "P"]_vars

\* A poison-pill pago does not stall the queue: every pendiente ends up
\* applied or, its attempts spent, out of the worker's reach.
Drena ==
  \A x \in Pago :
    fila[x].estado = "P" ~> \/ IsAplicada(fila[x])
                            \/ fila[x].intentos >= MaxIntentos

\* The pipeline implements the one-charge promise of CobroUnaVez.
Cobro == INSTANCE CobroUnaVez WITH
  estado <- [x \in Pago |-> fila[x].estado],
  intentos <- [x \in Pago |-> fila[x].intentos]

ImplementaCobro == Cobro!Spec

-----------------------------------------------------------------------------
(* Claims of the comments that the code does not keep *)

\* "The caller is responsible for [...] resolving + locking the cargo balance"
\* (domain/pago_recibido.go:116-117): a cargo is never paid beyond its saldo.
SaldoNoNegativo == \A c \in Cargo : saldo[c] >= 0

-----------------------------------------------------------------------------
(* The inductive invariant *)

\* Inside its critical section a process holds the lock of its row.
EnCandado(p) == pc[p] \in {"leer", "writer", "marcar", "releer", "anotar"}

CandadoEsSuyo == \A p \in Proc : EnCandado(p) => candado[arg[p]] = p

\* What it read is what the row still says: for a creation, nothing yet.
LecturaVigente ==
  \A p \in Proc :
    /\ pc[p] \in {"writer", "marcar", "anotar"} => ~IsAplicada(fila[arg[p]])
    /\ pc[p] \in {"writer", "marcar"} =>
         /\ leida[p].estado = "P"
         /\ leida[p].intentos = fila[arg[p]].intentos
    /\ pc[p] = "anotar" => leida[p] = fila[arg[p]] /\ fila[arg[p]].estado = "P"

\* Document numbers come from the generator and are never handed out twice.
DoctosFrescos ==
  /\ \A d \in doctos : 1 <= d.id /\ d.id <= genDocto
  /\ \A p \in Proc : pc[p] = "marcar" =>
       /\ 1 <= nuevo[p] /\ nuevo[p] <= genDocto
       /\ \A d \in doctos : d.id # nuevo[p]
       /\ \A q \in Proc : pc[q] = "marcar" /\ nuevo[q] = nuevo[p] => q = p

AusenteSinIntentos ==
  \A x \in Pago : fila[x].estado = "ausente" => fila[x].intentos = 0

\* Only a creation works on a row that may not exist yet.
YaExiste ==
  \A p \in Proc :
    /\ pc[p] = "insertar" => op[p] = "crear"
    /\ \/ pc[p] \in {"leer", "fallo", "releer", "anotar"}
       \/ pc[p] = "writer" /\ op[p] = "aplicar"
       => fila[arg[p]].estado # "ausente"

IInv ==
  /\ TypeOK
  /\ FilaYMicrosipConcuerdan
  /\ CandadoEsSuyo
  /\ LecturaVigente
  /\ DoctosFrescos
  /\ AusenteSinIntentos
  /\ YaExiste
=============================================================================
