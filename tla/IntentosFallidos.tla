--------------------------- MODULE IntentosFallidos ---------------------------
(***************************************************************************)
(* The custody of failed requests: the capture middleware (its instance    *)
(* inside the auth chain and the narrowed one outside it), the table       *)
(* MSP_FAILED_INTENTS with its merge of retries, the bodies kept on disk,  *)
(* the operator's replay and resolution, and the janitor.                  *)
(*                                                                         *)
(* A request touches nothing shared before its response is known, so a     *)
(* capture begins there; captures are numbered in the order of the         *)
(* RECEIVED_AT they are given.  One PATH.  The retry counter, the error    *)
(* columns and the resumen of a row are left out: nothing depends on them. *)
(***************************************************************************)
EXTENDS Naturals, FiniteSets

CONSTANTS
  Claves,          \* idempotency keys: each names one piece of work
  Fuente,          \* the keys whose module answers the reconciliation
  Reproducciones,  \* the replays operators have in flight
  Formas,          \* the bodies the captures of this instance come with
  Anonimos,        \* bound: the captures that may come without a key
  MaxIntentos,     \* bound: captures per behaviour
  MaxEnVuelo,      \* bound: captures in flight at once
  TopePendientes   \* pending rows one reconciliation reads: pages * page size

ASSUME IntentosAssumption ==
  /\ Claves \cap (0..MaxIntentos) = {}
  /\ Fuente \subseteq Claves
  /\ Formas \subseteq {"entero", "cortado", "json", "truncado"}
  /\ MaxIntentos \in Nat
  /\ MaxEnVuelo \in Nat
  /\ TopePendientes \in Nat

VARIABLES
  sig,          \* the number the next capture gets
  tabla,        \* the ids with a row in MSP_FAILED_INTENTS
  filas,        \* their contents
  discos,       \* the blobs on disk, named after the capture that wrote them
  capturas,     \* the captures in flight
  hechos,       \* the work that landed in its module's tables
  reps,         \* the replays in flight
  janitor       \* the janitor goroutine

vars == <<sig, tabla, filas, discos, capturas, hechos, reps, janitor>>

Ids == 1..MaxIntentos

\* A request without Idempotency-Key matches no other: its own number stands
\* for the key it does not have.
Trabajos == Claves \cup Ids

SinBlob == 0

Estados == {"new", "retried_ok", "retried_fail", "ignored", "resolved_manual"}

\* estadosResueltos: what the short retention purges.
EstadosResueltos == {"retried_ok", "resolved_manual", "ignored"}

(***************************************************************************)
(* Bodies.  bytes is OCTET_LENGTH(BODY): a multipart capture keeps the     *)
(* inline body `null', the same for all.  integro is not a column and no   *)
(* action reads it: it says whether what was kept is all that the phone    *)
(* meant to send.                                                          *)
(***************************************************************************)
Nulo == 1
EnLinea == 2

Cuerpos == [blob : {SinBlob} \cup Ids, truncado : BOOLEAN,
            bytes : {Nulo, EnLinea}, integro : BOOLEAN]

\* The blob of a capture, whole or cut by a phone that hung up: the pipe is
\* closed without an error, so a cut upload is stored as if it were complete.
EnBlob(i, integro) ==
  [blob |-> i, truncado |-> FALSE, bytes |-> Nulo, integro |-> integro]

\* A JSON body that fits in BodyCapBytes.
EnJson == [blob |-> SinBlob, truncado |-> FALSE, bytes |-> EnLinea,
           integro |-> TRUE]

\* BODY_TRUNCATED: over the cap, not written to disk, or already read by
\* somebody downstream.
Truncado == [blob |-> SinBlob, truncado |-> TRUE, bytes |-> Nulo,
             integro |-> FALSE]

CuerposDe(i) ==
  {c \in {EnBlob(i, TRUE), EnBlob(i, FALSE), EnJson, Truncado} :
     LET forma == IF c.truncado THEN "truncado"
                  ELSE IF c.blob = SinBlob THEN "json"
                  ELSE IF c.integro THEN "entero" ELSE "cortado"
     IN  forma \in Formas}

\* mejoraElCuerpo.
MejoraElCuerpo(prev, nuevo) ==
  /\ ~nuevo.truncado
  /\ \/ prev.truncado
     \/ prev.blob = SinBlob /\ nuevo.blob # SinBlob
     \/ /\ ~(prev.blob # SinBlob /\ nuevo.blob = SinBlob)
        /\ nuevo.bytes >= prev.bytes

(***************************************************************************)
(* Rows, captures, replays and the janitor.                                *)
(***************************************************************************)
Fila == [clave : {0} \cup Trabajos, estado : Estados, cuerpo : Cuerpos,
         usuario : BOOLEAN, persona : BOOLEAN]

NoCuerpo == EnJson

NoFila == [clave |-> 0, estado |-> "new", cuerpo |-> NoCuerpo,
           usuario |-> FALSE, persona |-> FALSE]

\* Response classes: 2xx; a cached answer of the idempotency middleware; a
\* 4xx/5xx; a 403 of the handler, which the outer instance also looks at;
\* the 401/403 of the auth boundary, which only the outer one sees.
Respuestas == {"ok", "eco", "error", "prohibido", "frontera"}

Captura == [fase : {"libre", "exito", "respondida", "guardando", "limpiando", "fin"},
            clave : {0} \cup Trabajos, resp : Respuestas,
            cuerpo : Cuerpos, prev : {0} \cup Ids, previo : Cuerpos,
            sobra : {SinBlob} \cup Ids]

Ociosa(fase) == [fase |-> fase, clave |-> 0, resp |-> "ok",
                 cuerpo |-> NoCuerpo, prev |-> 0, previo |-> NoCuerpo,
                 sobra |-> SinBlob]

Rep == [fase : {"libre", "leida", "despachada"}, fila : {0} \cup Ids,
        trabajo : {0} \cup Trabajos, estado : Estados,
        blob : {SinBlob} \cup Ids, bien : BOOLEAN]

RepLibre == [fase |-> "libre", fila |-> 0, trabajo |-> 0, estado |-> "new",
             blob |-> SinBlob, bien |-> FALSE]

Janitor == [fase : {"concilia", "purga", "borra"}, larga : BOOLEAN,
            corte : {0} \cup Ids, rutas : SUBSET Ids]

EnReposo == [fase |-> "concilia", larga |-> FALSE, corte |-> 0, rutas |-> {}]

Pendiente(f) == f \in tabla /\ filas[f].estado = "new"

\* Mutant: the merge looks for any pending row of the path.
PendientesSinClave(k) == {f \in tabla : Pendiente(f)}

PendientesDe(k) == {f \in tabla : Pendiente(f) /\ filas[f].clave = k}

EnVuelo == {i \in Ids : capturas[i].fase \notin {"libre", "fin"}}

\* The instance outside the auth chain (Config.CaptureStatuses not empty).
Fuera(i) == capturas[i].resp = "frontera"
-----------------------------------------------------------------------------
Init ==
  /\ sig = 1
  /\ tabla = {}
  /\ filas = [i \in Ids |-> NoFila]
  /\ discos = {}
  /\ capturas = [i \in Ids |-> Ociosa("libre")]
  /\ hechos = {}
  /\ reps = [r \in Reproducciones |-> RepLibre]
  /\ janitor = EnReposo

\* shouldPersist: a 2xx and an answer served from the idempotency cache leave
\* no row.
Persiste(resp) == resp \notin {"ok", "eco"}

\* handleMultipart, handleJSON and their deferred forms: the handler answered,
\* perhaps with an error after its work was committed.  What is not persisted
\* leaves no blob either; a 2xx of this very call has a key to close.
Responde(k, resp, c, llego) ==
  /\ sig <= MaxIntentos
  /\ Cardinality(EnVuelo) < MaxEnVuelo
  /\ resp = "prohibido" => sig < MaxIntentos
  /\ resp = "eco" => k \in hechos \/ \E f \in tabla : filas[f].clave = k
  /\ IF Persiste(resp)
     THEN /\ c \in CuerposDe(sig)
          /\ capturas' = [capturas EXCEPT ![sig] =
                            [Ociosa("respondida") EXCEPT
                               !.clave = k, !.resp = resp, !.cuerpo = c]]
          /\ discos' = discos \cup ({c.blob} \ {SinBlob})
     ELSE /\ c = NoCuerpo
          /\ capturas' = [capturas EXCEPT ![sig] =
                            IF resp = "ok"
                            THEN [Ociosa("exito") EXCEPT !.clave = k]
                            ELSE Ociosa("fin")]
          /\ UNCHANGED discos
  /\ hechos' = IF resp = "ok" \/ (resp = "error" /\ llego)
               THEN hechos \cup {k} ELSE hechos
  /\ sig' = sig + 1
  /\ UNCHANGED <<tabla, filas, reps, janitor>>

\* MarkResolvedByKeys: nobody is written down as the one who resolved.
CierraClaves(S) ==
  filas' = [f \in Ids |->
              IF Pendiente(f) /\ filas[f].clave \in S
              THEN [filas[f] EXCEPT !.estado = "resolved_manual"]
              ELSE filas[f]]

\* cerrarPorExito; its failure is only logged.
CierraPorExito(i) ==
  /\ capturas[i].fase = "exito"
  /\ CierraClaves({capturas[i].clave}) \/ UNCHANGED filas
  /\ capturas' = [capturas EXCEPT ![i] = Ociosa("fin")]
  /\ UNCHANGED <<sig, tabla, discos, hechos, reps, janitor>>

\* findPendienteConClave, the first statement of Store.Save.
Busca(i) ==
  /\ capturas[i].fase = "respondida"
  /\ LET S == PendientesDe(capturas[i].clave) IN
     \/ /\ S = {}
        /\ capturas' = [capturas EXCEPT ![i].fase = "guardando"]
     \/ \E p \in S :
          /\ \A f \in S : p <= f
          /\ capturas' = [capturas EXCEPT ![i] =
                           [@ EXCEPT !.fase = "guardando", !.prev = p,
                                     !.previo = filas[p].cuerpo]]
  /\ UNCHANGED <<sig, tabla, filas, discos, hechos, reps, janitor>>

\* fundirEn finds the row it read still pending.
SeFunde(i) == capturas[i].prev # 0 /\ Pendiente(capturas[i].prev)

Sustituye(i) == MejoraElCuerpo(capturas[i].previo, capturas[i].cuerpo)

Fundida(i) ==
  [filas[capturas[i].prev] EXCEPT
     !.cuerpo = IF Sustituye(i) THEN capturas[i].cuerpo ELSE @,
     !.usuario = @ \/ ~Fuera(i)]

Nueva(i) == [clave |-> capturas[i].clave, estado |-> "new",
             cuerpo |-> capturas[i].cuerpo, usuario |-> ~Fuera(i),
             persona |-> FALSE]

\* Mutant: the two bodies of a merge change places.
SobraAlReves(i) == IF ~SeFunde(i) THEN SinBlob
                   ELSE IF Sustituye(i) THEN capturas[i].cuerpo.blob
                   ELSE capturas[i].previo.blob

\* SaveOutcome.OrphanedBlobPath.
Sobra(i) == IF ~SeFunde(i) THEN SinBlob
            ELSE IF Sustituye(i) THEN capturas[i].previo.blob
            ELSE capturas[i].cuerpo.blob

\* Mutant: the insert of a row that was closed in between is forgotten.
EscribeSoloSiFunde(i) ==
  IF capturas[i].prev # 0
  THEN /\ filas' = IF SeFunde(i)
                   THEN [filas EXCEPT ![capturas[i].prev] = Fundida(i)]
                   ELSE filas
       /\ UNCHANGED tabla
  ELSE /\ filas' = [filas EXCEPT ![i] = Nueva(i)]
       /\ tabla' = tabla \cup {i}

\* The write of fundirEn or insert, and the COMMIT.
EscribeFila(i) ==
  IF SeFunde(i)
  THEN /\ filas' = [filas EXCEPT ![capturas[i].prev] = Fundida(i)]
       /\ UNCHANGED tabla
  ELSE /\ filas' = [filas EXCEPT ![i] = Nueva(i)]
       /\ tabla' = tabla \cup {i}

\* Save returned nil: the row is in custody and, unless this is the outer
\* instance, the answer will say so.
GuardaBien(i) ==
  /\ capturas[i].fase = "guardando"
  /\ EscribeFila(i)
  /\ capturas' = [capturas EXCEPT ![i] =
                    [Ociosa("limpiando") EXCEPT !.sobra = Sobra(i)]]
  /\ UNCHANGED <<sig, discos, hechos, reps, janitor>>

\* Save returned an error, perhaps after the COMMIT.  A 403 nobody took
\* custody of is then captured again by the outer instance.
GuardaMal(i, c) ==
  /\ capturas[i].fase = "guardando"
  /\ EscribeFila(i) \/ UNCHANGED <<tabla, filas>>
  /\ IF capturas[i].resp = "prohibido"
     THEN /\ sig <= MaxIntentos
          /\ c \in CuerposDe(sig)
          /\ capturas' = [capturas EXCEPT
                            ![i] = Ociosa("fin"),
                            ![sig] = [Ociosa("respondida") EXCEPT
                                        !.clave = capturas[i].clave,
                                        !.resp = "frontera", !.cuerpo = c]]
          /\ discos' = discos \cup ({c.blob} \ {SinBlob})
          /\ sig' = sig + 1
     ELSE /\ c = NoCuerpo
          /\ capturas' = [capturas EXCEPT ![i] = Ociosa("fin")]
          /\ UNCHANGED <<sig, discos>>
  /\ UNCHANGED <<hechos, reps, janitor>>

\* saveIntent removes the body the merge left without a row.
Limpia(i) ==
  /\ capturas[i].fase = "limpiando"
  /\ discos' = discos \ {capturas[i].sobra}
  /\ capturas' = [capturas EXCEPT ![i] = Ociosa("fin")]
  /\ UNCHANGED <<sig, tabla, filas, hechos, reps, janitor>>
-----------------------------------------------------------------------------
\* Resolver: UpdateStatus from new.
Resuelve(f, t) ==
  /\ Pendiente(f)
  /\ t \in {"ignored", "resolved_manual"}
  /\ filas' = [filas EXCEPT ![f] = [@ EXCEPT !.estado = t, !.persona = TRUE]]
  /\ UNCHANGED <<sig, tabla, discos, capturas, hechos, reps, janitor>>

\* Replay, ReplayWith and ReplayWithMultipart read the intent, whatever its
\* status; one without a usuario is refused.
Lee(r, f) ==
  /\ reps[r].fase = "libre"
  /\ f \in tabla /\ filas[f].usuario
  /\ reps' = [reps EXCEPT ![r] =
                [fase |-> "leida", fila |-> f, trabajo |-> filas[f].clave,
                 estado |-> filas[f].estado, blob |-> filas[f].cuerpo.blob,
                 bien |-> FALSE]]
  /\ UNCHANGED <<sig, tabla, filas, discos, capturas, hechos, janitor>>

\* The blob the row named when it was read is gone: no dispatch, no change.
SinCuerpo(r) ==
  /\ reps[r].fase = "leida"
  /\ reps[r].blob # SinBlob /\ reps[r].blob \notin discos
  /\ reps' = [reps EXCEPT ![r] = RepLibre]
  /\ UNCHANGED <<sig, tabla, filas, discos, capturas, hechos, janitor>>

\* Dispatch, under a fresh Idempotency-Key and out of the capture's sight.
\* tryUpdateStatus has nothing to write for a failure over a closed row.
Despacha(r, bien, llego) ==
  /\ reps[r].fase = "leida"
  /\ reps[r].blob = SinBlob \/ reps[r].blob \in discos
  /\ reps' = [reps EXCEPT ![r] =
                IF bien \/ reps[r].estado = "new"
                THEN [@ EXCEPT !.fase = "despachada", !.bien = bien,
                               !.trabajo = 0, !.blob = SinBlob]
                ELSE RepLibre]
  /\ hechos' = IF bien \/ llego THEN hechos \cup {reps[r].trabajo} ELSE hechos
  /\ UNCHANGED <<sig, tabla, filas, discos, capturas, janitor>>

\* Mutant: the outcome of a replay is written over whatever is there.
AnotaSinComparar(r) ==
  /\ reps[r].fase = "despachada"
  /\ IF reps[r].fila \in tabla
     THEN filas' = [filas EXCEPT ![reps[r].fila].estado =
                      IF reps[r].bien THEN "retried_ok" ELSE "retried_fail"]
     ELSE UNCHANGED filas
  /\ reps' = [reps EXCEPT ![r] = RepLibre]
  /\ UNCHANGED <<sig, tabla, discos, capturas, hechos, janitor>>

\* TransitionAfterReplay, from the status that was read.
Anota(r) ==
  /\ reps[r].fase = "despachada"
  /\ LET f == reps[r].fila IN
     IF f \in tabla /\ filas[f].estado = reps[r].estado
     THEN filas' = [filas EXCEPT ![f].estado =
                      IF reps[r].bien THEN "retried_ok" ELSE "retried_fail"]
     ELSE UNCHANGED filas
  /\ reps' = [reps EXCEPT ![r] = RepLibre]
  /\ UNCHANGED <<sig, tabla, discos, capturas, hechos, janitor>>
-----------------------------------------------------------------------------

\* Mutant: the reconciliation lists what an operator could replay.
LeidasConUsuario == {f \in tabla : Pendiente(f) /\ filas[f].usuario}

\* clavesPendientes: the newest rows first, up to the page cap.
Leidas ==
  LET P == {f \in tabla : Pendiente(f)}
  IN  {f \in P : Cardinality({g \in P : g > f}) < TopePendientes}

\* Mutant: every pending key of a module that answers is closed.
ConciliaSinFiltrar ==
  /\ janitor.fase = "concilia"
  /\ CierraClaves({filas[f].clave : f \in Leidas} \cap Fuente)
  /\ janitor' = [janitor EXCEPT !.fase = "purga"]
  /\ UNCHANGED <<sig, tabla, discos, capturas, hechos, reps>>

\* conciliarOnce: the module says which of the pending keys landed, and those
\* close.  What landed stays landed and the UPDATE asks for STATUS = new
\* again, so the list, the question and the mark are one step.
Concilia ==
  /\ janitor.fase = "concilia"
  /\ CierraClaves({filas[f].clave : f \in Leidas} \cap Fuente \cap hechos)
  /\ janitor' = [janitor EXCEPT !.fase = "purga"]
  /\ UNCHANGED <<sig, tabla, discos, capturas, hechos, reps>>

\* The list, the source or the UPDATE failed: logged, and the cycle goes on.
ConciliaFalla ==
  /\ janitor.fase = "concilia"
  /\ janitor' = [janitor EXCEPT !.fase = "purga"]
  /\ UNCHANGED <<sig, tabla, filas, discos, capturas, hechos, reps>>

\* The rows a cut deletes: the short one only those already closed.
Purgables(c, larga) ==
  {f \in tabla : f <= c /\ (larga \/ filas[f].estado \in EstadosResueltos)}

\* After the short cut comes the long one, and then the wait.
TrasElCorte == IF janitor.larga THEN EnReposo
               ELSE [EnReposo EXCEPT !.fase = "purga", !.larga = TRUE]

\* PurgeOlderThan, first statement.  A request lives seconds, a retention
\* days: the cut is older than every capture in flight.  It is named after the
\* newest row it reaches; when it reaches none, neither statement does.
PurgaLee(c) ==
  /\ janitor.fase = "purga"
  /\ c \in tabla /\ \A i \in EnVuelo : c < i
  /\ janitor' = [janitor EXCEPT
       !.fase = "borra", !.corte = c,
       !.rutas = {filas[f].cuerpo.blob : f \in Purgables(c, janitor.larga)}
                   \ {SinBlob}]
  /\ UNCHANGED <<sig, tabla, filas, discos, capturas, hechos, reps>>

NadaQuePurgar ==
  /\ janitor.fase = "purga"
  /\ janitor' = TrasElCorte
  /\ UNCHANGED <<sig, tabla, filas, discos, capturas, hechos, reps>>

\* Its DELETE, under the same filter on the rows as they are by then, the
\* COMMIT, and the blobs of the rows that went, which nobody can name any more.
PurgaBorra ==
  /\ janitor.fase = "borra"
  /\ LET S == Purgables(janitor.corte, janitor.larga) IN
     /\ tabla' = tabla \ S
     /\ filas' = [f \in Ids |-> IF f \in S THEN NoFila ELSE filas[f]]
     /\ discos' = IF S = {} THEN discos ELSE discos \ janitor.rutas
  /\ janitor' = TrasElCorte
  /\ UNCHANGED <<sig, capturas, hechos, reps>>

\* The transaction failed: no row and no blob goes.
PurgaFalla ==
  /\ janitor.fase = "borra"
  /\ janitor' = TrasElCorte
  /\ UNCHANGED <<sig, tabla, filas, discos, capturas, hechos, reps>>

\* The process dies and boots: SweepOrphans runs before the server listens,
\* and its failure does not stop the boot.
Reinicia ==
  /\ capturas' = [i \in Ids |-> IF i \in EnVuelo THEN Ociosa("fin")
                                ELSE capturas[i]]
  /\ reps' = [r \in Reproducciones |-> RepLibre]
  /\ janitor' = EnReposo
  /\ \/ discos' = discos \cap {filas[f].cuerpo.blob : f \in tabla}
     \/ UNCHANGED discos
  /\ UNCHANGED <<sig, tabla, filas, hechos>>
-----------------------------------------------------------------------------
Avanza(i) ==
  \/ CierraPorExito(i)
  \/ Busca(i)
  \/ GuardaBien(i)
  \/ \E c \in CuerposDe(sig) \cup {NoCuerpo} : GuardaMal(i, c)
  \/ Limpia(i)

Operador ==
  \/ \E f \in tabla, t \in {"ignored", "resolved_manual"} : Resuelve(f, t)
  \/ \E r \in Reproducciones, f \in tabla : Lee(r, f)
  \/ \E r \in Reproducciones : SinCuerpo(r) \/ Anota(r)
  \/ \E r \in Reproducciones, b, l \in BOOLEAN : Despacha(r, b, l)

Ronda ==
  \/ Concilia
  \/ ConciliaFalla
  \/ \E c \in tabla : PurgaLee(c)
  \/ NadaQuePurgar
  \/ PurgaBorra
  \/ PurgaFalla

Next ==
  \/ \E k \in Claves \cup ({sig} \cap Anonimos), resp \in Respuestas,
        c \in CuerposDe(sig) \cup {NoCuerpo}, l \in BOOLEAN : Responde(k, resp, c, l)
  \/ \E i \in Ids : Avanza(i)
  \/ Operador
  \/ Ronda
  \/ Reinicia

Spec == Init /\ [][Next]_vars

\* The janitor ticks for ever, and its reconciliation does not fail for ever.
Fairness == WF_vars(Ronda) /\ SF_vars(Concilia)

FairSpec == Spec /\ Fairness
-----------------------------------------------------------------------------
TypeOK ==
  /\ sig \in 1..(MaxIntentos + 1)
  /\ tabla \subseteq Ids
  /\ filas \in [Ids -> Fila]
  /\ discos \subseteq Ids
  /\ capturas \in [Ids -> Captura]
  /\ hechos \subseteq {0} \cup Trabajos
  /\ reps \in [Reproducciones -> Rep]
  /\ janitor \in Janitor

\* The body a row names is on disk: no merge, discarded answer, purge or boot
\* sweep takes the blob of a row that is still there (store.go:233, janitor
\* purgar, orphan.go).
FilaConBlob ==
  \A f \in tabla : filas[f].cuerpo.blob \in discos \cup {SinBlob}

\* A row is closed as retried_ok, or closed by nobody, only when its work
\* landed (cerrarPorExito, conciliarOnce, tryUpdateStatus).
CierreConCausa ==
  \A f \in tabla :
    filas[f].estado = "retried_ok"
      \/ (filas[f].estado = "resolved_manual" /\ ~filas[f].persona)
    => filas[f].clave \in hechos

\* The captures that have written no row yet, nor will another in their name.
PorEscribir ==
  {i \in Ids : capturas[i].fase \in {"libre", "respondida", "guardando"}}

\* What is numbered from sig on has not begun.
SinEmpezar == \A i \in Ids : i >= sig => capturas[i].fase = "libre"

\* The body in a capture's hands is its own and is on disk.
CuerpoEnMano ==
  \A i \in Ids :
    capturas[i].fase \in {"respondida", "guardando"}
      => capturas[i].cuerpo.blob \in {SinBlob} \cup ({i} \cap discos)

\* Until it writes its row, nobody else names a capture or its blob.
SinNombrar ==
  \A i \in PorEscribir :
    /\ i \notin tabla /\ i \notin janitor.rutas
    /\ \A f \in tabla : filas[f].cuerpo.blob # i
    /\ \A j \in Ids : /\ capturas[j].prev # i
                      /\ capturas[j].previo.blob # i
                      /\ capturas[j].sobra # i
    /\ \A r \in Reproducciones : reps[r].fila # i

\* Two rows never share a blob, and a merge that is about to give one up knows
\* whose it was.
BlobsAparte ==
  \A f \in tabla : filas[f].cuerpo.blob # SinBlob =>
    /\ \A g \in tabla : filas[g].cuerpo.blob = filas[f].cuerpo.blob => g = f
    /\ \A i \in Ids : /\ capturas[i].previo.blob = filas[f].cuerpo.blob
                         => capturas[i].prev = f
                      /\ capturas[i].sobra # filas[f].cuerpo.blob
    /\ janitor.fase = "borra" /\ filas[f].cuerpo.blob \in janitor.rutas
       => f \in Purgables(janitor.corte, janitor.larga)

\* A merge is into a row of its own key.
FundeLoSuyo ==
  \A i \in Ids, f \in tabla :
    capturas[i].prev = f => filas[f].clave = capturas[i].clave

\* What is about to close a row knows that its work landed.
CierraLoHecho ==
  /\ \A i \in Ids : capturas[i].fase = "exito" => capturas[i].clave \in hechos
  /\ \A r \in Reproducciones :
       /\ reps[r].fase = "despachada" => reps[r].bien \/ reps[r].estado = "new"
       /\ \A f \in tabla : reps[r].fila = f =>
            /\ reps[r].fase = "leida" => reps[r].trabajo = filas[f].clave
            /\ reps[r].fase = "despachada" /\ reps[r].bien
                 => filas[f].clave \in hechos

\* The inductive invariant: the types, the two invariants above, who may name
\* a blob at each moment, and what each actor knows of the row it will touch.
IInv ==
  /\ TypeOK
  /\ FilaConBlob
  /\ CierreConCausa
  /\ SinEmpezar
  /\ CuerpoEnMano
  /\ SinNombrar
  /\ BlobsAparte
  /\ FundeLoSuyo
  /\ CierraLoHecho

\* The rows that hold the work k, with a requester to replay it for.
Resguardo(k) ==
  {f \in tabla : filas[f].usuario /\ filas[f].clave = k}

\* The step at which Save returns nil to the instance that answers the phone.
Confirma(i) == /\ capturas[i].fase = "guardando" /\ ~Fuera(i)
               /\ capturas'[i].fase = "limpiando"

\* X-Intent-Captured is said of a request only when a row with a requester
\* holds its work, and that row leaves the table only by a retention: closed
\* under the short one, or older than the long one (confirmationFor, Save,
\* PurgeOlderThan).
Custodia ==
  [][\A k \in Trabajos :
       \/ Resguardo(k)' # {}
       \/ /\ \A i \in Ids : Confirma(i) => capturas[i].clave # k
          /\ \A f \in Resguardo(k) :
               \/ filas[f].estado \in EstadosResueltos
               \/ janitor.larga /\ f <= janitor.corte]_vars

\* The replay r landed, and the row f still has the status it had when r read it.
AnotaSobreLoLeido(r, f) ==
  /\ reps[r].fase = "despachada" /\ reps[r].fila = f /\ reps[r].bien
  /\ reps[r].estado = filas[f].estado
  /\ filas[f].clave \in hechos

\* What was closed stays as it was closed, whoever was merging, replaying or
\* reconciling it at the time, but for one exception that handlers.go:651-654
\* asks for: a replay that read that very closed status and landed moves it to
\* retried_ok, an operator's ignored or resolved_manual too.  So no merge, no
\* reconciliation and no replay begun before the closing ever undoes it
\* (fundirEn's "AND STATUS = ?", UpdateStatus, TransitionAfterReplay).
HistoriaCerrada ==
  [][\A f \in tabla \cap tabla' :
       filas[f].estado # "new" =>
         \/ filas'[f] = filas[f]
         \/ /\ filas'[f] = [filas[f] EXCEPT !.estado = "retried_ok"]
            /\ \E r \in Reproducciones : AnotaSobreLoLeido(r, f)]_vars

\* Without the exception, as failedintent.go:95-96 has it ("Re-replay of a
\* terminal intent [...] does NOT change the status") and, of what an operator
\* closed, rule 4 of handlers.go:660-661.  The code does not keep it: rule 1
\* comes first and looks at no status.
CerradoEsFinal ==
  [][\A f \in tabla \cap tabla' :
       filas[f].estado # "new" => filas'[f] = filas[f]]_vars

\* What is pending of a key that landed does not stay pending, for the keys
\* some module answers for (conciliarOnce).
SeCierra ==
  \A k \in Fuente : (k \in hechos /\ PendientesDe(k) # {}) ~> PendientesDe(k) = {}

\* "Nunca sustituir uno bueno por uno peor" (store.go:302): the code does not
\* keep it once Formas has "cortado", an upload the phone cut.
NuncaPeor ==
  [][\A f \in tabla \cap tabla' :
       filas[f].cuerpo.integro => filas'[f].cuerpo.integro]_vars
=============================================================================
