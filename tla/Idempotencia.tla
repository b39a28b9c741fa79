----------------------------- MODULE Idempotencia -----------------------------
(***************************************************************************)
(* The Idempotency-Key middleware over MSP_IDEMPOTENCY_KEYS: concurrent    *)
(* POSTs look their key up, run the handler and save a 2xx answer; nothing *)
(* marks a key as being served.  The janitor purges what has expired.      *)
(***************************************************************************)
EXTENDS Naturals

CONSTANTS
  Intento,    \* POSTs, each served once
  Clave,      \* values of the Idempotency-Key header
  SinClave,   \* the header is missing (RequireKey is false)
  Cuerpo,     \* what a POST asks: method, path and hash of the body
  Ttl,        \* life of a record
  MaxReloj,   \* bound: ticks of the clock
  MaxFallas   \* bound: failed store calls, lost answers and restarts

ASSUME IdempotenciaAssumption ==
  /\ SinClave \notin Clave
  /\ Ttl \in Nat \ {0} /\ MaxReloj \in Nat /\ MaxFallas \in Nat

VARIABLES
  pide,       \* [Intento -> Solicitud]
  pc,         \* [Intento -> Paso]
  res,        \* [Intento -> Respuesta]
  registros,  \* MSP_IDEMPOTENCY_KEYS, a set of Registro
  reloj,
  efectos,    \* history: POSTs whose handler did its work and answered 2xx
  hora,       \* history: [Intento -> 1 + when its Save ran, 0 if it has not]
  busca,      \* history: [Intento -> when its Get ran]
  asentados,  \* history: [Intento -> POSTs already saved at its Get]
  abiertos,   \* history: POSTs let through by a failed Get
  fallas

vars == <<pide, pc, res, registros, reloj, efectos, hora, busca, asentados,
          abiertos, fallas>>
historia == <<efectos, hora, busca, asentados, abiertos>>

Solicitud == [clave: Clave \cup {SinClave}, cuerpo: Cuerpo]
Paso == {"inicio", "buscar", "handler", "guardar", "fin"}
\* An answer of its own, another POST's, or none the middleware has a say in.
Respuesta == [tipo: {"ninguna", "exito", "error", "repetida", "distinta"},
              de: Intento \cup {SinClave}]
Registro == [clave: Clave, cuerpo: Cuerpo, de: Intento, vence: Nat]

Respondida(tipo, i) == [tipo |-> tipo, de |-> i]

Init ==
  /\ pide \in [Intento -> Solicitud]
  /\ pc = [i \in Intento |-> "inicio"]
  /\ res = [i \in Intento |-> Respondida("ninguna", SinClave)]
  /\ registros = {}
  /\ reloj = 0
  /\ efectos = {}
  /\ hora = [i \in Intento |-> 0]
  /\ busca = [i \in Intento |-> 0]
  /\ asentados = [i \in Intento |-> {}]
  /\ abiertos = {}
  /\ fallas = 0

Falla == fallas < MaxFallas /\ fallas' = fallas + 1

Ir(i, paso) == pc' = [pc EXCEPT ![i] = paso]

Contestar(i, tipo, de) == res' = [res EXCEPT ![i] = Respondida(tipo, de)]

-----------------------------------------------------------------------------
(* The middleware *)

\* handle: a POST with no key is served as it is.
Handle(i) ==
  /\ pc[i] = "inicio"
  /\ Ir(i, IF pide[i].clave = SinClave THEN "handler" ELSE "buscar")
  /\ UNCHANGED <<pide, res, registros, reloj, historia, fallas>>

\* Store.Get: an expired row counts as absent.
Vivos(k) == {g \in registros : g.clave = k /\ g.vence > reloj}

\* POSTs of i's key that were served and saved before now.
Guardados(i) ==
  {j \in efectos : pide[j].clave = pide[i].clave /\ pc[j] = "fin" /\ hora[j] # 0}

Mirado(i) ==
  /\ busca' = [busca EXCEPT ![i] = reloj]
  /\ asentados' = [asentados EXCEPT ![i] = Guardados(i)]

\* Mutant: the key alone decides.
TryReplaySinHash(i) ==
  /\ pc[i] = "buscar"
  /\ Mirado(i)
  /\ \/ \E g \in Vivos(pide[i].clave) :
          /\ Contestar(i, "repetida", g.de)
          /\ Ir(i, "fin")
     \/ /\ Vivos(pide[i].clave) = {}
        /\ Ir(i, "handler")
        /\ UNCHANGED res
  /\ UNCHANGED <<pide, registros, reloj, efectos, hora, abiertos, fallas>>

\* tryReplay: the stored answer, a 422 for another body, or the handler.
TryReplay(i) ==
  /\ pc[i] = "buscar"
  /\ Mirado(i)
  /\ \/ \E g \in Vivos(pide[i].clave) :
          /\ IF g.cuerpo = pide[i].cuerpo
             THEN Contestar(i, "repetida", g.de)
             ELSE Contestar(i, "distinta", SinClave)
          /\ Ir(i, "fin")
     \/ /\ Vivos(pide[i].clave) = {}
        /\ Ir(i, "handler")
        /\ UNCHANGED res
  /\ UNCHANGED <<pide, registros, reloj, efectos, hora, abiertos, fallas>>

\* Get fails: the request proceeds.
GetFalla(i) ==
  /\ pc[i] = "buscar"
  /\ Falla
  /\ Mirado(i)
  /\ abiertos' = abiertos \cup {i}
  /\ Ir(i, "handler")
  /\ UNCHANGED <<pide, res, registros, reloj, efectos, hora>>

\* The handler answers 2xx, which reaches the client before it is saved.
HandlerExito(i) ==
  /\ pc[i] = "handler"
  /\ efectos' = efectos \cup {i}
  /\ Contestar(i, "exito", i)
  /\ Ir(i, IF pide[i].clave = SinClave THEN "fin" ELSE "guardar")
  /\ UNCHANGED <<pide, registros, reloj, hora, busca, asentados, abiertos, fallas>>

\* It answers 4xx or 5xx: nothing is saved.
HandlerError(i) ==
  /\ pc[i] = "handler"
  /\ Contestar(i, "error", i)
  /\ Ir(i, "fin")
  /\ UNCHANGED <<pide, registros, reloj, historia, fallas>>

\* Mutant: the expired row is not replaced.
SaveSinReemplazar(i) ==
  /\ pc[i] = "guardar"
  /\ registros' = IF Vivos(pide[i].clave) # {} THEN registros
       ELSE registros \cup {[clave |-> pide[i].clave, cuerpo |-> pide[i].cuerpo,
                             de |-> i, vence |-> reloj + Ttl]}
  /\ hora' = [hora EXCEPT ![i] = reloj + 1]
  /\ Ir(i, "fin")
  /\ UNCHANGED <<pide, res, reloj, efectos, busca, asentados, abiertos, fallas>>

\* Mutant: UPSERT on key.
SaveUltimoGana(i) ==
  /\ pc[i] = "guardar"
  /\ registros' = {g \in registros : g.clave # pide[i].clave} \cup
       {[clave |-> pide[i].clave, cuerpo |-> pide[i].cuerpo, de |-> i,
         vence |-> reloj + Ttl]}
  /\ hora' = [hora EXCEPT ![i] = reloj + 1]
  /\ Ir(i, "fin")
  /\ UNCHANGED <<pide, res, reloj, efectos, busca, asentados, abiertos, fallas>>

\* Save, one transaction: an expired row is replaced, a live one stays (the
\* first writer wins) and the call succeeds all the same.
Save(i) ==
  /\ pc[i] = "guardar"
  /\ registros' = IF Vivos(pide[i].clave) # {} THEN registros
       ELSE {g \in registros : g.clave # pide[i].clave} \cup
            {[clave |-> pide[i].clave, cuerpo |-> pide[i].cuerpo, de |-> i,
              vence |-> reloj + Ttl]}
  /\ hora' = [hora EXCEPT ![i] = reloj + 1]
  /\ Ir(i, "fin")
  /\ UNCHANGED <<pide, res, reloj, efectos, busca, asentados, abiertos, fallas>>

\* Save fails and is logged: the answer was given, the key is not taken.
SaveFalla(i) ==
  /\ pc[i] = "guardar"
  /\ Falla
  /\ Ir(i, "fin")
  /\ UNCHANGED <<pide, res, registros, reloj, historia>>

\* Mutant: the purge does not wait for the expiry.
PurgeDeMas ==
  /\ registros' = {g \in registros : g.vence > reloj + 1}
  /\ UNCHANGED <<pide, pc, res, reloj, historia, fallas>>

\* Janitor.purgeOnce, at boot and on every tick.
PurgeExpired ==
  /\ registros' = {g \in registros : g.vence > reloj}
  /\ UNCHANGED <<pide, pc, res, reloj, historia, fallas>>

Tic ==
  /\ reloj < MaxReloj
  /\ reloj' = reloj + 1
  /\ UNCHANGED <<pide, pc, res, registros, historia, fallas>>

\* The process restarts: what was in flight is over, saved or not.
Reinicio ==
  /\ Falla
  /\ pc' = [i \in Intento |-> IF pc[i] = "inicio" THEN "inicio" ELSE "fin"]
  /\ UNCHANGED <<pide, res, registros, reloj, historia>>

-----------------------------------------------------------------------------
Servir(i) ==
  \/ Handle(i) \/ TryReplay(i) \/ GetFalla(i)
  \/ HandlerExito(i) \/ HandlerError(i)
  \/ Save(i) \/ SaveFalla(i)

Next ==
  \/ \E i \in Intento : Servir(i)
  \/ PurgeExpired
  \/ Tic
  \/ Reinicio

Spec == Init /\ [][Next]_vars

-----------------------------------------------------------------------------
(* Properties *)

\* Types, and one row per key (its primary key).
TypeOK ==
  /\ pide \in [Intento -> Solicitud]
  /\ pc \in [Intento -> Paso]
  /\ res \in [Intento -> Respuesta]
  /\ registros \subseteq Registro
  /\ \A g, h \in registros : g.clave = h.clave => g = h
  /\ reloj \in 0..MaxReloj
  /\ efectos \subseteq Intento /\ abiertos \subseteq Intento
  /\ hora \in [Intento -> Nat]
  /\ busca \in [Intento -> Nat]
  /\ asentados \in [Intento -> SUBSET Intento]
  /\ fallas \in 0..MaxFallas

\* How far a POST is: only one that looked its key up has a history of it.
EnSuPaso ==
  /\ \A i \in efectos : pc[i] \in {"guardar", "fin"}
  /\ \A i \in Intento : hora[i] # 0 => i \in efectos /\ pc[i] = "fin"
  /\ \A i \in Intento : pc[i] = "guardar" => i \in efectos
  /\ \A i \in Intento : pc[i] \in {"inicio", "buscar"} => asentados[i] = {}
  /\ \A i \in Intento : pc[i] \in {"buscar", "guardar"} => pide[i].clave \in Clave

\* A row is the success of the POST that saved it, and expires Ttl later.
RegistroFiel ==
  \A g \in registros :
    /\ g.de \in efectos /\ hora[g.de] # 0
    /\ pide[g.de] = [clave |-> g.clave, cuerpo |-> g.cuerpo]
    /\ g.vence = hora[g.de] - 1 + Ttl

Expirada(h, cuando) == hora[h] # 0 /\ hora[h] - 1 + Ttl <= cuando

\* A key that was saved keeps a row, until a success of it is Ttl old.
SalvadaOVencida ==
  \A i \in Intento : hora[i] # 0 =>
    \/ \E g \in registros : g.clave = pide[i].clave
    \/ \E h \in efectos : pide[h].clave = pide[i].clave /\ Expirada(h, reloj)

\* A POST on its way to a second execution has its cause already.
ConCausa(j) ==
  j \in abiertos \/ \E h \in efectos \ {j} :
    pide[h].clave = pide[j].clave /\ Expirada(h, busca[j])

CausaPrevia ==
  \A j \in Intento :
    pc[j] \in {"handler", "guardar"} /\ asentados[j] # {} => ConCausa(j)

\* A replay is honest: it gives back the success of a POST with the same key
\* and the same body, never an error and never the answer to something else.
RepeticionFiel ==
  \A i \in Intento : res[i].tipo = "repetida" =>
    res[i].de \in efectos /\ pide[res[i].de] = pide[i]

\* The only doors to a second execution.  A POST whose key had already been
\* served and saved runs its handler again only if its Get failed, or if some
\* success of that key is at least Ttl old.  What remains is two POSTs in
\* flight at once, which the middleware does not exclude.
EjecutaOtraVezConCausa == \A j \in efectos : asentados[j] # {} => ConCausa(j)

IInv ==
  /\ TypeOK /\ EnSuPaso /\ RegistroFiel /\ SalvadaOVencida
  /\ CausaPrevia /\ RepeticionFiel /\ EjecutaOtraVezConCausa

\* First writer wins: while an answer is live no later POST and no purge
\* replaces or removes it, so all replays of a key agree.
RespuestaEstable ==
  [][\A g \in registros : g.vence > reloj => g \in registros']_vars
=============================================================================
