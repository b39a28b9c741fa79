-------------------------- MODULE Idempotencia_proofs --------------------------
(***************************************************************************)
(* What the Idempotency-Key middleware promises for any number of POSTs,   *)
(* keys and bodies, any life of a record and any number of failures:       *)
(* replays are honest and agree, and a served key is executed again only   *)
(* after a failed lookup or an expiry.                                     *)
(***************************************************************************)
EXTENDS Idempotencia, TLAPS

\* What a Save writes: the row of POST i.
Fila(i) == [clave |-> pide[i].clave, cuerpo |-> pide[i].cuerpo, de |-> i,
            vence |-> reloj + Ttl]

LEMMA LosTipos ==
  ASSUME TypeOK
  PROVE  /\ Ttl \in Nat /\ Ttl > 0 /\ reloj \in Nat
         /\ \A i \in Intento : /\ pide[i] \in Solicitud
                               /\ pide[i].clave \in Clave \cup {SinClave}
                               /\ pide[i].cuerpo \in Cuerpo
                               /\ pide[i] = [clave |-> pide[i].clave,
                                             cuerpo |-> pide[i].cuerpo]
                               /\ hora[i] \in Nat /\ busca[i] \in Nat
                               /\ asentados[i] \subseteq Intento
         /\ \A g \in registros : /\ g \in Registro /\ g.clave \in Clave
                                 /\ g.de \in Intento /\ g.vence \in Nat
  BY IdempotenciaAssumption DEF TypeOK, Solicitud, Registro

LEMMA LasRespuestas ==
  /\ \A i \in Intento : \A tipo \in {"exito", "error", "repetida"} :
       /\ Respondida(tipo, i) \in Respuesta
       /\ Respondida(tipo, i).tipo = tipo /\ Respondida(tipo, i).de = i
  /\ \A tipo \in {"ninguna", "distinta"} :
       /\ Respondida(tipo, SinClave) \in Respuesta
       /\ Respondida(tipo, SinClave).tipo = tipo
BY DEF Respondida, Respuesta

\* What no POST's history loses: successes, times of Saves and of Gets.
Crece ==
  /\ efectos \subseteq efectos'
  /\ \A h \in Intento : hora[h] # 0 => hora'[h] = hora[h]
  /\ reloj' \in Nat /\ reloj' >= reloj
  /\ pide' = pide

LEMMA SigueExpirada ==
  ASSUME TypeOK, Crece, NEW h \in Intento, NEW c \in Nat, NEW e \in Nat,
         Expirada(h, c), e >= c
  PROVE  Expirada(h, e)'
  <1>1. hora[h] # 0 /\ hora[h] - 1 + Ttl <= c
    BY DEF Expirada
  <1>2. hora'[h] = hora[h]
    BY <1>1 DEF Crece
  <1>3. hora[h] - 1 + Ttl <= e
    <2>1. hora[h] \in Nat /\ Ttl \in Nat
      BY LosTipos
    <2> QED BY <1>1, <2>1
  <1> QED BY <1>1, <1>2, <1>3 DEF Expirada

LEMMA SigueLaCausa ==
  ASSUME TypeOK, Crece, NEW j \in Intento, ConCausa(j),
         busca'[j] = busca[j], abiertos \subseteq abiertos'
  PROVE  ConCausa(j)'
  <1>1. CASE j \in abiertos
    BY <1>1 DEF ConCausa
  <1>2. CASE \E h \in efectos \ {j} :
               pide[h].clave = pide[j].clave /\ Expirada(h, busca[j])
    <2>1. PICK h \in efectos \ {j} :
            pide[h].clave = pide[j].clave /\ Expirada(h, busca[j])
      BY <1>2
    <2>2. h \in Intento /\ h \in efectos' \ {j} /\ pide' = pide
      BY <2>1 DEF Crece, TypeOK
    <2>3. busca[j] \in Nat
      BY LosTipos
    <2>4. Expirada(h, busca[j])'
      BY <2>1, <2>2, <2>3, SigueExpirada DEF Expirada
    <2> QED BY <2>1, <2>2, <2>4 DEF ConCausa
  <1> QED BY <1>1, <1>2 DEF ConCausa

-----------------------------------------------------------------------------
(* What an action that leaves a part of the state alone cannot disturb *)

LEMMA SigueRegistro ==
  ASSUME TypeOK, Crece, RegistroFiel, registros' \subseteq registros
  PROVE  RegistroFiel'
BY LosTipos DEF RegistroFiel, Crece

LEMMA SigueSalvada ==
  ASSUME TypeOK, Crece, SalvadaOVencida, hora' = hora, registros' = registros
  PROVE  SalvadaOVencida'
<1> SUFFICES ASSUME NEW i \in Intento, hora[i] # 0
             PROVE  \/ \E g \in registros : g.clave = pide[i].clave
                    \/ \E h \in efectos' : pide[h].clave = pide[i].clave
                                           /\ Expirada(h, reloj)'
  BY DEF SalvadaOVencida, Crece
<1>1. ASSUME NEW h \in efectos, pide[h].clave = pide[i].clave, Expirada(h, reloj)
      PROVE  h \in efectos' /\ pide[h].clave = pide[i].clave /\ Expirada(h, reloj)'
  <2>1. h \in Intento /\ h \in efectos' /\ reloj \in Nat /\ reloj' \in Nat
        /\ reloj' >= reloj
    BY <1>1, LosTipos DEF TypeOK, Crece
  <2>2. Ttl \in Nat /\ hora[h] \in Nat /\ hora[h] # 0 /\ hora[h] - 1 + Ttl <= reloj
    BY <1>1, <2>1, LosTipos DEF Expirada
  <2>3. hora[h] - 1 + Ttl <= reloj'
    BY <2>1, <2>2
  <2> QED BY <1>1, <2>1, <2>2, <2>3 DEF Expirada
<1> QED BY <1>1 DEF SalvadaOVencida

LEMMA SigueRepeticion ==
  ASSUME TypeOK, Crece, RepeticionFiel, res' = res
  PROVE  RepeticionFiel'
BY DEF RepeticionFiel, Crece

\* Nobody starts another execution.
LEMMA SigueEjecuta ==
  ASSUME TypeOK, Crece, EjecutaOtraVezConCausa, efectos' = efectos,
         abiertos \subseteq abiertos',
         \A j \in efectos : asentados'[j] = asentados[j] /\ busca'[j] = busca[j]
  PROVE  EjecutaOtraVezConCausa'
<1> SUFFICES ASSUME NEW j \in efectos, asentados[j] # {}
             PROVE  ConCausa(j)'
  BY DEF EjecutaOtraVezConCausa
<1>1. j \in Intento /\ ConCausa(j)
  BY DEF EjecutaOtraVezConCausa, TypeOK
<1> QED BY <1>1, SigueLaCausa

\* Nobody else enters the handler.
LEMMA SigueCausa ==
  ASSUME TypeOK, Crece, CausaPrevia, NEW j \in Intento,
         abiertos \subseteq abiertos',
         asentados'[j] = asentados[j] /\ busca'[j] = busca[j],
         pc[j] \in {"handler", "guardar"}, asentados'[j] # {}
  PROVE  ConCausa(j)'
BY SigueLaCausa DEF CausaPrevia

-----------------------------------------------------------------------------
(* The steps *)

LEMMA Inicial == ASSUME Init PROVE IInv
<1>1. TypeOK
  BY LasRespuestas, IdempotenciaAssumption DEF Init, TypeOK, Paso
<1>2. EnSuPaso /\ RegistroFiel /\ SalvadaOVencida /\ CausaPrevia
  BY DEF Init, EnSuPaso, RegistroFiel, SalvadaOVencida, CausaPrevia
<1>3. RepeticionFiel /\ EjecutaOtraVezConCausa
  BY LasRespuestas DEF Init, RepeticionFiel, EjecutaOtraVezConCausa
<1> QED BY <1>1, <1>2, <1>3 DEF IInv

LEMMA HandleFija ==
  ASSUME IInv, NEW i \in Intento, Handle(i)
  PROVE  IInv'
<1> USE DEF IInv
<1>1. Crece
  BY LosTipos DEF Crece, Handle, historia
<1>2. /\ pc[i] = "inicio" /\ pc'[i] \in {"handler", "buscar"}
      /\ \A j \in Intento \ {i} : pc'[j] = pc[j]
      /\ pc' \in [Intento -> Paso]
      /\ UNCHANGED <<pide, res, registros, reloj, efectos, hora, busca,
                     asentados, abiertos, fallas>>
  BY DEF Handle, Ir, TypeOK, Paso, historia
<1>6. pc'[i] = "buscar" => pide[i].clave \in Clave
  BY LosTipos DEF Handle, Ir, TypeOK
<1>3. TypeOK'
  BY <1>2 DEF TypeOK
<1>4. EnSuPaso' /\ asentados[i] = {}
  BY <1>2, <1>6 DEF EnSuPaso, TypeOK
<1>5. CausaPrevia'
  BY <1>1, <1>2, <1>4, SigueCausa DEF CausaPrevia
<1> QED BY <1>1, <1>2, <1>3, <1>4, <1>5, SigueRegistro, SigueSalvada,
           SigueRepeticion, SigueEjecuta

\* The three outcomes of a Get have in common what they record of it.
LEMMA GetFija ==
  ASSUME IInv, NEW i \in Intento, pc[i] = "buscar", Mirado(i),
         pc' \in [Intento -> Paso], pc'[i] \in {"handler", "fin"},
         \A j \in Intento \ {i} : pc'[j] = pc[j],
         res' \in [Intento -> Respuesta], RepeticionFiel',
         abiertos' \in SUBSET Intento, abiertos \subseteq abiertos',
         fallas' \in 0..MaxFallas,
         pc'[i] = "handler" => i \in abiertos' \/ Vivos(pide[i].clave) = {},
         UNCHANGED <<pide, registros, reloj, efectos, hora>>
  PROVE  IInv'
<1> USE DEF IInv
<1>1. Crece
  BY LosTipos DEF Crece
<1>2. /\ busca' \in [Intento -> Nat] /\ busca'[i] = reloj
      /\ asentados' \in [Intento -> SUBSET Intento] /\ asentados'[i] = Guardados(i)
      /\ \A j \in Intento \ {i} : busca'[j] = busca[j] /\ asentados'[j] = asentados[j]
  <2>1. Guardados(i) \subseteq Intento /\ reloj \in Nat
    BY LosTipos DEF Guardados, TypeOK
  <2> QED BY <2>1 DEF Mirado, TypeOK
<1>3. TypeOK'
  BY <1>2 DEF TypeOK
<1>4. i \notin efectos /\ hora[i] = 0
  BY DEF EnSuPaso
<1>5. EnSuPaso'
  BY <1>2, <1>4 DEF EnSuPaso, TypeOK
<1>6. CausaPrevia'
  <2> SUFFICES ASSUME NEW j \in Intento, pc'[j] \in {"handler", "guardar"},
                      asentados'[j] # {}
               PROVE  ConCausa(j)'
    BY DEF CausaPrevia
  <2>1. CASE j # i
    BY <1>1, <1>2, <2>1, SigueCausa
  <2>2. CASE j = i /\ i \in abiertos'
    BY <2>2 DEF ConCausa
  <2>3. CASE j = i /\ Vivos(pide[i].clave) = {}
    <3>1. PICK k \in efectos : pide[k].clave = pide[i].clave /\ hora[k] # 0
      BY <1>2, <2>3 DEF Guardados
    <3>2. k \in Intento
      BY DEF TypeOK
    <3>3. \E h \in efectos : pide[h].clave = pide[i].clave /\ Expirada(h, reloj)
      <4>1. CASE \E g \in registros : g.clave = pide[k].clave
        <5>1. PICK g \in registros : g.clave = pide[k].clave
          BY <4>1
        <5>2. ~(g.vence > reloj)
          BY <2>3, <3>1, <5>1 DEF Vivos
        <5>3. g.vence \in Nat /\ reloj \in Nat
          BY <5>1, LosTipos
        <5>4. g.vence <= reloj
          BY <5>2, <5>3
        <5>5. /\ g.de \in efectos /\ hora[g.de] # 0
              /\ pide[g.de] = [clave |-> g.clave, cuerpo |-> g.cuerpo]
              /\ g.vence = hora[g.de] - 1 + Ttl
          BY <5>1 DEF RegistroFiel
        <5>7. pide[g.de].clave = g.clave
          BY <5>5
        <5>6. Expirada(g.de, reloj)
          BY <5>4, <5>5 DEF Expirada
        <5> QED BY <3>1, <5>1, <5>5, <5>6, <5>7
      <4> QED BY <3>1, <3>2, <4>1 DEF SalvadaOVencida
    <3>4. PICK h \in efectos : pide[h].clave = pide[i].clave /\ Expirada(h, reloj)
      BY <3>3
    <3>5. h \in efectos' \ {i} /\ Expirada(h, busca[i])'
      BY <1>2, <1>4, <3>4 DEF Expirada
    <3> QED BY <2>3, <3>4, <3>5 DEF ConCausa
  <2> QED BY <2>1, <2>2, <2>3
<1>7. EjecutaOtraVezConCausa'
  <2>1. \A j \in efectos : asentados'[j] = asentados[j] /\ busca'[j] = busca[j]
    BY <1>2, <1>4 DEF TypeOK
  <2> QED BY <1>1, <2>1, SigueEjecuta
<1> QED BY <1>1, <1>3, <1>5, <1>6, <1>7, SigueRegistro, SigueSalvada

LEMMA TryReplayFija ==
  ASSUME IInv, NEW i \in Intento, TryReplay(i)
  PROVE  IInv'
<1>1. CASE Vivos(pide[i].clave) = {} /\ Ir(i, "handler") /\ UNCHANGED res
  <2>1. pc[i] = "buscar" /\ Mirado(i)
        /\ UNCHANGED <<pide, registros, reloj, efectos, hora, abiertos, fallas>>
    BY DEF TryReplay
  <2>2. /\ pc' \in [Intento -> Paso] /\ pc'[i] = "handler"
        /\ \A j \in Intento \ {i} : pc'[j] = pc[j]
    BY <1>1 DEF Ir, IInv, TypeOK, Paso
  <2>3. res' \in [Intento -> Respuesta] /\ abiertos' \in SUBSET Intento
        /\ fallas' \in 0..MaxFallas
    BY <1>1, <2>1 DEF IInv, TypeOK
  <2>4. RepeticionFiel'
    BY <1>1, <2>1 DEF IInv, RepeticionFiel
  <2> QED BY <1>1, <2>1, <2>2, <2>3, <2>4, GetFija
<1>2. CASE \E g \in Vivos(pide[i].clave) :
             /\ IF g.cuerpo = pide[i].cuerpo
                THEN Contestar(i, "repetida", g.de)
                ELSE Contestar(i, "distinta", SinClave)
             /\ Ir(i, "fin")
  <2>1. pc[i] = "buscar" /\ Mirado(i)
        /\ UNCHANGED <<pide, registros, reloj, efectos, hora, abiertos, fallas>>
    BY DEF TryReplay
  <2>2. PICK g \in Vivos(pide[i].clave) :
             /\ IF g.cuerpo = pide[i].cuerpo
                THEN Contestar(i, "repetida", g.de)
                ELSE Contestar(i, "distinta", SinClave)
             /\ Ir(i, "fin")
    BY <1>2
  <2>3. /\ pc' \in [Intento -> Paso] /\ pc'[i] = "fin"
        /\ \A j \in Intento \ {i} : pc'[j] = pc[j]
    BY <2>2 DEF Ir, IInv, TypeOK, Paso
  <2>4. g \in registros /\ g.clave = pide[i].clave /\ g.de \in Intento
        /\ g.de \in efectos /\ pide[g.de] = [clave |-> g.clave, cuerpo |-> g.cuerpo]
    BY <2>2, LosTipos DEF Vivos, IInv, RegistroFiel
  <2>5. abiertos' \in SUBSET Intento /\ fallas' \in 0..MaxFallas
    BY <2>1 DEF IInv, TypeOK
  <2>6. CASE g.cuerpo = pide[i].cuerpo
    <3>1. pide[g.de] = pide[i]
      BY <2>4, <2>6, LosTipos DEF IInv
    <3>2. res' = [res EXCEPT ![i] = Respondida("repetida", g.de)]
      BY <2>2, <2>6 DEF Contestar
    <3>3. /\ res' \in [Intento -> Respuesta]
          /\ res'[i].de = g.de
          /\ \A j \in Intento \ {i} : res'[j] = res[j]
      BY <2>4, <3>2, LasRespuestas DEF IInv, TypeOK
    <3>4. RepeticionFiel'
      BY <2>1, <2>4, <3>1, <3>3 DEF IInv, RepeticionFiel
    <3> QED BY <2>1, <2>3, <2>5, <3>3, <3>4, GetFija
  <2>7. CASE g.cuerpo # pide[i].cuerpo
    <3>1. res' = [res EXCEPT ![i] = Respondida("distinta", SinClave)]
      BY <2>2, <2>7 DEF Contestar
    <3>2. /\ res' \in [Intento -> Respuesta]
          /\ res'[i].tipo = "distinta"
          /\ \A j \in Intento \ {i} : res'[j] = res[j]
      BY <3>1, LasRespuestas DEF IInv, TypeOK
    <3>3. RepeticionFiel'
      BY <2>1, <3>2 DEF IInv, RepeticionFiel
    <3> QED BY <2>1, <2>3, <2>5, <3>2, <3>3, GetFija
  <2> QED BY <2>6, <2>7
<1> QED BY <1>1, <1>2 DEF TryReplay

LEMMA GetFallaFija ==
  ASSUME IInv, NEW i \in Intento, GetFalla(i)
  PROVE  IInv'
<1>1. /\ pc[i] = "buscar" /\ Mirado(i) /\ abiertos' = abiertos \cup {i}
      /\ UNCHANGED <<pide, res, registros, reloj, efectos, hora>>
  BY DEF GetFalla
<1>2. /\ pc' \in [Intento -> Paso] /\ pc'[i] = "handler"
      /\ \A j \in Intento \ {i} : pc'[j] = pc[j]
  BY DEF GetFalla, Ir, IInv, TypeOK, Paso
<1>3. fallas' \in 0..MaxFallas /\ abiertos' \in SUBSET Intento
  BY IdempotenciaAssumption DEF GetFalla, Falla, IInv, TypeOK
<1>4. RepeticionFiel' /\ res' \in [Intento -> Respuesta]
  BY <1>1 DEF IInv, TypeOK, RepeticionFiel
<1> QED BY <1>1, <1>2, <1>3, <1>4, GetFija

LEMMA HandlerExitoFija ==
  ASSUME IInv, NEW i \in Intento, HandlerExito(i)
  PROVE  IInv'
<1> USE DEF IInv
<1>1. Crece
  BY LosTipos DEF Crece, HandlerExito
<1>2. /\ pc[i] = "handler" /\ pc'[i] \in {"fin", "guardar"}
      /\ pc' \in [Intento -> Paso]
      /\ \A j \in Intento \ {i} : pc'[j] = pc[j]
      /\ efectos' = efectos \cup {i}
      /\ UNCHANGED <<pide, registros, reloj, hora, busca, asentados, abiertos, fallas>>
  BY DEF HandlerExito, Ir, TypeOK, Paso
<1>3. /\ res' \in [Intento -> Respuesta] /\ res'[i].tipo = "exito"
      /\ \A j \in Intento \ {i} : res'[j] = res[j]
  BY LasRespuestas DEF HandlerExito, Contestar, TypeOK
<1>4. TypeOK'
  BY <1>2, <1>3 DEF TypeOK
<1>10. pc'[i] = "guardar" => pide[i].clave \in Clave
  BY LosTipos DEF HandlerExito, Ir, TypeOK
<1>5. EnSuPaso'
  BY <1>2, <1>10 DEF EnSuPaso, TypeOK
<1>6. RepeticionFiel'
  BY <1>2, <1>3 DEF RepeticionFiel
<1>7. ASSUME NEW j \in Intento, asentados[j] # {},
             pc[j] \in {"handler", "guardar"} \/ j \in efectos
      PROVE  ConCausa(j)'
  <2>1. ConCausa(j)
    BY <1>7 DEF CausaPrevia, EjecutaOtraVezConCausa
  <2> QED BY <1>1, <1>2, <2>1, SigueLaCausa
<1>8. CausaPrevia'
  BY <1>2, <1>7 DEF CausaPrevia
<1>9. EjecutaOtraVezConCausa'
  BY <1>2, <1>7 DEF EjecutaOtraVezConCausa, TypeOK
<1> QED BY <1>1, <1>2, <1>4, <1>5, <1>6, <1>8, <1>9, SigueRegistro, SigueSalvada

\* The POST ends, or the process does, with nothing saved.
LEMMA FinFija ==
  ASSUME IInv, pc' \in [Intento -> Paso],
         \A j \in Intento : pc'[j] = pc[j] \/ pc'[j] = "fin",
         res' \in [Intento -> Respuesta], RepeticionFiel', fallas' \in 0..MaxFallas,
         UNCHANGED <<pide, registros, reloj, historia>>
  PROVE  IInv'
<1> USE DEF IInv
<1>1. /\ Crece
      /\ UNCHANGED <<pide, registros, reloj, efectos, hora, busca, asentados, abiertos>>
  BY LosTipos DEF Crece, historia
<1>2. TypeOK'
  BY <1>1 DEF TypeOK
<1>3. EnSuPaso'
  BY <1>1 DEF EnSuPaso, TypeOK
<1>4. CausaPrevia'
  <2> SUFFICES ASSUME NEW j \in Intento, pc'[j] \in {"handler", "guardar"},
                      asentados'[j] # {}
               PROVE  ConCausa(j)'
    BY DEF CausaPrevia
  <2> QED BY <1>1, SigueCausa
<1> QED BY <1>1, <1>2, <1>3, <1>4, SigueRegistro, SigueSalvada, SigueEjecuta

LEMMA HandlerErrorFija ==
  ASSUME IInv, NEW i \in Intento, HandlerError(i)
  PROVE  IInv'
<1>1. /\ pc' \in [Intento -> Paso]
      /\ \A j \in Intento : pc'[j] = pc[j] \/ pc'[j] = "fin"
      /\ UNCHANGED <<pide, registros, reloj, historia>> /\ fallas' \in 0..MaxFallas
  BY DEF HandlerError, Ir, IInv, TypeOK, Paso
<1>2. /\ res' \in [Intento -> Respuesta] /\ res'[i].tipo = "error"
      /\ \A j \in Intento \ {i} : res'[j] = res[j]
  BY LasRespuestas DEF HandlerError, Contestar, IInv, TypeOK
<1>3. RepeticionFiel'
  BY <1>1, <1>2 DEF IInv, RepeticionFiel, historia
<1> QED BY <1>1, <1>2, <1>3, FinFija

LEMMA SaveFallaFija ==
  ASSUME IInv, NEW i \in Intento, SaveFalla(i)
  PROVE  IInv'
<1>1. /\ pc' \in [Intento -> Paso]
      /\ \A j \in Intento : pc'[j] = pc[j] \/ pc'[j] = "fin"
      /\ UNCHANGED <<pide, res, registros, reloj, historia>>
  BY DEF SaveFalla, Ir, IInv, TypeOK, Paso
<1>2. fallas' \in 0..MaxFallas
  BY IdempotenciaAssumption DEF SaveFalla, Falla, IInv, TypeOK
<1>3. RepeticionFiel' /\ res' \in [Intento -> Respuesta]
  BY <1>1 DEF IInv, TypeOK, RepeticionFiel, historia
<1> QED BY <1>1, <1>2, <1>3, FinFija

LEMMA ReinicioFija == ASSUME IInv, Reinicio PROVE IInv'
<1>1. /\ pc' \in [Intento -> Paso]
      /\ \A j \in Intento : pc'[j] = pc[j] \/ pc'[j] = "fin"
      /\ UNCHANGED <<pide, res, registros, reloj, historia>>
  BY DEF Reinicio, IInv, TypeOK, Paso
<1>2. fallas' \in 0..MaxFallas
  BY IdempotenciaAssumption DEF Reinicio, Falla, IInv, TypeOK
<1>3. RepeticionFiel' /\ res' \in [Intento -> Respuesta]
  BY <1>1 DEF IInv, TypeOK, RepeticionFiel, historia
<1> QED BY <1>1, <1>2, <1>3, FinFija

\* The clock and the purge touch no POST; a purged row leaves its reason.
LEMMA RelojFija ==
  ASSUME IInv, PurgeExpired \/ Tic
  PROVE  IInv'
<1> USE DEF IInv
<1>1. /\ Crece /\ registros' \subseteq registros
      /\ reloj' \in 0..MaxReloj
      /\ \A g \in registros \ registros' : ~(g.vence > reloj)
      /\ UNCHANGED <<pide, pc, res, efectos, hora, busca, asentados, abiertos, fallas>>
  BY LosTipos, IdempotenciaAssumption
     DEF Crece, PurgeExpired, Tic, TypeOK, historia
<1>2. TypeOK'
  BY <1>1 DEF TypeOK
<1>3. EnSuPaso' /\ RepeticionFiel'
  BY <1>1 DEF EnSuPaso, RepeticionFiel
<1>4. CausaPrevia'
  BY <1>1, SigueCausa DEF CausaPrevia
<1>5. SalvadaOVencida'
  <2> SUFFICES ASSUME NEW i \in Intento, hora[i] # 0
               PROVE  \/ \E g \in registros' : g.clave = pide[i].clave
                      \/ \E h \in efectos : pide[h].clave = pide[i].clave
                                            /\ Expirada(h, reloj)'
    BY <1>1 DEF SalvadaOVencida
  <2>1. ASSUME NEW h \in efectos, Expirada(h, reloj)
        PROVE  Expirada(h, reloj)'
    <3>1. h \in Intento /\ reloj \in Nat /\ reloj' \in Nat /\ reloj' >= reloj
          /\ Ttl \in Nat
      BY <1>1, <2>1, LosTipos DEF TypeOK, Crece
    <3>2. hora[h] \in Nat /\ hora[h] # 0 /\ hora[h] - 1 + Ttl <= reloj
      BY <2>1, <3>1, LosTipos DEF Expirada
    <3>3. hora[h] - 1 + Ttl <= reloj'
      BY <3>1, <3>2
    <3> QED BY <1>1, <3>2, <3>3 DEF Expirada
  <2>2. ASSUME NEW g \in registros \ registros', g.clave = pide[i].clave
        PROVE  \E h \in efectos : pide[h].clave = pide[i].clave /\ Expirada(h, reloj)
    <3>1. g.vence \in Nat /\ reloj \in Nat /\ ~(g.vence > reloj)
      BY <1>1, <2>2, LosTipos
    <3>2. g.vence <= reloj
      BY <3>1
    <3>3. /\ g.de \in efectos /\ hora[g.de] # 0
          /\ pide[g.de] = [clave |-> g.clave, cuerpo |-> g.cuerpo]
          /\ g.vence = hora[g.de] - 1 + Ttl
      BY <2>2 DEF RegistroFiel
    <3>4. pide[g.de].clave = g.clave
      BY <3>3
    <3>5. Expirada(g.de, reloj)
      BY <3>2, <3>3 DEF Expirada
    <3> QED BY <2>2, <3>3, <3>4, <3>5
  <2> QED BY <2>1, <2>2 DEF SalvadaOVencida
<1> QED BY <1>1, <1>2, <1>3, <1>4, <1>5, SigueRegistro, SigueEjecuta

LEMMA UnaFila ==
  ASSUME TypeOK, NEW k, NEW f, f.clave = k, NEW S,
         S = registros \/ S = {g \in registros : g.clave # k} \cup {f}
  PROVE  \A g, h \in S : g.clave = h.clave => g = h
<1>1. \A g, h \in registros : g.clave = h.clave => g = h
  BY Zenon DEF TypeOK
<1>2. CASE S = registros
  BY <1>1, <1>2
<1>3. CASE S = {g \in registros : g.clave # k} \cup {f}
  <2>1. \A g \in S : (g \in registros /\ g.clave # k) \/ g = f
    BY <1>3
  <2> QED BY <1>1, <2>1, Zenon
<1> QED BY <1>2, <1>3

LEMMA SaveFija ==
  ASSUME IInv, NEW i \in Intento, Save(i)
  PROVE  IInv'
<1> USE DEF IInv
<1>1. /\ pc[i] = "guardar" /\ pc'[i] = "fin" /\ pc' \in [Intento -> Paso]
      /\ \A j \in Intento \ {i} : pc'[j] = pc[j]
      /\ hora' \in [Intento -> Nat] /\ hora'[i] = reloj + 1
      /\ \A j \in Intento \ {i} : hora'[j] = hora[j]
      /\ UNCHANGED <<pide, res, reloj, efectos, busca, asentados, abiertos, fallas>>
  BY LosTipos DEF Save, Ir, TypeOK, Paso
<1>2. i \in efectos /\ hora[i] = 0 /\ hora'[i] # 0 /\ reloj \in Nat
  BY <1>1, LosTipos DEF EnSuPaso
<1>3. Crece
  BY <1>1, <1>2 DEF Crece
<1>4. \/ registros' = registros /\ Vivos(pide[i].clave) # {}
      \/ registros' = {g \in registros : g.clave # pide[i].clave} \cup {Fila(i)}
  BY DEF Save, Fila
<1>5. /\ Fila(i).clave = pide[i].clave /\ Fila(i).cuerpo = pide[i].cuerpo
      /\ Fila(i).de = i /\ Fila(i).vence = reloj + Ttl
  BY DEF Fila
<1>6. pide[i].clave \in Clave
  BY <1>1 DEF EnSuPaso
<1>7. Fila(i) \in Registro
  <2>1. pide[i].cuerpo \in Cuerpo
    BY LosTipos
  <2>2. reloj \in Nat /\ Ttl \in Nat
    BY LosTipos
  <2>3. reloj + Ttl \in Nat
    BY <2>2
  <2> QED BY <1>6, <2>1, <2>3 DEF Fila, Registro
<1>8. TypeOK'
  <2>1. registros' \subseteq Registro
    BY <1>4, <1>7 DEF TypeOK
  <2>2. \A g, h \in registros' : g.clave = h.clave => g = h
    BY <1>4, <1>5, UnaFila
  <2> QED BY <1>1, <2>1, <2>2 DEF TypeOK
<1>9. EnSuPaso'
  BY <1>1, <1>2, <1>6 DEF EnSuPaso, TypeOK
<1>10. RegistroFiel'
  <2> SUFFICES ASSUME NEW g \in registros'
               PROVE  /\ g.de \in efectos /\ hora'[g.de] # 0
                      /\ pide[g.de] = [clave |-> g.clave, cuerpo |-> g.cuerpo]
                      /\ g.vence = hora'[g.de] - 1 + Ttl
    BY <1>1 DEF RegistroFiel
  <2>1. CASE g \in registros
    <3>1. /\ g.de \in efectos /\ hora[g.de] # 0
          /\ pide[g.de] = [clave |-> g.clave, cuerpo |-> g.cuerpo]
          /\ g.vence = hora[g.de] - 1 + Ttl
      BY <2>1 DEF RegistroFiel
    <3>2. g.de \in Intento /\ g.de # i
      BY <1>2, <2>1, <3>1, LosTipos
    <3> QED BY <1>1, <3>1, <3>2
  <2>2. CASE g = Fila(i)
    <3>1. pide[i] = [clave |-> g.clave, cuerpo |-> g.cuerpo]
      BY <1>5, <2>2, LosTipos
    <3>2. g.vence = hora'[i] - 1 + Ttl
      BY <1>1, <1>2, <1>5, <2>2, LosTipos
    <3> QED BY <1>1, <1>2, <1>5, <2>2, <3>1, <3>2
  <2> QED BY <1>4, <2>1, <2>2
<1>11. SalvadaOVencida'
  <2> SUFFICES ASSUME NEW j \in Intento, hora'[j] # 0
               PROVE  \/ \E g \in registros' : g.clave = pide[j].clave
                      \/ \E h \in efectos : pide[h].clave = pide[j].clave
                                            /\ Expirada(h, reloj)'
    BY <1>1 DEF SalvadaOVencida
  <2>1. \E g \in registros' : g.clave = pide[i].clave
    BY <1>4, <1>5 DEF Vivos
  <2>2. CASE pide[j].clave = pide[i].clave
    BY <2>1, <2>2
  <2>3. CASE pide[j].clave # pide[i].clave
    <3>1. hora[j] # 0
      BY <1>1, <2>3
    <3>2. \A g \in registros : g.clave = pide[j].clave => g \in registros'
      BY <1>4, <2>3
    <3>3. ASSUME NEW h \in efectos, Expirada(h, reloj)
          PROVE  Expirada(h, reloj)'
      <4>1. h \in Intento /\ h # i
        BY <1>2, <3>3 DEF Expirada, TypeOK
      <4> QED BY <1>1, <3>3, <4>1 DEF Expirada
    <3> QED BY <3>1, <3>2, <3>3 DEF SalvadaOVencida
  <2> QED BY <2>2, <2>3
<1>12. CausaPrevia'
  <2> SUFFICES ASSUME NEW j \in Intento, pc'[j] \in {"handler", "guardar"},
                      asentados'[j] # {}
               PROVE  ConCausa(j)'
    BY DEF CausaPrevia
  <2> QED BY <1>1, <1>3, SigueCausa
<1> QED BY <1>1, <1>3, <1>8, <1>9, <1>10, <1>11, <1>12, SigueRepeticion,
           SigueEjecuta

LEMMA Inductiva == IInv /\ [Next]_vars => IInv'
<1> SUFFICES ASSUME IInv, [Next]_vars PROVE IInv'
  OBVIOUS
<1>1. CASE UNCHANGED vars
  BY <1>1 DEF vars, IInv, TypeOK, EnSuPaso, RegistroFiel, SalvadaOVencida,
     CausaPrevia, ConCausa, Expirada, RepeticionFiel, EjecutaOtraVezConCausa
<1>2. ASSUME NEW i \in Intento, Servir(i) PROVE IInv'
  BY <1>2, HandleFija, TryReplayFija, GetFallaFija, HandlerExitoFija,
     HandlerErrorFija, SaveFija, SaveFallaFija DEF Servir
<1> QED BY <1>1, <1>2, RelojFija, ReinicioFija DEF Next

-----------------------------------------------------------------------------
(* The theorems *)

\* The inductive invariant: how far each POST is, what a row is made of, and
\* the reason of every second execution, before it happens.
THEOREM Invariante == Spec => []IInv
<1>1. Init => IInv
  BY Inicial
<1> QED BY <1>1, Inductiva, PTL DEF Spec

\* tryReplay gives back the success of a POST with the same key and body.
THEOREM RepiteFielmente == Spec => []RepeticionFiel
<1>1. IInv => RepeticionFiel
  BY DEF IInv
<1> QED BY <1>1, Invariante, PTL

\* A key served and saved is executed again only after a failed Get or with a
\* success of the key at least Ttl old.
THEOREM SegundaConCausa == Spec => []EjecutaOtraVezConCausa
<1>1. IInv => EjecutaOtraVezConCausa
  BY DEF IInv
<1> QED BY <1>1, Invariante, PTL

\* Save and the janitor leave every live row as it is.
THEOREM PrimeroGana == Spec => RespuestaEstable
<1>1. IInv /\ [Next]_vars => [\A g \in registros : g.vence > reloj => g \in registros']_vars
  <2> SUFFICES ASSUME IInv, Next, NEW g \in registros, g.vence > reloj
               PROVE  g \in registros'
    BY DEF vars
  <2>1. ASSUME NEW i \in Intento, Save(i) PROVE g \in registros'
    <3>1. CASE g.clave = pide[i].clave
      <4>1. g \in Vivos(pide[i].clave)
        BY <3>1 DEF Vivos
      <4> QED BY <2>1, <4>1 DEF Save
    <3>2. CASE g.clave # pide[i].clave
      BY <2>1, <3>2 DEF Save
    <3> QED BY <3>1, <3>2
  <2>2. ASSUME NEW i \in Intento, Servir(i) PROVE g \in registros'
    BY <2>1, <2>2 DEF Servir, Handle, TryReplay, GetFalla, HandlerExito,
       HandlerError, SaveFalla
  <2>3. CASE PurgeExpired \/ Tic \/ Reinicio
    BY <2>3 DEF PurgeExpired, Tic, Reinicio
  <2> QED BY <2>2, <2>3 DEF Next
<1> QED BY <1>1, Invariante, PTL DEF Spec, RespuestaEstable
=============================================================================
