-------------------------- MODULE Plataforma_proofs --------------------------
(***************************************************************************)
(* What the platform promises.  The custody of failed requests, for any    *)
(* number of keys, captures and replays: the body of a row is on disk, a   *)
(* row closes for a reason and stays closed, and what was confirmed to a   *)
(* phone is in custody until a retention takes it.  The outbox and the     *)
(* index it feeds, for any ventas, batch, attempts and failures: no venta  *)
(* is left out of date with nothing that says so.                          *)
(***************************************************************************)
EXTENDS IntentosFallidos, OutboxVentas, FiniteSetTheorems, WellFoundedInduction, TLAPS

USE IntentosAssumption

-----------------------------------------------------------------------------
(* The values *)

LEMMA LosCuerpos ==
  /\ NoCuerpo \in Cuerpos /\ NoCuerpo.blob = SinBlob
  /\ \A i \in Ids : \A c \in CuerposDe(i) :
       c \in Cuerpos /\ c.blob \in {SinBlob, i}
<1>1. NoCuerpo \in Cuerpos /\ NoCuerpo.blob = SinBlob
  BY DEF NoCuerpo, EnJson, Cuerpos, SinBlob, Nulo, EnLinea
<1>2. ASSUME NEW i \in Ids, NEW c \in CuerposDe(i)
      PROVE  c \in Cuerpos /\ c.blob \in {SinBlob, i}
  <2>1. c \in {EnBlob(i, TRUE), EnBlob(i, FALSE), EnJson, Truncado}
    BY <1>2 DEF CuerposDe
  <2>2. ASSUME NEW b \in BOOLEAN
        PROVE  EnBlob(i, b) \in Cuerpos /\ EnBlob(i, b).blob = i
    BY <1>2 DEF EnBlob, Cuerpos, Nulo
  <2>3. EnJson \in Cuerpos /\ EnJson.blob = SinBlob
    BY DEF EnJson, Cuerpos, EnLinea
  <2>4. Truncado \in Cuerpos /\ Truncado.blob = SinBlob
    BY DEF Truncado, Cuerpos, Nulo
  <2> QED BY <2>1, <2>2, <2>3, <2>4
<1> QED BY <1>1, <1>2

LEMMA LasOciosas ==
  \A fase \in {"libre", "exito", "respondida", "guardando", "limpiando", "fin"} :
    /\ Ociosa(fase) \in Captura
    /\ Ociosa(fase).fase = fase /\ Ociosa(fase).prev = 0
    /\ Ociosa(fase).cuerpo.blob = SinBlob
    /\ Ociosa(fase).previo.blob = SinBlob /\ Ociosa(fase).sobra = SinBlob
BY LosCuerpos DEF Ociosa, Captura, Respuestas

LEMMA LosNumeros ==
  /\ MaxIntentos \in Nat /\ 0 \notin Ids /\ SinBlob = 0
  /\ \A i \in Ids : i \in Nat /\ i > 0 /\ i \in Trabajos
  /\ \A n \in Nat : n > 0 /\ n <= MaxIntentos => n \in Ids
BY DEF IntentosAssumption, Ids, SinBlob, Trabajos

LEMMA LosTipos ==
  ASSUME TypeOK
  PROVE  /\ sig \in Nat /\ sig > 0
         /\ \A f \in Ids : /\ filas[f] \in Fila /\ filas[f].cuerpo \in Cuerpos
                           /\ filas[f].cuerpo.blob \in {SinBlob} \cup Ids
                           /\ filas[f].estado \in Estados
         /\ \A i \in Ids : /\ capturas[i] \in Captura
                           /\ capturas[i].cuerpo \in Cuerpos
                           /\ capturas[i].previo \in Cuerpos
                           /\ capturas[i].previo.blob \in {SinBlob} \cup Ids
                           /\ capturas[i].sobra \in {SinBlob} \cup Ids
                           /\ capturas[i].prev \in {0} \cup Ids
         /\ \A r \in Reproducciones : reps[r] \in Rep
BY LosNumeros DEF TypeOK, Fila, Cuerpos, Captura

-----------------------------------------------------------------------------
(* A capture begins *)

LEMMA RespondeFija ==
  ASSUME IInv, NEW k \in Trabajos, NEW resp \in Respuestas,
         NEW c, NEW l \in BOOLEAN, Responde(k, resp, c, l)
  PROVE  IInv'
<1>1. sig \in Ids /\ capturas[sig].fase = "libre" /\ sig \in PorEscribir
  BY LosNumeros, LosTipos DEF IInv, Responde, SinEmpezar, PorEscribir
<1>2. PICK x \in Captura :
        /\ capturas' = [capturas EXCEPT ![sig] = x]
        /\ x.fase \in {"respondida", "exito", "fin"}
        /\ x.prev = 0 /\ x.previo.blob = SinBlob /\ x.sobra = SinBlob
        /\ x.fase = "respondida" =>
             x.cuerpo.blob \in {SinBlob, sig} /\ x.cuerpo.blob \in {SinBlob} \cup discos'
        /\ x.fase = "exito" => x.clave \in hechos'
  <2>1. CASE Persiste(resp)
    <3>1. c \in Cuerpos /\ c.blob \in {SinBlob, sig}
      BY <1>1, <2>1, LosCuerpos DEF Responde
    <3> DEFINE x == [Ociosa("respondida") EXCEPT
                       !.clave = k, !.resp = resp, !.cuerpo = c]
    <3>2. /\ x \in Captura /\ x.fase = "respondida" /\ x.cuerpo = c
          /\ x.prev = 0 /\ x.previo.blob = SinBlob /\ x.sobra = SinBlob
      BY <3>1, LasOciosas DEF Captura
    <3>3. capturas' = [capturas EXCEPT ![sig] = x] /\ c.blob \in {SinBlob} \cup discos'
      BY <2>1 DEF Responde
    <3> QED BY <3>1, <3>2, <3>3
  <2>2. CASE ~Persiste(resp)
    <3> DEFINE x == IF resp = "ok" THEN [Ociosa("exito") EXCEPT !.clave = k]
                    ELSE Ociosa("fin")
    <3>1. /\ x \in Captura /\ x.fase \in {"exito", "fin"}
          /\ x.prev = 0 /\ x.previo.blob = SinBlob /\ x.sobra = SinBlob
          /\ x.fase = "exito" => x.clave = k /\ resp = "ok"
      BY LasOciosas DEF Captura
    <3>2. /\ capturas' = [capturas EXCEPT ![sig] = x]
          /\ resp = "ok" => k \in hechos'
      BY <2>2 DEF Responde
    <3> QED BY <3>1, <3>2
  <2> QED BY <2>1, <2>2
<1>3. /\ UNCHANGED <<tabla, filas, reps, janitor>>
      /\ sig' = sig + 1 /\ discos \subseteq discos' /\ hechos \subseteq hechos'
      /\ discos' \subseteq Ids /\ hechos' \subseteq {0} \cup Trabajos
  <2>1. Persiste(resp) => c \in Cuerpos /\ c.blob \in {SinBlob, sig}
    BY <1>1, LosCuerpos DEF Responde
  <2> QED BY <1>1, <2>1 DEF Responde, IInv, TypeOK
<1>4. /\ capturas'[sig] = x
      /\ \A j \in Ids : j # sig => capturas'[j] = capturas[j]
      /\ capturas' \in [Ids -> Captura]
  BY <1>1, <1>2 DEF IInv, TypeOK
<1>5. PorEscribir' \subseteq PorEscribir
  BY <1>1, <1>4 DEF PorEscribir
<1>6. TypeOK'
  BY <1>1, <1>3, <1>4, LosNumeros DEF IInv, TypeOK, Ids
<1>7. FilaConBlob' /\ CierreConCausa'
  BY <1>3 DEF IInv, FilaConBlob, CierreConCausa
<1>8. SinEmpezar'
  BY <1>1, <1>3, <1>4, LosNumeros, LosTipos DEF IInv, SinEmpezar
<1>9. CuerpoEnMano'
  BY <1>1, <1>2, <1>3, <1>4 DEF IInv, CuerpoEnMano
<1>10. SinNombrar'
  <2> SUFFICES ASSUME NEW i \in PorEscribir' PROVE
        /\ i \notin tabla' /\ i \notin janitor'.rutas
        /\ \A f \in tabla' : filas'[f].cuerpo.blob # i
        /\ \A j \in Ids : /\ capturas'[j].prev # i
                          /\ capturas'[j].previo.blob # i
                          /\ capturas'[j].sobra # i
        /\ \A r \in Reproducciones : reps'[r].fila # i
    BY DEF SinNombrar
  <2>1. i \in PorEscribir /\ i # 0
    BY <1>5, LosNumeros DEF PorEscribir
  <2> QED BY <1>2, <1>3, <1>4, <2>1, LosNumeros DEF IInv, SinNombrar
<1>11. BlobsAparte'
  BY <1>1, <1>2, <1>3, <1>4, LosNumeros DEF IInv, BlobsAparte, Purgables
<1>12. FundeLoSuyo'
  BY <1>1, <1>2, <1>3, <1>4, LosNumeros DEF IInv, FundeLoSuyo, TypeOK
<1>13. CierraLoHecho'
  BY <1>1, <1>2, <1>3, <1>4 DEF IInv, CierraLoHecho
<1> QED BY <1>6, <1>7, <1>8, <1>9, <1>10, <1>11, <1>12, <1>13 DEF IInv

-----------------------------------------------------------------------------
(* The steps that name no blob anew *)

LEMMA NadaNuevo ==
  ASSUME IInv, TypeOK', CierreConCausa', CierraLoHecho',
         UNCHANGED <<sig, tabla, discos>>,
         \A f \in tabla :
           /\ filas'[f].cuerpo = filas[f].cuerpo /\ filas'[f].clave = filas[f].clave
           /\ filas[f].estado \in EstadosResueltos
                => filas'[f].estado \in EstadosResueltos,
         \A i \in Ids : \/ capturas'[i] = capturas[i]
                        \/ capturas'[i] = Ociosa("fin") /\ capturas[i].fase # "libre",
         \A r \in Reproducciones : reps'[r].fila \in {0, reps[r].fila},
         janitor'.rutas \subseteq janitor.rutas,
         janitor'.fase = "borra" => janitor' = janitor
  PROVE  IInv'
<1>1. FilaConBlob'
  BY DEF IInv, FilaConBlob
<1>2. SinEmpezar'
  BY DEF IInv, SinEmpezar
<1>3. CuerpoEnMano'
  BY LasOciosas DEF IInv, CuerpoEnMano
<1>4. SinNombrar'
  <2> SUFFICES ASSUME NEW i \in PorEscribir' PROVE
        /\ i \notin tabla' /\ i \notin janitor'.rutas
        /\ \A f \in tabla' : filas'[f].cuerpo.blob # i
        /\ \A j \in Ids : /\ capturas'[j].prev # i
                          /\ capturas'[j].previo.blob # i
                          /\ capturas'[j].sobra # i
        /\ \A r \in Reproducciones : reps'[r].fila # i
    BY DEF SinNombrar
  <2>1. i \in PorEscribir /\ i # 0
    BY LasOciosas, LosNumeros DEF PorEscribir
  <2> QED BY <2>1, LasOciosas, LosNumeros DEF IInv, SinNombrar
<1>5. BlobsAparte'
  <2> SUFFICES ASSUME NEW f \in tabla, filas[f].cuerpo.blob # SinBlob PROVE
        /\ \A g \in tabla : filas'[g].cuerpo.blob = filas'[f].cuerpo.blob => g = f
        /\ \A i \in Ids : /\ capturas'[i].previo.blob = filas'[f].cuerpo.blob
                             => capturas'[i].prev = f
                          /\ capturas'[i].sobra # filas'[f].cuerpo.blob
        /\ janitor'.fase = "borra" /\ filas'[f].cuerpo.blob \in janitor'.rutas
           => f \in Purgables(janitor.corte, janitor.larga)'
    BY DEF BlobsAparte
  <2>1. \A i \in Ids : /\ capturas'[i].previo.blob = filas[f].cuerpo.blob
                             => capturas'[i].prev = f
                       /\ capturas'[i].sobra # filas[f].cuerpo.blob
    BY LasOciosas DEF IInv, BlobsAparte
  <2>2. janitor'.fase = "borra" /\ filas[f].cuerpo.blob \in janitor'.rutas
           => f \in Purgables(janitor.corte, janitor.larga)'
    BY DEF IInv, BlobsAparte, Purgables
  <2> QED BY <2>1, <2>2 DEF IInv, BlobsAparte
<1>6. FundeLoSuyo'
  BY LasOciosas, LosNumeros DEF IInv, FundeLoSuyo, TypeOK
<1> QED BY <1>1, <1>2, <1>3, <1>4, <1>5, <1>6 DEF IInv

\* A close by key touches pending rows of those keys and nothing else of them.
LEMMA CierraClavesDice ==
  ASSUME TypeOK, NEW S, CierraClaves(S)
  PROVE  /\ filas' \in [Ids -> Fila]
         /\ \A f \in Ids :
              /\ filas'[f].cuerpo = filas[f].cuerpo /\ filas'[f].clave = filas[f].clave
              /\ filas'[f].usuario = filas[f].usuario
              /\ \/ filas'[f] = filas[f]
                 \/ /\ filas[f].estado = "new" /\ filas[f].clave \in S
                    /\ filas'[f].estado = "resolved_manual"
<1> DEFINE w(f) == [filas[f] EXCEPT !.estado = "resolved_manual"]
<1>1. \A f \in Ids : /\ w(f) \in Fila /\ w(f).estado = "resolved_manual"
                     /\ w(f).cuerpo = filas[f].cuerpo /\ w(f).clave = filas[f].clave
                     /\ w(f).usuario = filas[f].usuario
  BY LosTipos DEF Fila, Estados
<1>2. filas' = [f \in Ids |-> IF Pendiente(f) /\ filas[f].clave \in S
                              THEN w(f) ELSE filas[f]]
  BY DEF CierraClaves
<1> HIDE DEF w
<1> QED BY <1>1, <1>2, LosTipos DEF Pendiente

LEMMA CierraPorExitoFija ==
  ASSUME IInv, NEW i \in Ids, CierraPorExito(i)
  PROVE  IInv'
<1>1. /\ capturas[i].fase = "exito" /\ capturas[i].clave \in hechos
      /\ UNCHANGED <<sig, tabla, discos, hechos, reps, janitor>>
  BY DEF IInv, CierraPorExito, CierraLoHecho
<1>2. /\ capturas' \in [Ids -> Captura] /\ capturas'[i] = Ociosa("fin")
      /\ \A j \in Ids : j # i => capturas'[j] = capturas[j]
  BY LasOciosas DEF IInv, TypeOK, CierraPorExito
<1>3. /\ filas' \in [Ids -> Fila]
      /\ \A f \in Ids :
           /\ filas'[f].cuerpo = filas[f].cuerpo /\ filas'[f].clave = filas[f].clave
           /\ \/ filas'[f] = filas[f]
              \/ /\ filas[f].estado = "new" /\ filas[f].clave \in hechos
                 /\ filas'[f].estado = "resolved_manual"
  BY <1>1, CierraClavesDice DEF IInv, TypeOK, CierraPorExito
<1>4. TypeOK' /\ tabla \subseteq Ids
  BY <1>1, <1>2, <1>3 DEF IInv, TypeOK
<1>5. CierreConCausa'
  BY <1>1, <1>3, <1>4 DEF IInv, CierreConCausa
<1>6. CierraLoHecho'
  BY <1>1, <1>2, <1>3, <1>4, LasOciosas DEF IInv, CierraLoHecho
<1> QED BY <1>1, <1>2, <1>3, <1>4, <1>5, <1>6, NadaNuevo DEF EstadosResueltos

LEMMA ConciliaFija ==
  ASSUME IInv, Concilia
  PROVE  IInv'
<1>1. /\ UNCHANGED <<sig, tabla, discos, capturas, hechos, reps>>
      /\ janitor' = [janitor EXCEPT !.fase = "purga"]
  BY DEF Concilia
<1>2. /\ janitor' \in Janitor /\ janitor'.fase = "purga"
      /\ janitor'.rutas = janitor.rutas
  BY <1>1 DEF IInv, TypeOK, Janitor
<1>3. PICK S \in SUBSET hechos : CierraClaves(S)
  BY DEF Concilia
<1>4. /\ filas' \in [Ids -> Fila]
      /\ \A f \in Ids :
           /\ filas'[f].cuerpo = filas[f].cuerpo /\ filas'[f].clave = filas[f].clave
           /\ \/ filas'[f] = filas[f]
              \/ /\ filas[f].estado = "new" /\ filas[f].clave \in hechos
                 /\ filas'[f].estado = "resolved_manual"
  BY <1>3, CierraClavesDice DEF IInv
<1>5. TypeOK' /\ tabla \subseteq Ids
  BY <1>1, <1>2, <1>4 DEF IInv, TypeOK
<1>6. CierreConCausa'
  BY <1>1, <1>4, <1>5 DEF IInv, CierreConCausa
<1>7. CierraLoHecho'
  BY <1>1, <1>4, <1>5 DEF IInv, CierraLoHecho
<1> QED BY <1>1, <1>2, <1>4, <1>5, <1>6, <1>7, NadaNuevo DEF EstadosResueltos

LEMMA ResuelveFija ==
  ASSUME IInv, NEW f \in tabla, NEW t, Resuelve(f, t)
  PROVE  IInv'
<1>1. /\ UNCHANGED <<sig, tabla, discos, capturas, hechos, reps, janitor>>
      /\ f \in Ids /\ filas[f].estado = "new" /\ t \in {"ignored", "resolved_manual"}
      /\ filas' = [filas EXCEPT ![f] = [@ EXCEPT !.estado = t, !.persona = TRUE]]
  BY DEF IInv, TypeOK, Resuelve, Pendiente
<1> DEFINE w == [filas[f] EXCEPT !.estado = t, !.persona = TRUE]
<1>2. /\ w \in Fila /\ w.cuerpo = filas[f].cuerpo /\ w.clave = filas[f].clave
      /\ w.persona /\ w.estado = t
  <2>1. filas[f] \in Fila /\ t \in Estados
    BY <1>1, LosTipos DEF IInv, Estados
  <2> QED BY <2>1 DEF Fila
<1>3. filas' = [filas EXCEPT ![f] = w]
  BY <1>1
<1> HIDE DEF w
<1>4. /\ filas' \in [Ids -> Fila] /\ filas'[f] = w
      /\ \A g \in Ids : g # f => filas'[g] = filas[g]
  BY <1>1, <1>2, <1>3 DEF IInv, TypeOK
<1>5. TypeOK' /\ tabla \subseteq Ids
  BY <1>1, <1>4 DEF IInv, TypeOK
<1>6. CierreConCausa'
  BY <1>1, <1>2, <1>4, <1>5 DEF IInv, CierreConCausa
<1>7. CierraLoHecho'
  BY <1>1, <1>2, <1>4, <1>5 DEF IInv, CierraLoHecho
<1> QED BY <1>1, <1>2, <1>4, <1>5, <1>6, <1>7, NadaNuevo DEF EstadosResueltos

LEMMA AnotaFija ==
  ASSUME IInv, NEW r \in Reproducciones, Anota(r)
  PROVE  IInv'
<1>1. /\ reps[r].fase = "despachada" /\ reps[r] \in Rep
      /\ UNCHANGED <<sig, tabla, discos, capturas, hechos, janitor>>
      /\ reps' = [reps EXCEPT ![r] = RepLibre]
  BY LosTipos DEF IInv, Anota
<1>2. /\ RepLibre \in Rep /\ RepLibre.fila = 0 /\ RepLibre.fase = "libre"
  BY DEF RepLibre, Rep, Estados, SinBlob
<1>3. /\ reps' \in [Reproducciones -> Rep] /\ reps'[r] = RepLibre
      /\ \A q \in Reproducciones : q # r => reps'[q] = reps[q]
  BY <1>1, <1>2 DEF IInv, TypeOK
<1>4. /\ filas' \in [Ids -> Fila]
      /\ \A f \in Ids :
           /\ filas'[f].cuerpo = filas[f].cuerpo /\ filas'[f].clave = filas[f].clave
           /\ filas'[f].usuario = filas[f].usuario
           /\ \/ filas'[f] = filas[f]
              \/ /\ f \in tabla /\ filas[f].clave \in hechos
                 /\ filas'[f] = [filas[f] EXCEPT !.estado = "retried_ok"]
              \/ filas[f].estado = "new" /\ filas'[f].estado = "retried_fail"
  <2> DEFINE g == reps[r].fila
             e == IF reps[r].bien THEN "retried_ok" ELSE "retried_fail"
  <2>1. CASE g \in tabla /\ filas[g].estado = reps[r].estado
    <3>1. g \in Ids /\ filas[g] \in Fila /\ e \in Estados
      BY <2>1, LosTipos DEF IInv, TypeOK, Estados
    <3>2. /\ [filas[g] EXCEPT !.estado = e] \in Fila
          /\ [filas[g] EXCEPT !.estado = e].cuerpo = filas[g].cuerpo
          /\ [filas[g] EXCEPT !.estado = e].clave = filas[g].clave
          /\ [filas[g] EXCEPT !.estado = e].usuario = filas[g].usuario
          /\ [filas[g] EXCEPT !.estado = e].estado = e
      BY <3>1 DEF Fila
    <3>3. filas' = [filas EXCEPT ![g] = [filas[g] EXCEPT !.estado = e]]
      BY <2>1 DEF Anota
    <3>4. reps[r].bien => filas[g].clave \in hechos
      BY <1>1, <2>1 DEF IInv, CierraLoHecho
    <3>5. ~reps[r].bien => filas[g].estado = "new"
      BY <1>1, <2>1 DEF IInv, CierraLoHecho
    <3>6. /\ filas' \in [Ids -> Fila]
          /\ \A f \in Ids : f # g => filas'[f] = filas[f]
          /\ filas'[g] = [filas[g] EXCEPT !.estado = e]
      BY <3>1, <3>2, <3>3 DEF IInv, TypeOK
    <3>7. CASE reps[r].bien
      BY <2>1, <3>2, <3>4, <3>6, <3>7
    <3>8. CASE ~reps[r].bien
      BY <2>1, <3>2, <3>5, <3>6, <3>8
    <3> QED BY <3>7, <3>8
  <2>2. CASE ~(g \in tabla /\ filas[g].estado = reps[r].estado)
    BY <2>2 DEF Anota, IInv, TypeOK
  <2> QED BY <2>1, <2>2
<1>5. TypeOK' /\ tabla \subseteq Ids
  BY <1>1, <1>3, <1>4 DEF IInv, TypeOK
<1>6. \A f \in tabla : filas'[f] = [filas[f] EXCEPT !.estado = "retried_ok"]
                         => filas'[f].estado = "retried_ok"
  BY <1>5, LosTipos DEF IInv, Fila
<1>7. CierreConCausa'
  BY <1>1, <1>4, <1>5 DEF IInv, CierreConCausa
<1>8. CierraLoHecho'
  BY <1>1, <1>2, <1>3, <1>4, <1>5 DEF IInv, CierraLoHecho
<1>9. \A f \in tabla : filas[f].estado \in EstadosResueltos
                         => filas'[f].estado \in EstadosResueltos
  BY <1>4, <1>5, <1>6 DEF EstadosResueltos
<1> QED BY <1>1, <1>2, <1>3, <1>4, <1>5, <1>7, <1>8, <1>9, NadaNuevo

LEMMA SinCuerpoFija ==
  ASSUME IInv, NEW r \in Reproducciones, SinCuerpo(r)
  PROVE  IInv'
<1>1. /\ UNCHANGED <<sig, tabla, filas, discos, capturas, hechos, janitor>>
      /\ reps' = [reps EXCEPT ![r] = RepLibre]
  BY DEF SinCuerpo
<1>2. /\ RepLibre \in Rep /\ RepLibre.fila = 0 /\ RepLibre.fase = "libre"
  BY DEF RepLibre, Rep, Estados, SinBlob
<1>3. /\ reps' \in [Reproducciones -> Rep] /\ reps'[r] = RepLibre
      /\ \A q \in Reproducciones : q # r => reps'[q] = reps[q]
  BY <1>1, <1>2 DEF IInv, TypeOK
<1>4. TypeOK' /\ CierreConCausa'
  BY <1>1, <1>3 DEF IInv, TypeOK, CierreConCausa
<1>5. CierraLoHecho'
  BY <1>1, <1>2, <1>3, LosNumeros DEF IInv, CierraLoHecho, TypeOK
<1> QED BY <1>1, <1>2, <1>3, <1>4, <1>5, NadaNuevo

LEMMA DespachaFija ==
  ASSUME IInv, NEW r \in Reproducciones, NEW b \in BOOLEAN, NEW l \in BOOLEAN,
         Despacha(r, b, l)
  PROVE  IInv'
<1>1. /\ UNCHANGED <<sig, tabla, filas, discos, capturas, janitor>>
      /\ reps[r] \in Rep /\ reps[r].fase = "leida"
  BY LosTipos DEF IInv, Despacha
<1>2. /\ RepLibre \in Rep /\ RepLibre.fila = 0 /\ RepLibre.fase = "libre"
  BY DEF RepLibre, Rep, Estados, SinBlob
<1>3. /\ hechos \subseteq hechos' /\ hechos' \subseteq {0} \cup Trabajos
      /\ b => reps[r].trabajo \in hechos'
  <2>1. reps[r].trabajo \in {0} \cup Trabajos
    BY <1>1 DEF Rep
  <2> QED BY <2>1 DEF IInv, TypeOK, Despacha
<1>4. PICK q \in Rep :
        /\ reps' = [reps EXCEPT ![r] = q]
        /\ q.fase \in {"libre", "despachada"}
        /\ q.fila \in {0, reps[r].fila}
        /\ q.fase = "despachada" =>
             q.bien = b /\ q.estado = reps[r].estado /\ (b \/ q.estado = "new")
  <2> DEFINE q == [reps[r] EXCEPT !.fase = "despachada", !.bien = b,
                                  !.trabajo = 0, !.blob = SinBlob]
  <2>1. /\ q \in Rep /\ q.fase = "despachada" /\ q.fila = reps[r].fila
        /\ q.bien = b /\ q.estado = reps[r].estado
    BY <1>1 DEF Rep
  <2>2. reps' = [reps EXCEPT ![r] = IF b \/ reps[r].estado = "new" THEN q ELSE RepLibre]
    BY DEF Despacha
  <2> HIDE DEF q
  <2> QED BY <1>2, <2>1, <2>2
<1>5. /\ reps' \in [Reproducciones -> Rep] /\ reps'[r] = q
      /\ \A p \in Reproducciones : p # r => reps'[p] = reps[p]
  BY <1>4 DEF IInv, TypeOK
<1>6. TypeOK' /\ CierreConCausa' /\ tabla \subseteq Ids
  BY <1>1, <1>3, <1>5 DEF IInv, TypeOK, CierreConCausa
<1>7. CierraLoHecho'
  <2>1. \A f \in tabla :
          q.fila = f /\ q.fase = "despachada" /\ q.bien => filas[f].clave \in hechos'
    BY <1>1, <1>3, <1>4, <1>6, LosNumeros DEF IInv, CierraLoHecho
  <2> QED BY <1>1, <1>3, <1>4, <1>5, <2>1 DEF IInv, CierraLoHecho
<1> QED BY <1>1, <1>4, <1>5, <1>6, <1>7, NadaNuevo

LEMMA JanitorQuietoFija ==
  ASSUME IInv, ConciliaFalla \/ NadaQuePurgar \/ PurgaFalla
  PROVE  IInv'
<1>1. UNCHANGED <<sig, tabla, filas, discos, capturas, hechos, reps>>
  BY DEF ConciliaFalla, NadaQuePurgar, PurgaFalla
<1>2. /\ janitor' \in Janitor /\ janitor'.fase # "borra"
      /\ janitor'.rutas \subseteq janitor.rutas
  <2>1. janitor \in Janitor
    BY DEF IInv, TypeOK
  <2>2. /\ EnReposo \in Janitor /\ EnReposo.fase = "concilia"
        /\ EnReposo.rutas = {}
    BY DEF EnReposo, Janitor
  <2>3. /\ TrasElCorte \in Janitor /\ TrasElCorte.fase # "borra"
        /\ TrasElCorte.rutas = {}
    BY <2>2 DEF TrasElCorte, Janitor
  <2>4. CASE ConciliaFalla
    BY <2>1, <2>4 DEF ConciliaFalla, Janitor
  <2>5. CASE NadaQuePurgar \/ PurgaFalla
    BY <2>3, <2>5 DEF NadaQuePurgar, PurgaFalla
  <2> QED BY <2>4, <2>5
<1>3. TypeOK' /\ CierreConCausa' /\ CierraLoHecho'
  BY <1>1, <1>2 DEF IInv, TypeOK, CierreConCausa, CierraLoHecho
<1> QED BY <1>1, <1>2, <1>3, NadaNuevo

-----------------------------------------------------------------------------
(* The steps that name a row or a blob *)

LEMMA BuscaFija ==
  ASSUME IInv, NEW i \in Ids, Busca(i)
  PROVE  IInv'
<1>1. /\ UNCHANGED <<sig, tabla, filas, discos, hechos, reps, janitor>>
      /\ capturas[i].fase = "respondida" /\ capturas[i] \in Captura
      /\ tabla \subseteq Ids
  BY LosTipos DEF IInv, TypeOK, Busca
<1>2. PICK x \in Captura :
        /\ capturas' = [capturas EXCEPT ![i] = x]
        /\ x.fase = "guardando" /\ x.clave = capturas[i].clave
        /\ x.cuerpo = capturas[i].cuerpo /\ x.sobra = capturas[i].sobra
        /\ \/ x.prev = capturas[i].prev /\ x.previo = capturas[i].previo
           \/ /\ x.prev \in tabla /\ filas[x.prev].clave = x.clave
              /\ x.previo = filas[x.prev].cuerpo
  <2> DEFINE S == PendientesDe(capturas[i].clave)
  <2>1. CASE S = {}
    <3> DEFINE x == [capturas[i] EXCEPT !.fase = "guardando"]
    <3>1. /\ x \in Captura
          /\ x.fase = "guardando" /\ x.clave = capturas[i].clave
          /\ x.cuerpo = capturas[i].cuerpo /\ x.sobra = capturas[i].sobra
          /\ x.prev = capturas[i].prev /\ x.previo = capturas[i].previo
      BY <1>1 DEF Captura
    <3>2. capturas' = [capturas EXCEPT ![i] = x]
      BY <2>1 DEF Busca
    <3> QED BY <3>1, <3>2
  <2>2. CASE S # {}
    <3>1. PICK p \in S :
            capturas' = [capturas EXCEPT ![i] =
                          [capturas[i] EXCEPT !.fase = "guardando", !.prev = p,
                                              !.previo = filas[p].cuerpo]]
      BY <2>2 DEF Busca
    <3>3. p \in tabla /\ filas[p].clave = capturas[i].clave /\ p \in Ids
      BY <1>1 DEF PendientesDe
    <3> DEFINE x == [capturas[i] EXCEPT !.fase = "guardando", !.prev = p,
                                        !.previo = filas[p].cuerpo]
    <3>4. /\ x \in Captura
          /\ x.fase = "guardando" /\ x.clave = capturas[i].clave
          /\ x.cuerpo = capturas[i].cuerpo /\ x.sobra = capturas[i].sobra
          /\ x.prev = p /\ x.previo = filas[p].cuerpo
      BY <1>1, <3>3, LosTipos DEF IInv, Captura
    <3> QED BY <3>1, <3>3, <3>4
  <2> QED BY <2>1, <2>2
<1>3. /\ capturas'[i] = x
      /\ \A j \in Ids : j # i => capturas'[j] = capturas[j]
      /\ capturas' \in [Ids -> Captura]
  BY <1>2 DEF IInv, TypeOK
<1>4. PorEscribir' = PorEscribir /\ i \in PorEscribir
  BY <1>1, <1>2, <1>3 DEF PorEscribir
<1>5. TypeOK' /\ FilaConBlob' /\ CierreConCausa'
  BY <1>1, <1>3 DEF IInv, TypeOK, FilaConBlob, CierreConCausa
<1>6. SinEmpezar' /\ CuerpoEnMano'
  BY <1>1, <1>2, <1>3 DEF IInv, SinEmpezar, CuerpoEnMano
<1>7. SinNombrar'
  BY <1>1, <1>2, <1>3, <1>4 DEF IInv, SinNombrar
<1>8. BlobsAparte'
  BY <1>1, <1>2, <1>3 DEF IInv, BlobsAparte, Purgables
<1>9. FundeLoSuyo'
  BY <1>1, <1>2, <1>3 DEF IInv, FundeLoSuyo
<1>10. CierraLoHecho'
  BY <1>1, <1>2, <1>3 DEF IInv, CierraLoHecho
<1> QED BY <1>5, <1>6, <1>7, <1>8, <1>9, <1>10 DEF IInv

LEMMA LimpiaFija ==
  ASSUME IInv, NEW i \in Ids, Limpia(i)
  PROVE  IInv'
<1>1. /\ UNCHANGED <<sig, tabla, filas, hechos, reps, janitor>>
      /\ capturas[i].fase = "limpiando"
      /\ discos' = discos \ {capturas[i].sobra}
  BY DEF Limpia
<1>2. /\ capturas'[i] = Ociosa("fin")
      /\ \A j \in Ids : j # i => capturas'[j] = capturas[j]
      /\ capturas' \in [Ids -> Captura]
  BY LasOciosas DEF IInv, TypeOK, Limpia
<1>3. PorEscribir' = PorEscribir
  BY <1>1, <1>2, LasOciosas DEF PorEscribir
<1>4. TypeOK' /\ CierreConCausa' /\ CierraLoHecho'
  BY <1>1, <1>2, LasOciosas DEF IInv, TypeOK, CierreConCausa, CierraLoHecho
<1>5. FilaConBlob'
  BY <1>1 DEF IInv, FilaConBlob, BlobsAparte
<1>6. SinEmpezar'
  BY <1>1, <1>2 DEF IInv, SinEmpezar
<1>7. CuerpoEnMano'
  <2> SUFFICES ASSUME NEW j \in Ids, capturas'[j].fase \in {"respondida", "guardando"}
               PROVE  capturas'[j].cuerpo.blob \in {SinBlob} \cup ({j} \cap discos')
    BY DEF CuerpoEnMano
  <2>1. j # i /\ capturas'[j] = capturas[j]
    BY <1>2, LasOciosas
  <2>2. j \in PorEscribir
    BY <2>1 DEF PorEscribir
  <2> QED BY <1>1, <2>1, <2>2 DEF IInv, CuerpoEnMano, SinNombrar
<1>8. SinNombrar'
  BY <1>1, <1>2, <1>3, LasOciosas, LosNumeros DEF IInv, SinNombrar, PorEscribir
<1>9. BlobsAparte'
  BY <1>1, <1>2, LasOciosas DEF IInv, BlobsAparte, Purgables
<1>10. FundeLoSuyo'
  BY <1>1, <1>2, LasOciosas, LosNumeros DEF IInv, FundeLoSuyo, TypeOK
<1> QED BY <1>4, <1>5, <1>6, <1>7, <1>8, <1>9, <1>10 DEF IInv

LEMMA LeeFija ==
  ASSUME IInv, NEW r \in Reproducciones, NEW f \in tabla, Lee(r, f)
  PROVE  IInv'
<1>1. /\ UNCHANGED <<sig, tabla, filas, discos, capturas, hechos, janitor>>
      /\ f \in Ids /\ filas[f] \in Fila /\ filas[f].cuerpo.blob \in {SinBlob} \cup Ids
  BY LosTipos DEF IInv, TypeOK, Lee
<1>2. PICK q \in Rep : /\ reps' = [reps EXCEPT ![r] = q]
                       /\ q.fase = "leida" /\ q.fila = f
                       /\ q.trabajo = filas[f].clave
  <2> DEFINE q == [fase |-> "leida", fila |-> f, trabajo |-> filas[f].clave,
                   estado |-> filas[f].estado, blob |-> filas[f].cuerpo.blob,
                   bien |-> FALSE]
  <2>1. filas[f].clave \in {0} \cup Trabajos /\ filas[f].estado \in Estados
    BY <1>1 DEF Fila
  <2>2. q \in Rep
    BY <1>1, <2>1 DEF Rep
  <2> QED BY <2>2 DEF Lee
<1>3. /\ reps' \in [Reproducciones -> Rep] /\ reps'[r] = q
      /\ \A p \in Reproducciones : p # r => reps'[p] = reps[p]
  BY <1>2 DEF IInv, TypeOK
<1>4. /\ TypeOK' /\ FilaConBlob' /\ CierreConCausa' /\ SinEmpezar'
      /\ CuerpoEnMano' /\ FundeLoSuyo'
  BY <1>1, <1>3 DEF IInv, TypeOK, FilaConBlob, CierreConCausa, SinEmpezar,
     CuerpoEnMano, FundeLoSuyo
<1>5. PorEscribir' = PorEscribir /\ BlobsAparte'
  BY <1>1 DEF IInv, PorEscribir, BlobsAparte, Purgables
<1>6. SinNombrar'
  BY <1>1, <1>2, <1>3, <1>5 DEF IInv, SinNombrar
<1>7. CierraLoHecho'
  BY <1>1, <1>2, <1>3 DEF IInv, CierraLoHecho
<1> QED BY <1>4, <1>5, <1>6, <1>7 DEF IInv

LEMMA PurgaLeeFija ==
  ASSUME IInv, NEW c \in tabla, PurgaLee(c)
  PROVE  IInv'
<1>1. UNCHANGED <<sig, tabla, filas, discos, capturas, hechos, reps>>
  BY DEF PurgaLee
<1>2. PICK R \in SUBSET Ids :
        /\ R = {filas[f].cuerpo.blob : f \in Purgables(c, janitor.larga)} \ {SinBlob}
        /\ janitor' = [janitor EXCEPT !.fase = "borra", !.corte = c, !.rutas = R]
  <2>1. {filas[f].cuerpo.blob : f \in Purgables(c, janitor.larga)} \ {SinBlob} \subseteq Ids
    BY LosTipos DEF IInv, TypeOK, Purgables
  <2> QED BY <2>1 DEF PurgaLee
<1>3. /\ janitor' \in Janitor /\ janitor'.fase = "borra"
      /\ janitor'.corte = c /\ janitor'.larga = janitor.larga /\ janitor'.rutas = R
  <2>1. janitor \in Janitor /\ c \in Ids
    BY DEF IInv, TypeOK
  <2> QED BY <1>2, <2>1 DEF Janitor
<1>4. /\ TypeOK' /\ FilaConBlob' /\ CierreConCausa' /\ SinEmpezar'
      /\ CuerpoEnMano' /\ FundeLoSuyo' /\ CierraLoHecho' /\ PorEscribir' = PorEscribir
  BY <1>1, <1>3 DEF IInv, TypeOK, FilaConBlob, CierreConCausa, SinEmpezar,
     CuerpoEnMano, FundeLoSuyo, CierraLoHecho, PorEscribir
<1>5. SinNombrar'
  <2>1. \A i \in PorEscribir : i \notin R
    BY <1>2 DEF IInv, SinNombrar, Purgables
  <2> QED BY <1>1, <1>3, <1>4, <2>1 DEF IInv, SinNombrar
<1>6. BlobsAparte'
  <2>1. \A f \in tabla : filas[f].cuerpo.blob \in R => f \in Purgables(c, janitor.larga)
    BY <1>2 DEF IInv, BlobsAparte, Purgables
  <2>2. \A f \in Purgables(c, janitor.larga) : f \in Purgables(janitor.corte, janitor.larga)'
    BY <1>1, <1>3 DEF Purgables
  <2> QED BY <1>1, <1>3, <2>1, <2>2 DEF IInv, BlobsAparte
<1> QED BY <1>4, <1>5, <1>6 DEF IInv

LEMMA PurgaBorraFija ==
  ASSUME IInv, PurgaBorra
  PROVE  IInv'
<1>1. /\ UNCHANGED <<sig, capturas, hechos, reps>>
      /\ janitor.fase = "borra" /\ tabla \subseteq Ids
  BY DEF IInv, TypeOK, PurgaBorra
<1> DEFINE S == Purgables(janitor.corte, janitor.larga)
<1>2. /\ tabla' = tabla \ S /\ S \subseteq tabla
      /\ \A f \in Ids : filas'[f] = IF f \in S THEN NoFila ELSE filas[f]
      /\ filas' \in [Ids -> Fila]
      /\ discos' \subseteq discos /\ discos \ janitor.rutas \subseteq discos'
  <2>1. NoFila \in Fila
    BY LosCuerpos DEF NoFila, Fila, Estados
  <2> QED BY <2>1, LosTipos DEF IInv, TypeOK, PurgaBorra, Purgables
<1>3. janitor' \in Janitor /\ janitor'.fase # "borra" /\ janitor'.rutas = {}
  BY DEF PurgaBorra, TrasElCorte, EnReposo, Janitor
<1>4. \A f \in tabla' : f \in tabla /\ f \notin S /\ filas'[f] = filas[f]
  BY <1>1, <1>2
<1>5. TypeOK' /\ CierreConCausa' /\ SinEmpezar' /\ FundeLoSuyo' /\ CierraLoHecho'
  BY <1>1, <1>2, <1>3, <1>4 DEF IInv, TypeOK, CierreConCausa, SinEmpezar,
     FundeLoSuyo, CierraLoHecho
<1>6. FilaConBlob'
  <2>1. \A f \in tabla' : filas[f].cuerpo.blob \notin janitor.rutas \/ filas[f].cuerpo.blob = SinBlob
    BY <1>1, <1>4 DEF IInv, BlobsAparte
  <2> QED BY <1>2, <1>4, <2>1 DEF IInv, FilaConBlob
<1>7. CuerpoEnMano'
  <2>1. \A i \in Ids : capturas[i].fase \in {"respondida", "guardando"} => i \notin janitor.rutas
    BY DEF IInv, SinNombrar, PorEscribir
  <2> QED BY <1>1, <1>2, <2>1 DEF IInv, CuerpoEnMano
<1>8. SinNombrar'
  BY <1>1, <1>3, <1>4 DEF IInv, SinNombrar, PorEscribir
<1>9. BlobsAparte'
  BY <1>1, <1>3, <1>4 DEF IInv, BlobsAparte
<1> QED BY <1>5, <1>6, <1>7, <1>8, <1>9 DEF IInv

LEMMA ReiniciaFija ==
  ASSUME IInv, Reinicia
  PROVE  IInv'
<1>1. /\ UNCHANGED <<sig, tabla, filas, hechos>>
      /\ janitor' = EnReposo
      /\ discos' \subseteq discos
      /\ {filas[f].cuerpo.blob : f \in tabla} \cap discos \subseteq discos'
  BY DEF Reinicia
<1>2. /\ capturas' \in [Ids -> Captura]
      /\ \A i \in Ids : capturas'[i].fase \in {"libre", "fin"}
                        /\ (capturas'[i] = capturas[i] \/ capturas'[i] = Ociosa("fin"))
                        /\ (capturas[i].fase = "libre" => capturas'[i].fase = "libre")
  BY LasOciosas DEF IInv, TypeOK, Reinicia, EnVuelo
<1>3. /\ reps' \in [Reproducciones -> Rep]
      /\ \A r \in Reproducciones : reps'[r].fila = 0 /\ reps'[r].fase = "libre"
  <2>1. /\ RepLibre \in Rep /\ RepLibre.fila = 0 /\ RepLibre.fase = "libre"
    BY DEF RepLibre, Rep, Estados, SinBlob
  <2> QED BY <2>1 DEF Reinicia
<1>4. janitor' \in Janitor /\ janitor'.fase # "borra" /\ janitor'.rutas = {}
  BY <1>1 DEF EnReposo, Janitor
<1>5. \A i \in PorEscribir' : i \in PorEscribir /\ i # 0
  BY <1>2, LasOciosas, LosNumeros DEF PorEscribir
<1>6. TypeOK' /\ CierreConCausa' /\ SinEmpezar'
  BY <1>1, <1>2, <1>3, <1>4 DEF IInv, TypeOK, CierreConCausa, SinEmpezar
<1>7. FilaConBlob'
  BY <1>1 DEF IInv, FilaConBlob
<1>8. CuerpoEnMano'
  BY <1>2 DEF CuerpoEnMano
<1>9. SinNombrar'
  <2> SUFFICES ASSUME NEW i \in PorEscribir' PROVE
        /\ i \notin tabla' /\ i \notin janitor'.rutas
        /\ \A f \in tabla' : filas'[f].cuerpo.blob # i
        /\ \A j \in Ids : /\ capturas'[j].prev # i
                          /\ capturas'[j].previo.blob # i
                          /\ capturas'[j].sobra # i
        /\ \A r \in Reproducciones : reps'[r].fila # i
    BY DEF SinNombrar
  <2> QED BY <1>1, <1>2, <1>3, <1>4, <1>5, LasOciosas, LosNumeros DEF IInv, SinNombrar
<1>10. BlobsAparte'
  BY <1>1, <1>2, <1>4, LasOciosas DEF IInv, BlobsAparte
<1>11. FundeLoSuyo'
  BY <1>1, <1>2, LasOciosas, LosNumeros DEF IInv, FundeLoSuyo, TypeOK
<1>12. CierraLoHecho'
  BY <1>1, <1>2, <1>3, LosNumeros DEF IInv, CierraLoHecho, TypeOK
<1> QED BY <1>6, <1>7, <1>8, <1>9, <1>10, <1>11, <1>12 DEF IInv

-----------------------------------------------------------------------------
(* A capture writes its row *)

\* What writing it does to the table: one row t, the capture's own or the one
\* it merges into, and nothing but that row.
Escribe(i, t) ==
  /\ tabla' = tabla \cup {t} /\ filas' \in [Ids -> Fila]
  /\ \A f \in Ids : f # t => filas'[f] = filas[f]
  /\ filas'[t].estado = "new"
  /\ \/ /\ t = i /\ filas'[t].clave = capturas[i].clave
        /\ filas'[t].cuerpo = capturas[i].cuerpo
        /\ filas'[t].usuario = ~Fuera(i)
     \/ /\ t \in tabla /\ t = capturas[i].prev
        /\ filas[t].estado = "new" /\ filas'[t].clave = filas[t].clave
        /\ filas'[t].usuario = (filas[t].usuario \/ ~Fuera(i))
        /\ filas'[t].cuerpo \in {filas[t].cuerpo, capturas[i].cuerpo}

LEMMA EscribeUna ==
  ASSUME IInv, NEW i \in Ids, capturas[i].fase = "guardando", EscribeFila(i)
  PROVE  \E t \in Ids :
           /\ Escribe(i, t)
           /\ Sobra(i) = SinBlob \/
              (t \in tabla /\
                \/ Sobra(i) = capturas[i].previo.blob /\ filas'[t].cuerpo = capturas[i].cuerpo
                \/ Sobra(i) = capturas[i].cuerpo.blob /\ filas'[t].cuerpo = filas[t].cuerpo)
<1>1. capturas[i] \in Captura /\ capturas[i].cuerpo \in Cuerpos
  BY LosTipos DEF IInv
<1>2. capturas[i].clave \in {0} \cup Trabajos
  BY <1>1 DEF Captura
<1>3. CASE SeFunde(i)
  <2>1. PICK t : t = capturas[i].prev
    OBVIOUS
  <2>2. t \in tabla /\ t \in Ids /\ filas[t] \in Fila /\ filas[t].estado = "new"
    BY <1>3, <2>1, LosTipos DEF IInv, TypeOK, SeFunde, Pendiente
  <2>3. PICK w : w = Fundida(i)
    OBVIOUS
  <2>4. w = [filas[t] EXCEPT
               !.cuerpo = IF Sustituye(i) THEN capturas[i].cuerpo ELSE filas[t].cuerpo,
               !.usuario = filas[t].usuario \/ ~Fuera(i)]
    BY <2>1, <2>3 DEF Fundida
  <2>5. /\ w \in Fila /\ w.estado = "new" /\ w.clave = filas[t].clave
        /\ w.cuerpo = IF Sustituye(i) THEN capturas[i].cuerpo ELSE filas[t].cuerpo
        /\ w.usuario = (filas[t].usuario \/ ~Fuera(i))
    <3>1. (IF Sustituye(i) THEN capturas[i].cuerpo ELSE filas[t].cuerpo) \in Cuerpos
      BY <1>1, <2>2 DEF Fila
    <3>2. (filas[t].usuario \/ ~Fuera(i)) \in BOOLEAN
      BY <2>2 DEF Fila
    <3> QED BY <2>2, <2>4, <3>1, <3>2 DEF Fila
  <2>6. filas' = [filas EXCEPT ![t] = w] /\ tabla' = tabla
    BY <1>3, <2>1, <2>3 DEF EscribeFila
  <2>7. /\ filas' \in [Ids -> Fila] /\ filas'[t] = w
        /\ \A f \in Ids : f # t => filas'[f] = filas[f]
    BY <2>2, <2>5, <2>6 DEF IInv, TypeOK
  <2>8. Escribe(i, t)
    BY <2>1, <2>2, <2>5, <2>6, <2>7 DEF Escribe
  <2>9. Sobra(i) = IF Sustituye(i) THEN capturas[i].previo.blob
                   ELSE capturas[i].cuerpo.blob
    BY <1>3 DEF Sobra
  <2> QED BY <2>2, <2>5, <2>7, <2>8, <2>9
<1>4. CASE ~SeFunde(i)
  <2>1. /\ Nueva(i) \in Fila /\ Nueva(i).estado = "new"
        /\ Nueva(i).clave = capturas[i].clave
        /\ Nueva(i).cuerpo = capturas[i].cuerpo /\ Nueva(i).usuario = ~Fuera(i)
    BY <1>1, <1>2 DEF Nueva, Fila, Estados, Fuera
  <2>2. filas' = [filas EXCEPT ![i] = Nueva(i)] /\ tabla' = tabla \cup {i}
    BY <1>4 DEF EscribeFila
  <2>3. /\ filas' \in [Ids -> Fila] /\ filas'[i] = Nueva(i)
        /\ \A f \in Ids : f # i => filas'[f] = filas[f]
    BY <2>1, <2>2 DEF IInv, TypeOK
  <2> QED BY <1>4, <2>1, <2>2, <2>3 DEF Escribe, Sobra
<1> QED BY <1>3, <1>4

\* After it the capture i names at most a blob no row has, and at most one
\* capture, sig, begins.
Suelta(i) ==
  /\ capturas' \in [Ids -> Captura]
  /\ capturas'[i].fase \in {"limpiando", "fin"} /\ capturas'[i].prev = 0
  /\ capturas'[i].previo.blob = SinBlob
  /\ \A j \in Ids : j # i =>
       \/ capturas'[j] = capturas[j]
       \/ /\ j = sig /\ sig' = sig + 1 /\ capturas[j].fase = "libre"
          /\ capturas'[j].fase = "respondida" /\ capturas'[j].prev = 0
          /\ capturas'[j].previo.blob = SinBlob /\ capturas'[j].sobra = SinBlob
          /\ capturas'[j].cuerpo.blob \in {SinBlob} \cup ({j} \cap discos')
  /\ sig' \in {sig, sig + 1} /\ sig' \in 1..(MaxIntentos + 1)
  /\ sig' = sig + 1 => sig \in Ids /\ capturas'[sig].fase # "libre"
  /\ discos \subseteq discos' /\ discos' \subseteq Ids
  /\ UNCHANGED <<hechos, reps, janitor>>

LEMMA EscribeFija ==
  ASSUME IInv, NEW i \in Ids, capturas[i].fase = "guardando", Suelta(i),
         \/ UNCHANGED <<tabla, filas>> /\ capturas'[i].sobra = SinBlob
         \/ EscribeFila(i) /\ capturas'[i].sobra \in {SinBlob, Sobra(i)}
  PROVE  IInv'
<1>1. /\ i \in PorEscribir /\ i # 0
      /\ capturas[i].cuerpo.blob \in {SinBlob} \cup ({i} \cap discos)
      /\ i \notin tabla /\ tabla \subseteq Ids
  BY LosNumeros DEF IInv, TypeOK, PorEscribir, CuerpoEnMano, SinNombrar
<1>2. \A j \in PorEscribir' : j \in PorEscribir /\ j # i /\ j \in Ids /\ j # 0
  BY LosNumeros DEF PorEscribir, Suelta
<1>3. TypeOK' /\ filas' \in [Ids -> Fila]
  <2>1. tabla' \subseteq Ids /\ filas' \in [Ids -> Fila]
    BY <1>1, EscribeUna DEF Escribe, IInv, TypeOK
  <2> QED BY <2>1 DEF IInv, TypeOK, Suelta
<1>4. SinEmpezar'
  BY LosNumeros, LosTipos DEF IInv, SinEmpezar, Suelta
<1>5. CuerpoEnMano'
  BY DEF IInv, CuerpoEnMano, Suelta
<1>6. CASE UNCHANGED <<tabla, filas>> /\ capturas'[i].sobra = SinBlob
  <2>1. FilaConBlob' /\ CierreConCausa'
    BY <1>6 DEF IInv, FilaConBlob, CierreConCausa, Suelta
  <2>2. SinNombrar'
    <3> SUFFICES ASSUME NEW n \in PorEscribir' PROVE
          /\ n \notin tabla' /\ n \notin janitor'.rutas
          /\ \A f \in tabla' : filas'[f].cuerpo.blob # n
          /\ \A j \in Ids : /\ capturas'[j].prev # n
                            /\ capturas'[j].previo.blob # n
                            /\ capturas'[j].sobra # n
          /\ \A r \in Reproducciones : reps'[r].fila # n
      BY DEF SinNombrar
    <3> QED BY <1>2, <1>6, LosNumeros DEF IInv, SinNombrar, Suelta
  <2>3. BlobsAparte'
    BY <1>6 DEF IInv, BlobsAparte, Suelta, Purgables
  <2>4. FundeLoSuyo'
    BY <1>1, <1>6, LosNumeros DEF IInv, FundeLoSuyo, Suelta
  <2>5. CierraLoHecho'
    BY <1>6 DEF IInv, CierraLoHecho, Suelta
  <2> QED BY <1>3, <1>4, <1>5, <2>1, <2>2, <2>3, <2>4, <2>5 DEF IInv
<1>7. CASE EscribeFila(i) /\ capturas'[i].sobra \in {SinBlob, Sobra(i)}
  <2>1. PICK t \in Ids :
          /\ Escribe(i, t)
          /\ Sobra(i) = SinBlob \/
              (t \in tabla /\
                \/ Sobra(i) = capturas[i].previo.blob /\ filas'[t].cuerpo = capturas[i].cuerpo
                \/ Sobra(i) = capturas[i].cuerpo.blob /\ filas'[t].cuerpo = filas[t].cuerpo)
    BY <1>7, EscribeUna
  <2>2. \/ filas'[t].cuerpo.blob \in {SinBlob, i}
        \/ t \in tabla /\ filas'[t].cuerpo = filas[t].cuerpo
    BY <1>1, <2>1 DEF Escribe
  <2>3. FilaConBlob'
    BY <1>1, <2>1 DEF IInv, FilaConBlob, Escribe, Suelta
  <2>4. CierreConCausa'
    BY <1>1, <2>1 DEF IInv, CierreConCausa, Escribe, Suelta
  <2>5. SinNombrar'
    <3> SUFFICES ASSUME NEW n \in PorEscribir' PROVE
          /\ n \notin tabla' /\ n \notin janitor'.rutas
          /\ \A f \in tabla' : filas'[f].cuerpo.blob # n
          /\ \A j \in Ids : /\ capturas'[j].prev # n
                            /\ capturas'[j].previo.blob # n
                            /\ capturas'[j].sobra # n
          /\ \A r \in Reproducciones : reps'[r].fila # n
      BY DEF SinNombrar
    <3>1. n \in PorEscribir /\ n # i /\ n \in Ids /\ n # 0
      BY <1>2
    <3>2. n \notin tabla' /\ n \notin janitor'.rutas
      BY <2>1, <3>1 DEF IInv, SinNombrar, Escribe, Suelta
    <3>3. \A f \in tabla' : filas'[f].cuerpo.blob # n
      BY <1>1, <2>1, <2>2, <3>1, LosNumeros DEF IInv, SinNombrar, Escribe
    <3>4. capturas'[i].sobra # n
      BY <1>1, <1>7, <2>1, <3>1, LosNumeros DEF IInv, SinNombrar
    <3>5. \A j \in Ids : /\ capturas'[j].prev # n
                         /\ capturas'[j].previo.blob # n
                         /\ capturas'[j].sobra # n
      BY <3>1, <3>4, LosNumeros DEF IInv, SinNombrar, Suelta
    <3> QED BY <3>1, <3>2, <3>3, <3>5 DEF IInv, SinNombrar, Suelta
  <2>6. BlobsAparte'
    <3> SUFFICES ASSUME NEW f \in tabla', filas'[f].cuerpo.blob # SinBlob PROVE
          /\ \A g \in tabla' : filas'[g].cuerpo.blob = filas'[f].cuerpo.blob => g = f
          /\ \A j \in Ids : /\ capturas'[j].previo.blob = filas'[f].cuerpo.blob
                               => capturas'[j].prev = f
                            /\ capturas'[j].sobra # filas'[f].cuerpo.blob
          /\ janitor'.fase = "borra" /\ filas'[f].cuerpo.blob \in janitor'.rutas
             => f \in Purgables(janitor.corte, janitor.larga)'
      BY DEF BlobsAparte
    <3>1. /\ f \in Ids /\ (f = t \/ f \in tabla)
          /\ \A g \in tabla' : g \in Ids /\ (g = t \/ (g \in tabla /\ filas'[g] = filas[g]))
      BY <1>1, <2>1 DEF Escribe
    <3>2. \A g \in tabla : filas[g].cuerpo.blob # i
      BY <1>1 DEF IInv, SinNombrar
    <3>3. \A g \in tabla' : filas'[g].cuerpo.blob = filas'[f].cuerpo.blob => g = f
      BY <2>1, <2>2, <3>1, <3>2 DEF IInv, BlobsAparte, Escribe
    <3>4. ASSUME NEW j \in Ids
          PROVE  /\ capturas'[j].previo.blob = filas'[f].cuerpo.blob => capturas'[j].prev = f
                 /\ j # i => capturas'[j].sobra # filas'[f].cuerpo.blob
      <4>1. /\ capturas[j].previo.blob # i /\ capturas[j].sobra # i
        BY <1>1 DEF IInv, SinNombrar
      <4>2. CASE f = t /\ filas'[f].cuerpo.blob = i
        BY <3>4, <4>1, <4>2, <1>1 DEF Suelta
      <4>3. CASE f \in tabla /\ filas'[f].cuerpo = filas[f].cuerpo
        BY <3>4, <4>3 DEF IInv, BlobsAparte, Suelta
      <4> QED BY <2>1, <2>2, <3>1, <4>2, <4>3 DEF Escribe
    <3>5. capturas'[i].sobra # filas'[f].cuerpo.blob
      <4>1. CASE Sobra(i) = SinBlob
        BY <1>7, <4>1
      <4>2. CASE t \in tabla /\ Sobra(i) = capturas[i].previo.blob
                 /\ filas'[t].cuerpo = capturas[i].cuerpo
        <5>1. capturas[i].previo.blob # i
          BY <1>1 DEF IInv, SinNombrar
        <5>2. t = capturas[i].prev
          BY <1>1, <2>1, <4>2 DEF Escribe
        <5>3. CASE f = t
          BY <1>1, <1>7, <4>2, <5>1, <5>3
        <5>4. CASE f # t
          BY <1>7, <2>1, <3>1, <4>2, <5>2, <5>4 DEF IInv, BlobsAparte, Escribe
        <5> QED BY <5>3, <5>4
      <4>3. CASE t \in tabla /\ Sobra(i) = capturas[i].cuerpo.blob
                 /\ filas'[t].cuerpo = filas[t].cuerpo
        BY <1>1, <1>7, <2>1, <3>1, <3>2, <4>3 DEF Escribe
      <4> QED BY <2>1, <4>1, <4>2, <4>3
    <3>6. janitor'.fase = "borra" /\ filas'[f].cuerpo.blob \in janitor'.rutas
             => f \in Purgables(janitor.corte, janitor.larga)'
      <4>1. i \notin janitor.rutas /\ janitor' = janitor
        BY <1>1 DEF IInv, SinNombrar, Suelta
      <4>2. CASE f \in tabla /\ filas'[f].cuerpo = filas[f].cuerpo
        <5>1. filas[f].estado \in EstadosResueltos => filas'[f].estado \in EstadosResueltos
          <6>1. f = t => filas[f].estado = "new"
            BY <1>1, <2>1, <4>2 DEF Escribe
          <6>2. f # t => filas'[f] = filas[f]
            BY <2>1, <3>1 DEF Escribe
          <6> QED BY <6>1, <6>2 DEF EstadosResueltos
        <5> QED BY <2>1, <4>1, <4>2, <5>1 DEF IInv, BlobsAparte, Purgables, Escribe
      <4>3. CASE f = t /\ filas'[f].cuerpo.blob = i
        BY <4>1, <4>3
      <4> QED BY <2>1, <2>2, <3>1, <4>2, <4>3 DEF Escribe
    <3> QED BY <3>3, <3>4, <3>5, <3>6
  <2>7. FundeLoSuyo'
    <3> SUFFICES ASSUME NEW j \in Ids, NEW f \in tabla', capturas'[j].prev = f
                 PROVE  filas'[f].clave = capturas'[j].clave
      BY DEF FundeLoSuyo
    <3>1. f \in Ids /\ f # 0
      BY <1>3, LosNumeros DEF TypeOK
    <3>2. j # i /\ capturas'[j] = capturas[j]
      BY <3>1 DEF Suelta
    <3>3. f # i
      BY <1>1, <3>2 DEF IInv, SinNombrar
    <3>4. f \in tabla /\ filas'[f].clave = filas[f].clave
      BY <2>1, <3>1, <3>3 DEF Escribe
    <3> QED BY <3>2, <3>4 DEF IInv, FundeLoSuyo
  <2>8. CierraLoHecho'
    <3>1. \A r \in Reproducciones : reps[r].fila # i
      BY <1>1 DEF IInv, SinNombrar
    <3>2. \A f \in tabla' : f = i \/ (f \in tabla /\ filas'[f].clave = filas[f].clave)
      BY <1>1, <2>1 DEF Escribe
    <3> QED BY <3>1, <3>2 DEF IInv, CierraLoHecho, Suelta
  <2> QED BY <1>3, <1>4, <1>5, <2>3, <2>4, <2>5, <2>6, <2>7, <2>8 DEF IInv
<1> QED BY <1>6, <1>7

LEMMA GuardaBienFija ==
  ASSUME IInv, NEW i \in Ids, GuardaBien(i)
  PROVE  IInv'
<1>1. /\ capturas[i].fase = "guardando" /\ EscribeFila(i)
      /\ UNCHANGED <<sig, discos, hechos, reps, janitor>>
  BY DEF GuardaBien
<1>2. Sobra(i) \in {SinBlob} \cup Ids
  BY LosTipos DEF IInv, Sobra, SinBlob, Cuerpos
<1> DEFINE x == [Ociosa("limpiando") EXCEPT !.sobra = Sobra(i)]
<1>3. /\ x \in Captura /\ x.fase = "limpiando" /\ x.prev = 0
      /\ x.previo.blob = SinBlob /\ x.sobra = Sobra(i)
  BY <1>2, LasOciosas DEF Captura
<1>4. capturas' = [capturas EXCEPT ![i] = x]
  BY DEF GuardaBien
<1> HIDE DEF x
<1>5. Suelta(i) /\ capturas'[i].sobra = Sobra(i)
  BY <1>1, <1>3, <1>4, LosTipos DEF IInv, TypeOK, Suelta
<1> QED BY <1>1, <1>5, EscribeFija

LEMMA GuardaMalFija ==
  ASSUME IInv, NEW i \in Ids, NEW c, GuardaMal(i, c)
  PROVE  IInv'
<1>1. /\ capturas[i].fase = "guardando"
      /\ EscribeFila(i) \/ UNCHANGED <<tabla, filas>>
      /\ UNCHANGED <<hechos, reps, janitor>>
  BY DEF GuardaMal
<1>2. CASE capturas[i].resp = "prohibido"
  <2>1. sig \in Ids /\ c \in CuerposDe(sig)
    BY <1>2, LosNumeros, LosTipos DEF IInv, GuardaMal
  <2>2. capturas[sig].fase = "libre" /\ sig # i /\ c \in Cuerpos /\ c.blob \in {SinBlob, sig}
    BY <1>1, <2>1, LosCuerpos, LosNumeros DEF IInv, SinEmpezar
  <2> DEFINE x == [Ociosa("respondida") EXCEPT !.clave = capturas[i].clave,
                     !.resp = "frontera", !.cuerpo = c]
  <2>3. capturas[i].clave \in {0} \cup Trabajos
    BY LosTipos DEF IInv, Captura
  <2>4. /\ x \in Captura /\ x.fase = "respondida" /\ x.cuerpo = c
        /\ x.prev = 0 /\ x.previo.blob = SinBlob /\ x.sobra = SinBlob
    BY <2>2, <2>3, LasOciosas DEF Captura, Respuestas
  <2>5. /\ capturas' = [capturas EXCEPT ![i] = Ociosa("fin"), ![sig] = x]
        /\ discos' = discos \cup ({c.blob} \ {SinBlob}) /\ sig' = sig + 1
    BY <1>2 DEF GuardaMal
  <2> HIDE DEF x
  <2>6. /\ capturas' \in [Ids -> Captura]
        /\ capturas'[i] = Ociosa("fin") /\ capturas'[sig] = x
        /\ \A j \in Ids : j # i /\ j # sig => capturas'[j] = capturas[j]
    BY <2>1, <2>2, <2>4, <2>5, LasOciosas DEF IInv, TypeOK
  <2>7. /\ sig' \in 1..(MaxIntentos + 1)
        /\ discos \subseteq discos' /\ discos' \subseteq Ids
        /\ c.blob \in {SinBlob} \cup ({sig} \cap discos')
    <3>1. sig' \in 1..(MaxIntentos + 1)
      BY <2>1, <2>5, LosNumeros DEF Ids
    <3> QED BY <2>1, <2>2, <2>5, <3>1 DEF IInv, TypeOK
  <2>8. Suelta(i) /\ capturas'[i].sobra = SinBlob
    BY <1>1, <2>1, <2>2, <2>4, <2>5, <2>6, <2>7, LasOciosas DEF Suelta
  <2> QED BY <1>1, <2>8, EscribeFija
<1>3. CASE capturas[i].resp # "prohibido"
  <2>1. capturas' = [capturas EXCEPT ![i] = Ociosa("fin")] /\ UNCHANGED <<sig, discos>>
    BY <1>3 DEF GuardaMal
  <2>2. Suelta(i) /\ capturas'[i].sobra = SinBlob
    BY <1>1, <2>1, LasOciosas, LosTipos DEF IInv, TypeOK, Suelta
  <2> QED BY <1>1, <2>2, EscribeFija
<1> QED BY <1>2, <1>3

-----------------------------------------------------------------------------
(* The theorems *)

LEMMA InvInicial == Init => IInv
<1> SUFFICES ASSUME Init PROVE IInv
  OBVIOUS
<1>1. /\ sig = 1 /\ tabla = {} /\ discos = {} /\ hechos = {}
      /\ janitor = EnReposo
      /\ \A i \in Ids : capturas[i] = Ociosa("libre")
      /\ \A r \in Reproducciones : reps[r] = RepLibre
  BY DEF Init
<1>2. /\ RepLibre \in Rep /\ RepLibre.fila = 0 /\ RepLibre.fase = "libre"
      /\ EnReposo \in Janitor /\ EnReposo.fase = "concilia" /\ EnReposo.rutas = {}
      /\ NoFila \in Fila
  BY LosCuerpos DEF RepLibre, Rep, Estados, SinBlob, EnReposo, Janitor, NoFila, Fila
<1>3. TypeOK
  <2>1. /\ filas \in [Ids -> Fila] /\ capturas \in [Ids -> Captura]
        /\ reps \in [Reproducciones -> Rep]
    BY <1>2, LasOciosas DEF Init
  <2>2. sig \in 1..(MaxIntentos + 1)
    BY <1>1, LosNumeros
  <2> QED BY <1>1, <1>2, <2>1, <2>2 DEF TypeOK
<1>4. FilaConBlob /\ CierreConCausa /\ BlobsAparte /\ FundeLoSuyo
  BY <1>1 DEF FilaConBlob, CierreConCausa, BlobsAparte, FundeLoSuyo
<1>5. SinEmpezar /\ CuerpoEnMano
  BY <1>1, LasOciosas DEF SinEmpezar, CuerpoEnMano
<1>6. SinNombrar
  BY <1>1, <1>2, LasOciosas, LosNumeros DEF SinNombrar, PorEscribir
<1>7. CierraLoHecho
  BY <1>1, <1>2, LasOciosas DEF CierraLoHecho
<1> QED BY <1>3, <1>4, <1>5, <1>6, <1>7 DEF IInv

LEMMA InvPaso == IInv /\ [Next]_vars => IInv'
<1> SUFFICES ASSUME IInv, [Next]_vars PROVE IInv'
  OBVIOUS
<1>1. CASE UNCHANGED vars
  BY <1>1 DEF vars, IInv, TypeOK, FilaConBlob, CierreConCausa, SinEmpezar,
     CuerpoEnMano, SinNombrar, PorEscribir, BlobsAparte, Purgables, FundeLoSuyo,
     CierraLoHecho
<1>2. ASSUME NEW k \in Claves \cup ({sig} \cap Anonimos), NEW resp \in Respuestas,
             NEW c, NEW l \in BOOLEAN, Responde(k, resp, c, l)
      PROVE  IInv'
  <2>1. k \in Trabajos
    BY <1>2, LosNumeros, LosTipos DEF Responde, Trabajos, IInv
  <2> QED BY <1>2, <2>1, RespondeFija
<1>3. ASSUME NEW i \in Ids, Avanza(i) PROVE IInv'
  BY <1>3, CierraPorExitoFija, BuscaFija, GuardaBienFija, GuardaMalFija, LimpiaFija
     DEF Avanza
<1>4. CASE Operador
  BY <1>4, ResuelveFija, LeeFija, SinCuerpoFija, DespachaFija, AnotaFija DEF Operador
<1>5. CASE Ronda
  BY <1>5, ConciliaFija, JanitorQuietoFija, PurgaLeeFija, PurgaBorraFija DEF Ronda
<1>6. CASE Reinicia
  BY <1>6, ReiniciaFija
<1> QED BY <1>1, <1>2, <1>3, <1>4, <1>5, <1>6 DEF Next

\* Whatever merges, discarded answers, failed commits, purges, replays and
\* crashes interleave, the invariant IInv holds for any number of keys,
\* captures and replays.
THEOREM Invariante == Spec => []IInv
BY InvInicial, InvPaso, PTL DEF Spec

\* The body a row names is on disk.
THEOREM CuerpoEnDisco == Spec => []FilaConBlob
<1>1. IInv => FilaConBlob
  BY DEF IInv
<1> QED BY <1>1, Invariante, PTL

\* What is closed without a person, or as replayed, is work that landed.
THEOREM CierraConCausa == Spec => []CierreConCausa
<1>1. IInv => CierreConCausa
  BY DEF IInv
<1> QED BY <1>1, Invariante, PTL

-----------------------------------------------------------------------------
(* What a step may do to a closed row *)

\* A step over the row f that history allows.
Respeta(f) ==
  filas[f].estado # "new" =>
    \/ filas'[f] = filas[f]
    \/ /\ filas'[f] = [filas[f] EXCEPT !.estado = "retried_ok"]
       /\ \E r \in Reproducciones : AnotaSobreLoLeido(r, f)

LEMMA RespetaPaso ==
  IInv /\ [Next]_vars => [\A f \in tabla \cap tabla' : Respeta(f)]_vars
<1> SUFFICES ASSUME IInv, Next, NEW f \in tabla, f \in tabla' PROVE Respeta(f)
  OBVIOUS
<1>1. f \in Ids /\ filas \in [Ids -> Fila]
  BY DEF IInv, TypeOK
<1>2. CASE UNCHANGED filas
  BY <1>2 DEF Respeta
<1>3. ASSUME NEW S, CierraClaves(S) PROVE Respeta(f)
  BY <1>1, <1>3 DEF CierraClaves, Pendiente, Respeta
<1>4. ASSUME NEW i \in Ids, capturas[i].fase = "guardando", EscribeFila(i)
      PROVE  Respeta(f)
  <2>1. f # i
    BY <1>4 DEF IInv, SinNombrar, PorEscribir
  <2> QED BY <1>1, <1>4, <2>1 DEF EscribeFila, SeFunde, Pendiente, Respeta
<1>5. CASE Operador
  <2>1. ASSUME NEW g \in tabla, NEW t, Resuelve(g, t) PROVE Respeta(f)
    BY <1>1, <2>1 DEF Resuelve, Pendiente, Respeta
  <2>2. ASSUME NEW r \in Reproducciones, Anota(r) PROVE Respeta(f)
    <3>1. reps[r].fase = "despachada" /\ (reps[r].bien \/ reps[r].estado = "new")
      BY <2>2 DEF IInv, CierraLoHecho, Anota
    <3>2. CASE /\ reps[r].fila = f /\ filas[f].estado = reps[r].estado
               /\ filas[f].estado # "new"
      <4>1. reps[r].bien /\ filas[f].clave \in hechos
        BY <3>1, <3>2 DEF IInv, CierraLoHecho
      <4>2. filas' = [filas EXCEPT ![f].estado = "retried_ok"]
        BY <2>2, <3>2, <4>1 DEF Anota
      <4>3. AnotaSobreLoLeido(r, f)
        BY <3>1, <3>2, <4>1 DEF AnotaSobreLoLeido
      <4> QED BY <1>1, <4>2, <4>3 DEF Respeta
    <3>3. CASE ~(/\ reps[r].fila = f /\ filas[f].estado = reps[r].estado
                 /\ filas[f].estado # "new")
      BY <1>1, <2>2, <3>3 DEF Anota, Respeta
    <3> QED BY <3>2, <3>3
  <2>3. ASSUME ~UNCHANGED filas PROVE
          \/ \E g \in tabla, t \in {"ignored", "resolved_manual"} : Resuelve(g, t)
          \/ \E r \in Reproducciones : Anota(r)
    BY <1>5, <2>3 DEF Operador, Lee, SinCuerpo, Despacha
  <2> QED BY <1>2, <2>1, <2>2, <2>3
<1>6. ASSUME NEW i \in Ids, Avanza(i) PROVE Respeta(f)
  BY <1>2, <1>3, <1>4, <1>6
     DEF Avanza, CierraPorExito, Busca, GuardaBien, GuardaMal, Limpia
<1>7. CASE Ronda
  <2>1. CASE PurgaBorra
    BY <1>1, <2>1 DEF PurgaBorra, Respeta
  <2>2. CASE Concilia
    BY <1>3, <2>2 DEF Concilia
  <2>3. CASE ~PurgaBorra /\ ~Concilia
    BY <1>2, <1>7, <2>3 DEF Ronda, ConciliaFalla, PurgaLee, NadaQuePurgar, PurgaFalla
  <2> QED BY <2>1, <2>2, <2>3
<1> QED BY <1>2, <1>5, <1>6, <1>7 DEF Next, Responde, Reinicia

\* A closed row stays as it was closed under every interleaving of merges,
\* resolutions, replays and reconciliations, except that a replay that read that
\* closed status and landed moves it to retried_ok.  The comments at
\* failedintent.go:95-96 and handlers.go:660-661 grant no such exception; the
\* code does (tryUpdateStatus, TransitionAfterReplay).
THEOREM HistoriaSeCierra == Spec => HistoriaCerrada
<1>1. Spec => [][\A f \in tabla \cap tabla' : Respeta(f)]_vars
  BY RespetaPaso, Invariante, PTL DEF Spec
<1> QED BY <1>1 DEF HistoriaCerrada, Respeta

-----------------------------------------------------------------------------
(* What a step may do to what is in custody *)

Custodiado(k) ==
  \/ Resguardo(k)' # {}
  \/ /\ \A i \in Ids : Confirma(i) => capturas[i].clave # k
     /\ \A f \in Resguardo(k) :
          \/ filas[f].estado \in EstadosResueltos
          \/ janitor.larga /\ f <= janitor.corte

\* A row that stays keeps its key, and its requester once it has one.
Sigue(f) == /\ f \in tabla' /\ filas'[f].clave = filas[f].clave
            /\ filas[f].usuario => filas'[f].usuario

LEMMA SigueCustodia ==
  ASSUME NEW k \in Trabajos, \A f \in tabla : Sigue(f),
         \A i \in Ids : Confirma(i) /\ capturas[i].clave = k => Resguardo(k)' # {}
  PROVE  Custodiado(k)
<1>1. CASE Resguardo(k) # {}
  BY <1>1 DEF Resguardo, Sigue, Custodiado
<1>2. CASE Resguardo(k) = {}
  BY <1>2 DEF Custodiado
<1> QED BY <1>1, <1>2

LEMMA CustodiaPaso ==
  IInv /\ [Next]_vars => [\A k \in Trabajos : Custodiado(k)]_vars
<1> SUFFICES ASSUME IInv, Next, NEW k \in Trabajos PROVE Custodiado(k)
  OBVIOUS
<1>0. tabla \subseteq Ids /\ TypeOK
  BY DEF IInv, TypeOK
<1>1. CASE UNCHANGED <<tabla, filas>> /\ \A i \in Ids : ~Confirma(i)
  BY <1>1, SigueCustodia DEF Sigue
<1>2. ASSUME NEW S, CierraClaves(S), UNCHANGED tabla, \A i \in Ids : ~Confirma(i)
      PROVE  Custodiado(k)
  BY <1>0, <1>2, CierraClavesDice, SigueCustodia DEF Sigue
<1>3. ASSUME NEW k1 \in Claves \cup ({sig} \cap Anonimos), NEW resp \in Respuestas,
             NEW c, NEW l \in BOOLEAN, Responde(k1, resp, c, l)
      PROVE  Custodiado(k)
  <2>1. sig \in Ids /\ capturas[sig].fase = "libre"
    BY <1>3, LosNumeros, LosTipos DEF IInv, Responde, SinEmpezar
  <2>2. \A i \in Ids : i # sig => capturas'[i] = capturas[i]
    BY <1>3, <2>1 DEF Responde, IInv, TypeOK
  <2>3. \A i \in Ids : ~Confirma(i)
    BY <2>1, <2>2 DEF Confirma
  <2> QED BY <1>1, <1>3, <2>3 DEF Responde
<1>4. ASSUME NEW i \in Ids, Avanza(i) PROVE Custodiado(k)
  <2>1. CASE CierraPorExito(i)
    <3>1. \A j \in Ids : ~Confirma(j)
      BY <2>1, LasOciosas DEF CierraPorExito, Confirma, IInv, TypeOK
    <3> QED BY <1>1, <1>2, <2>1, <3>1 DEF CierraPorExito
  <2>2. CASE Busca(i) \/ Limpia(i)
    <3>1. \A j \in Ids : ~Confirma(j)
      BY <2>2, LasOciosas DEF Busca, Limpia, Confirma, IInv, TypeOK
    <3> QED BY <1>1, <2>2, <3>1 DEF Busca, Limpia
  <2>3. ASSUME capturas[i].fase = "guardando", EscribeFila(i)
        PROVE  /\ \A f \in tabla : Sigue(f)
               /\ capturas[i].clave = k /\ ~Fuera(i) => Resguardo(k)' # {}
    <3>1. PICK t \in Ids : Escribe(i, t)
      BY <2>3, EscribeUna
    <3>2. i \notin tabla
      BY <2>3 DEF IInv, SinNombrar, PorEscribir
    <3>3. \A f \in tabla : Sigue(f)
      BY <1>0, <3>1, <3>2 DEF Escribe, Sigue
    <3>4. t \in tabla' /\ filas'[t].clave = capturas[i].clave
      BY <3>1 DEF Escribe, IInv, FundeLoSuyo
    <3>5. ~Fuera(i) => filas'[t].usuario
      BY <3>1 DEF Escribe
    <3> QED BY <3>3, <3>4, <3>5 DEF Resguardo
  <2>4. CASE GuardaBien(i)
    <3>1. \A j \in Ids : j # i => ~Confirma(j)
      BY <2>4 DEF GuardaBien, Confirma, IInv, TypeOK
    <3> QED BY <2>3, <2>4, <3>1, SigueCustodia DEF GuardaBien, Confirma
  <2>5. ASSUME NEW c, GuardaMal(i, c) PROVE Custodiado(k)
    <3>1. \A j \in Ids : ~Confirma(j)
      <4>1. \A j \in Ids : capturas'[j].fase = "limpiando" => capturas[j].fase = "limpiando"
        <5>1. CASE capturas[i].resp = "prohibido"
          <6> DEFINE x == [Ociosa("respondida") EXCEPT !.clave = capturas[i].clave,
                             !.resp = "frontera", !.cuerpo = c]
          <6>1. x.fase = "respondida"
            BY DEF Ociosa
          <6>2. capturas' = [capturas EXCEPT ![i] = Ociosa("fin"), ![sig] = x]
            BY <2>5, <5>1 DEF GuardaMal
          <6> HIDE DEF x
          <6> QED BY <6>1, <6>2, LasOciosas DEF IInv, TypeOK
        <5>2. CASE capturas[i].resp # "prohibido"
          BY <2>5, <5>2, LasOciosas DEF GuardaMal, IInv, TypeOK
        <5> QED BY <5>1, <5>2
      <4> QED BY <4>1 DEF Confirma
    <3>2. \A f \in tabla : Sigue(f)
      BY <2>3, <2>5 DEF GuardaMal, Sigue
    <3> QED BY <3>1, <3>2, SigueCustodia
  <2> QED BY <1>4, <2>1, <2>2, <2>4, <2>5 DEF Avanza
<1>5. CASE Operador
  <2>1. \A i \in Ids : ~Confirma(i)
    BY <1>5 DEF Operador, Resuelve, Lee, SinCuerpo, Despacha, Anota, Confirma
  <2>2. \A f \in tabla : Sigue(f)
    <3> SUFFICES ASSUME NEW f \in tabla PROVE Sigue(f)
      OBVIOUS
    <3>1. filas[f] \in Fila /\ f \in Ids /\ filas \in [Ids -> Fila]
      BY <1>0 DEF TypeOK
    <3>2. ASSUME NEW g \in tabla, NEW t, Resuelve(g, t) PROVE Sigue(f)
      BY <3>1, <3>2 DEF Resuelve, Sigue, Fila
    <3>3. ASSUME NEW r \in Reproducciones, Anota(r) PROVE Sigue(f)
      BY <3>1, <3>3 DEF Anota, Sigue, Fila
    <3> QED BY <1>5, <3>2, <3>3 DEF Operador, Lee, SinCuerpo, Despacha, Sigue
  <2> QED BY <2>1, <2>2, SigueCustodia
<1>6. CASE Ronda
  <2>1. \A i \in Ids : ~Confirma(i)
    BY <1>6 DEF Ronda, Concilia, ConciliaFalla, PurgaLee, NadaQuePurgar, PurgaBorra,
       PurgaFalla, Confirma
  <2>2. CASE PurgaBorra
    <3>1. \A f \in tabla : \/ f \in tabla' /\ filas'[f] = filas[f]
                           \/ filas[f].estado \in EstadosResueltos
                           \/ janitor.larga /\ f <= janitor.corte
      BY <1>0, <2>2 DEF PurgaBorra, Purgables
    <3> QED BY <2>1, <3>1 DEF Custodiado, Resguardo
  <2>3. CASE Concilia
    BY <1>2, <2>1, <2>3 DEF Concilia
  <2>4. CASE ~PurgaBorra /\ ~Concilia
    BY <1>1, <1>6, <2>1, <2>4
       DEF Ronda, ConciliaFalla, PurgaLee, NadaQuePurgar, PurgaFalla
  <2> QED BY <2>2, <2>3, <2>4
<1>7. CASE Reinicia
  <2>1. \A i \in Ids : ~Confirma(i)
    BY <1>7, LasOciosas DEF Reinicia, Confirma, EnVuelo
  <2> QED BY <1>1, <1>7, <2>1 DEF Reinicia
<1> QED BY <1>3, <1>4, <1>5, <1>6, <1>7 DEF Next

\* What was confirmed to a phone is held by a row with a requester, until a
\* retention takes that row.
THEOREM EnCustodia == Spec => Custodia
<1>1. Spec => [][\A k \in Trabajos : Custodiado(k)]_vars
  BY CustodiaPaso, Invariante, PTL DEF Spec
<1> QED BY <1>1 DEF Custodia, Custodiado

-----------------------------------------------------------------------------
(* The least of a set of numbers *)

HIDE IntentosAssumption

LEMMA UnMinimo ==
  ASSUME NEW S, NEW T, T \subseteq FiniteSubsetsOf(S), T # {}
  PROVE  \E m \in T : \A t \in T : ~(<<t, m>> \in StrictSubsetOrdering(S))
<1> DEFINE R == StrictSubsetOrdering(S)
           U == FiniteSubsetsOf(S)
<1>1. IsWellFoundedOn(R, U)
  BY FS_StrictSubsetOrderingWellFounded
<1>2. T \subseteq U
  OBVIOUS
<1> HIDE DEF R, U
<1>3. \E m \in T : \A t \in T : ~(<<t, m>> \in R)
  BY <1>1, <1>2, WFMin
<1> QED BY <1>3 DEF R

LEMMA ElMenor ==
  ASSUME NEW S \in SUBSET Nat, S # {}
  PROVE  \E x \in S : \A y \in S : x <= y
<1> DEFINE Hasta(x) == {y \in S : y <= x}
           Tramos == {Hasta(x) : x \in S}
<1>1. Tramos \subseteq FiniteSubsetsOf(S) /\ Tramos # {}
  <2>1. ASSUME NEW x \in S PROVE Hasta(x) \in SUBSET S /\ IsFiniteSet(Hasta(x))
    <3>1. Hasta(x) \in SUBSET Nat /\ x \in Nat /\ \A y \in Hasta(x) : y <= x
      OBVIOUS
    <3> QED BY <3>1, FS_BoundedSetOfNaturals
  <2> QED BY <2>1 DEF FiniteSubsetsOf
<1>2. PICK m \in Tramos : \A t \in Tramos : ~(<<t, m>> \in StrictSubsetOrdering(S))
  <2> HIDE DEF Tramos
  <2> QED BY <1>1, UnMinimo
<1>3. PICK x \in S : m = Hasta(x)
  BY <1>2
<1>4. ASSUME NEW y \in S, y < x PROVE FALSE
  <2>0. x \in Nat /\ y \in Nat /\ \A z \in S : z \in Nat /\ (z <= y => z <= x)
    BY <1>4
  <2>1. Hasta(y) \in Tramos /\ Hasta(y) \subseteq Hasta(x)
    BY <2>0
  <2>2. x \in Hasta(x) /\ x \notin Hasta(y)
    BY <1>4
  <2>3. <<Hasta(y), Hasta(x)>> \in StrictSubsetOrdering(S)
    BY <2>1, <2>2 DEF StrictSubsetOrdering
  <2> QED BY <1>2, <1>3, <2>1, <2>3
<1>5. \A y \in S : x <= y
  BY <1>4
<1> QED BY <1>5

\* The first B of a finite set of numbers are at most B, and there are some.
LEMMA LosPrimeros ==
  ASSUME NEW P \in SUBSET Nat, IsFiniteSet(P), P # {}, NEW B \in Nat \ {0},
         NEW L, L = {i \in P : Cardinality({j \in P : j < i}) < B}
  PROVE  L # {} /\ Cardinality(L) <= B
<1> DEFINE Antes(i) == {j \in P : j < i}
           f == [i \in L |-> Cardinality(Antes(i))]
<1>1. \A i : IsFiniteSet(Antes(i)) /\ Cardinality(Antes(i)) \in Nat
  BY FS_Subset, FS_CardinalityType
<1>2. ASSUME NEW a \in P, NEW b \in P, a < b
      PROVE  Cardinality(Antes(a)) # Cardinality(Antes(b))
  <2>1. Antes(a) \in SUBSET Antes(b) /\ Antes(a) # Antes(b)
    <3>1. a \in Antes(b) /\ a \notin Antes(a)
      BY <1>2
    <3>2. \A j \in Antes(a) : j \in Antes(b)
      BY <1>2
    <3> QED BY <3>1, <3>2
  <2>2. IsFiniteSet(Antes(b))
    BY <1>1
  <2> HIDE DEF Antes
  <2> QED BY <2>1, <2>2, FS_Subset
<1>3. f \in Injection(L, 0..(B - 1))
  <2>1. \A i \in L : i \in P /\ Cardinality(Antes(i)) \in 0..(B - 1)
    <3>1. \A i \in L : i \in P /\ Cardinality(Antes(i)) < B
      OBVIOUS
    <3> HIDE DEF Antes
    <3> QED BY <1>1, <3>1
  <2>2. \A a, b \in L : f[a] = f[b] => a = b
    <3> SUFFICES ASSUME NEW a \in L, NEW b \in L, f[a] = f[b], a # b PROVE FALSE
      OBVIOUS
    <3>1. a \in P /\ b \in P /\ a \in Nat /\ b \in Nat
      BY <2>1
    <3>2. Cardinality(Antes(a)) = Cardinality(Antes(b))
      OBVIOUS
    <3>3. a < b \/ b < a
      BY <3>1
    <3> HIDE DEF Antes
    <3> QED BY <1>2, <3>1, <3>2, <3>3
  <2>3. f \in [L -> 0..(B - 1)]
    BY <2>1
  <2> HIDE DEF f
  <2> QED BY <2>2, <2>3 DEF Injection, IsInjective
<1>4. Cardinality(L) <= B
  <2>1. IsFiniteSet(0..(B - 1)) /\ Cardinality(0..(B - 1)) = B
    BY FS_Interval
  <2> HIDE DEF f
  <2> QED BY <1>3, <2>1, FS_Injection
<1>5. L # {}
  <2>1. PICK m \in P : \A y \in P : m <= y
    BY ElMenor
  <2>2. Antes(m) = {}
    <3>1. \A j \in P : ~(j < m)
      <4>1. \A j \in P : j \in Nat /\ m \in Nat /\ m <= j
        BY <2>1
      <4> QED BY <4>1
    <3> QED BY <3>1, Zenon
  <2>3. Cardinality(Antes(m)) = 0
    BY <2>2, FS_EmptySet
  <2> QED BY <2>1, <2>3
<1> QED BY <1>4, <1>5

-----------------------------------------------------------------------------
(* The outbox *)

LEMMA OutboxTipos ==
  ASSUME OutboxTypeOK
  PROVE  /\ eventos \in Seq(Evento)
         /\ DOMAIN eventos \subseteq Nat
         /\ \A i \in DOMAIN eventos : /\ eventos[i] \in Evento
                                      /\ eventos[i].venta \in Venta
                                      /\ eventos[i].attempts \in Nat
         /\ \A i \in DOMAIN marcas : i \in DOMAIN eventos /\ marcas[i] \in Evento
         /\ lote \subseteq DOMAIN eventos
         /\ \A v \in Venta : version[v] \in 0..MaxCambios /\ indice[v] \in 0..MaxCambios
         /\ \A c \in porDrenar : c \in Cambio
<1>1. eventos \in Seq(Evento)
  BY DEF OutboxTypeOK
<1>2. DOMAIN eventos \subseteq Nat /\ \A i \in DOMAIN eventos : eventos[i] \in Evento
  BY <1>1
<1>3. \A e \in Evento : e.venta \in Venta /\ e.attempts \in Nat
  BY OutboxAssumption DEF Evento
<1> QED BY <1>1, <1>2, <1>3 DEF OutboxTypeOK

LEMMA LoQueda ==
  ASSUME OutboxTypeOK, NEW i \in DOMAIN eventos
  PROVE  Quedara(i) \in Evento
BY OutboxTipos DEF Quedara

\* While the tick handles events it has one in hand.
LEMMA ElEvento ==
  ASSUME OutboxIInv, dpc \in {"leer", "indexar"}
  PROVE  /\ E \in lote /\ E \in DOMAIN eventos /\ E \notin DOMAIN marcas
         /\ eventos[E] \in Evento /\ eventos[E].venta \in Venta
         /\ eventos[E].estado = "nuevo" /\ Quedara(E) = eventos[E]
         /\ E \in Vivos(eventos[E].venta)
         /\ eventos[E].attempts + 1 \in 1..MaxAttempts
<1>1. lote # {} /\ lote \in SUBSET Nat /\ lote \subseteq DOMAIN eventos
  BY OutboxTipos DEF OutboxIInv, OutboxTypeOK
<1>2. E \in lote
  BY <1>1, ElMenor DEF E
<1>3. E \in DOMAIN eventos /\ E \notin DOMAIN marcas /\ eventos[E].estado = "nuevo"
  BY <1>1, <1>2 DEF OutboxIInv, TickReclama
<1>4. eventos[E] \in Evento /\ eventos[E].venta \in Venta /\ eventos[E].attempts \in Nat
  BY <1>3, OutboxTipos DEF OutboxIInv
<1>5. eventos[E].attempts < MaxAttempts
  BY <1>3 DEF OutboxIInv, PendienteConIntentos
<1>6. eventos[E].attempts + 1 \in 1..MaxAttempts
  BY <1>4, <1>5, OutboxAssumption
<1> QED BY <1>2, <1>3, <1>4, <1>6 DEF Quedara, Vivos

\* What the steps of others leave to the tick.
LEMMA DespachoIgual ==
  ASSUME OutboxIInv, UNCHANGED <<eventos, dpc, lote, marcas, leida>>
  PROVE  /\ PendienteConIntentos' /\ TickReclama'
         /\ \A i \in DOMAIN eventos : Quedara(i)' = Quedara(i)
         /\ \A v \in Venta : Vivos(v)' = Vivos(v)
         /\ E' = E
<1>1. \A i \in DOMAIN eventos : Quedara(i)' = Quedara(i)
  BY DEF Quedara
<1>2. \A v \in Venta : Vivos(v)' = Vivos(v)
  BY <1>1 DEF Vivos
<1>3. E' = E
  BY DEF E
<1>4. PendienteConIntentos'
  BY <1>1 DEF OutboxIInv, PendienteConIntentos
<1>5. TickReclama'
  BY DEF OutboxIInv, TickReclama
<1> QED BY <1>1, <1>2, <1>3, <1>4, <1>5

\* The index, the ventas and the worker's page as they were.
LEMMA IndiceIgual ==
  ASSUME OutboxIInv, UNCHANGED <<version, indice, foto>>,
         perdidos \subseteq perdidos', pisadas \subseteq pisadas',
         \A v \in Venta : PorDrenar(v) =>
            PorDrenar(v)' \/ Vivos(v)' # {} \/ v \in perdidos',
         \A v \in Venta : Vivos(v) # {} => Vivos(v)' # {}
  PROVE  AtrasadaConVivo' /\ FotoPosible'
BY DEF OutboxIInv, AtrasadaConVivo, FotoPosible

\* The handler goes on to the next event or to the COMMIT.
LEMMA AlSeguir ==
  ASSUME OutboxIInv, dpc \in {"leer", "indexar"}, Seguir
  PROVE  /\ lote' \subseteq lote /\ E \notin lote'
         /\ Cardinality(lote') <= BatchSize
         /\ lote' # {} <=> dpc' \in {"leer", "indexar"}
         /\ dpc' \in {"leer", "commit"} /\ leida' = 0
<1>1. lote' = lote \ {E} /\ E \in lote
  BY ElEvento DEF Seguir
<1>2. lote' # {} <=> dpc' \in {"leer", "indexar"}
  BY <1>1 DEF Seguir
<1>3. Cardinality(lote') <= BatchSize
  <2>1. IsFiniteSet(lote)
    BY OutboxTipos, FS_Interval, FS_Subset DEF OutboxIInv
  <2>2. Cardinality(lote') <= Cardinality(lote)
        /\ Cardinality(lote) \in Nat /\ Cardinality(lote') \in Nat
    BY <1>1, <2>1, FS_Subset, FS_CardinalityType
  <2> QED BY <2>2, OutboxAssumption DEF OutboxIInv, OutboxTypeOK
<1> QED BY <1>1, <1>2, <1>3 DEF Seguir

\* The mark of the event in hand.
LEMMA AlMarcar ==
  ASSUME OutboxIInv, dpc \in {"leer", "indexar"}, Seguir, UNCHANGED eventos,
         NEW estado \in {"nuevo", "procesado", "fallido"},
         Marca(estado, eventos[E].attempts + 1),
         estado = "nuevo" => eventos[E].attempts + 1 < MaxAttempts
  PROVE  /\ PendienteConIntentos' /\ TickReclama'
         /\ DOMAIN marcas' \subseteq DOMAIN eventos
         /\ \A i \in DOMAIN marcas' : marcas'[i] \in Evento
         /\ \A v \in Venta :
              Vivos(v)' = IF estado = "procesado" THEN Vivos(v) \ {E} ELSE Vivos(v)
<1>0. PICK e : e = E
  OBVIOUS
<1> DEFINE m == [eventos[e] EXCEPT !.estado = estado, !.attempts = eventos[e].attempts + 1]
<1>1. /\ e \in lote /\ e \in DOMAIN eventos /\ e \notin DOMAIN marcas
      /\ eventos[e] \in Evento /\ eventos[e].estado = "nuevo" /\ Quedara(e) = eventos[e]
      /\ eventos[e].attempts + 1 \in 1..MaxAttempts
  BY <1>0, ElEvento
<1>2. /\ m \in Evento /\ m.estado = estado /\ m.venta = eventos[e].venta
      /\ m.attempts = eventos[e].attempts + 1
  <2>1. eventos[e].attempts + 1 \in 0..MaxAttempts
    BY <1>1
  <2> QED BY <1>1, <2>1 DEF Evento
<1>3. /\ DOMAIN marcas' = DOMAIN marcas \cup {e}
      /\ marcas'[e] = m
      /\ \A i \in DOMAIN marcas : marcas'[i] = marcas[i]
  BY <1>0, <1>1 DEF Marca
<1> HIDE DEF m
<1>4. /\ Quedara(e)' = m
      /\ \A i \in DOMAIN eventos : i # e => Quedara(i)' = Quedara(i)
  BY <1>3 DEF Quedara
<1>5. PendienteConIntentos'
  <2> SUFFICES ASSUME NEW i \in DOMAIN eventos
               PROVE  /\ eventos[i].estado = "nuevo" => eventos[i].attempts < MaxAttempts
                      /\ Quedara(i)'.estado = "nuevo" =>
                           Quedara(i)'.attempts < MaxAttempts
    BY DEF PendienteConIntentos
  <2>1. CASE i = e
    BY <1>0, <1>2, <1>4, <2>1 DEF OutboxIInv, PendienteConIntentos
  <2>2. CASE i # e
    BY <1>4, <2>2 DEF OutboxIInv, PendienteConIntentos
  <2> QED BY <2>1, <2>2
<1>6. TickReclama'
  <2>1. lote' \subseteq lote /\ e \notin lote' /\ dpc' # "reposo"
    BY <1>0, AlSeguir
  <2>2. lote' \cap DOMAIN marcas' = {}
    BY <1>3, <2>1 DEF OutboxIInv, TickReclama
  <2>3. \A i \in lote' \cup DOMAIN marcas' : eventos[i].estado = "nuevo"
    BY <1>1, <1>3, <2>1 DEF OutboxIInv, TickReclama
  <2>4. \A i \in DOMAIN marcas' : marcas'[i].venta = eventos[i].venta
    BY <1>2, <1>3 DEF OutboxIInv, TickReclama
  <2> QED BY <2>1, <2>2, <2>3, <2>4 DEF TickReclama
<1>7. /\ DOMAIN marcas' \subseteq DOMAIN eventos
      /\ \A i \in DOMAIN marcas' : marcas'[i] \in Evento
  BY <1>1, <1>2, <1>3, OutboxTipos DEF OutboxIInv
<1>8. ASSUME NEW v \in Venta
      PROVE  Vivos(v)' = IF estado = "procesado" THEN Vivos(v) \ {e} ELSE Vivos(v)
  <2>1. Vivos(v)' = {i \in DOMAIN eventos :
                       eventos[i].venta = v /\ Quedara(i)'.estado # "procesado"}
    BY DEF Vivos
  <2>2. Vivos(v) = {i \in DOMAIN eventos :
                      eventos[i].venta = v /\ Quedara(i).estado # "procesado"}
    BY DEF Vivos
  <2>3. \A i \in DOMAIN eventos : i # e =>
          (Quedara(i)'.estado # "procesado" <=> Quedara(i).estado # "procesado")
    BY <1>4
  <2>4. /\ Quedara(e)'.estado # "procesado" <=> estado # "procesado"
        /\ Quedara(e).estado # "procesado"
    BY <1>1, <1>2, <1>4
  <2> QED BY <2>1, <2>2, <2>3, <2>4
<1> QED BY <1>0, <1>5, <1>6, <1>7, <1>8

-----------------------------------------------------------------------------
(* One lemma per action *)

LEMMA AlEmpezarOutbox == OutboxInit => OutboxIInv
<1> SUFFICES ASSUME OutboxInit PROVE OutboxIInv
  OBVIOUS
<1>1. OutboxTypeOK
  <2>1. Cardinality(lote) <= BatchSize
    BY FS_EmptySet, OutboxAssumption DEF OutboxInit
  <2> QED BY <2>1, OutboxAssumption DEF OutboxInit, OutboxTypeOK
<1>2. DOMAIN eventos = {} /\ DOMAIN marcas = {} /\ lote = {}
  BY DEF OutboxInit
<1> QED BY <1>1, <1>2 DEF OutboxInit, OutboxIInv, PendienteConIntentos, TickReclama,
     AtrasadaConVivo, LeidaVigente, FotoPosible

LEMMA PasoMutar ==
  ASSUME OutboxIInv, NEW v \in Venta, Mutar(v)
  PROVE  OutboxIInv'
<1>0. /\ UNCHANGED <<eventos, dpc, lote, marcas, leida, indice, faltan, foto, perdidos,
                     pisadas, fallas, caidas>>
      /\ version[v] < MaxCambios
      /\ version' = [version EXCEPT ![v] = @ + 1]
      /\ porDrenar' = porDrenar \cup {[venta |-> v, n |-> version'[v]]}
  BY DEF Mutar, despachador, recon
<1>1. /\ version[v] \in 0..MaxCambios /\ MaxCambios \in Nat
      /\ version'[v] = version[v] + 1 /\ version'[v] \in 1..MaxCambios
      /\ \A u \in Venta : u # v => version'[u] = version[u]
  <2>1. version[v] \in 0..MaxCambios /\ MaxCambios \in Nat
    BY OutboxTipos, OutboxAssumption DEF OutboxIInv
  <2> QED BY <1>0, <2>1 DEF OutboxIInv, OutboxTypeOK
<1>2. OutboxTypeOK'
  <2>1. version' \in [Venta -> 0..MaxCambios] /\ porDrenar' \subseteq Cambio
    BY <1>0, <1>1 DEF OutboxIInv, OutboxTypeOK, Cambio
  <2> QED BY <1>0, <2>1 DEF OutboxIInv, OutboxTypeOK
<1>3. PendienteConIntentos' /\ TickReclama'
      /\ (\A u \in Venta : Vivos(u)' = Vivos(u)) /\ E' = E
  BY <1>0, DespachoIgual
<1>4. PorDrenar(v)' /\ \A u \in Venta : PorDrenar(u) => PorDrenar(u)'
  <2> DEFINE c == [venta |-> v, n |-> version'[v]]
  <2>1. porDrenar' = porDrenar \cup {c}
    BY <1>0
  <2>2. c.venta = v
    OBVIOUS
  <2> HIDE DEF c
  <2> QED BY <2>1, <2>2 DEF PorDrenar
<1>5. AtrasadaConVivo'
  BY <1>0, <1>1, <1>3, <1>4 DEF OutboxIInv, AtrasadaConVivo
<1>6. LeidaVigente'
  <2> SUFFICES ASSUME dpc = "indexar", NEW u \in Venta, u = eventos[E].venta
               PROVE  \/ leida = version'[u] \/ PorDrenar(u)'
                      \/ Vivos(u)' \ {E} # {} \/ u \in perdidos
    BY <1>0, <1>3 DEF LeidaVigente
  <2>1. leida = version[u] \/ PorDrenar(u) \/ Vivos(u) \ {E} # {} \/ u \in perdidos
    BY DEF OutboxIInv, LeidaVigente
  <2> QED BY <1>1, <1>3, <1>4, <2>1
<1>7. FotoPosible'
  <2>1. \A d \in foto : d.venta \in Venta /\ d.n \in 0..MaxCambios
    BY DEF OutboxIInv, OutboxTypeOK
  <2>2. \A u \in Venta : version[u] \in Nat /\ version'[u] \in Nat
                         /\ version[u] <= version'[u]
    BY <1>1, OutboxTipos DEF OutboxIInv
  <2> QED BY <1>0, <2>1, <2>2 DEF OutboxIInv, FotoPosible
<1> QED BY <1>2, <1>3, <1>5, <1>6, <1>7 DEF OutboxIInv

LEMMA PasoDrainEvents ==
  ASSUME OutboxIInv, NEW c \in porDrenar, DrainEvents(c)
  PROVE  OutboxIInv'
<1> DEFINE nuevo == [venta |-> c.venta, n |-> c.n, estado |-> "nuevo", attempts |-> 0]
<1>k. PICK k : k = Len(eventos) + 1
  OBVIOUS
<1>0. /\ UNCHANGED <<version, dpc, lote, marcas, leida, indice, faltan, foto, perdidos,
                     pisadas, fallas, caidas>>
      /\ porDrenar' = porDrenar \ {c}
      /\ eventos' = Append(eventos, nuevo)
  BY DEF DrainEvents, despachador, recon
<1>1. c \in Cambio /\ nuevo \in Evento
  <2>1. 0 \in 0..MaxAttempts
    BY OutboxAssumption
  <2> QED BY <2>1, OutboxTipos DEF OutboxIInv, Cambio, Evento
<1>2. /\ eventos \in Seq(Evento) /\ eventos' \in Seq(Evento)
      /\ DOMAIN eventos' = DOMAIN eventos \cup {k} /\ k \notin DOMAIN eventos
      /\ eventos'[k] = nuevo
      /\ \A i \in DOMAIN eventos : eventos'[i] = eventos[i]
  <2>1. eventos \in Seq(Evento)
    BY OutboxTipos DEF OutboxIInv
  <2> HIDE DEF nuevo
  <2> QED BY <1>0, <1>1, <1>k, <2>1
<1>3. DOMAIN marcas \subseteq DOMAIN eventos /\ lote \subseteq DOMAIN eventos
  BY DEF OutboxIInv, OutboxTypeOK
<1>4. /\ \A i \in DOMAIN eventos : Quedara(i)' = Quedara(i)
      /\ Quedara(k)' = nuevo
  BY <1>0, <1>2, <1>3 DEF Quedara
<1>5. /\ \A u \in Venta : Vivos(u) \subseteq Vivos(u)'
      /\ k \in Vivos(c.venta)'
  BY <1>2, <1>4 DEF Vivos
<1>6. \A u \in Venta : PorDrenar(u) => PorDrenar(u)' \/ u = c.venta
  BY <1>0 DEF PorDrenar
<1>7. OutboxTypeOK'
  BY <1>0, <1>2 DEF OutboxIInv, OutboxTypeOK
<1>8. PendienteConIntentos'
  <2>1. 0 < MaxAttempts
    BY OutboxAssumption
  <2> QED BY <1>2, <1>4, <2>1 DEF OutboxIInv, PendienteConIntentos
<1>9. TickReclama'
  BY <1>0, <1>2, <1>3 DEF OutboxIInv, TickReclama
<1>10. AtrasadaConVivo' /\ FotoPosible'
  <2>1. \A u \in Venta : PorDrenar(u) => PorDrenar(u)' \/ Vivos(u)' # {}
    BY <1>5, <1>6
  <2> QED BY <1>0, <1>5, <2>1, IndiceIgual
<1>11. LeidaVigente'
  <2> SUFFICES ASSUME dpc = "indexar", NEW u \in Venta, u = eventos[E].venta
               PROVE  \/ leida = version[u] \/ PorDrenar(u)'
                      \/ Vivos(u)' \ {E} # {} \/ u \in perdidos
    <3>1. E' = E /\ (dpc = "indexar" => eventos'[E] = eventos[E])
      BY <1>0, <1>2, ElEvento DEF E
    <3> QED BY <1>0, <3>1 DEF LeidaVigente
  <2>1. leida = version[u] \/ PorDrenar(u) \/ Vivos(u) \ {E} # {} \/ u \in perdidos
    BY DEF OutboxIInv, LeidaVigente
  <2>2. k # E
    BY <1>2, ElEvento
  <2> QED BY <1>5, <1>6, <2>1, <2>2
<1> QED BY <1>7, <1>8, <1>9, <1>10, <1>11 DEF OutboxIInv

LEMMA PasoEnqueueFalla ==
  ASSUME OutboxIInv, NEW c \in porDrenar, EnqueueFalla(c)
  PROVE  OutboxIInv'
<1>0. /\ UNCHANGED <<version, eventos, dpc, lote, marcas, leida, indice, faltan, foto,
                     pisadas, caidas>>
      /\ porDrenar' = porDrenar \ {c} /\ perdidos' = perdidos \cup {c.venta}
      /\ fallas < MaxFallas /\ fallas' = fallas + 1
  BY DEF EnqueueFalla, Fallar, despachador, recon
<1>1. c.venta \in Venta
  BY OutboxTipos DEF OutboxIInv, Cambio
<1>2. OutboxTypeOK'
  BY <1>0, <1>1, OutboxAssumption DEF OutboxIInv, OutboxTypeOK
<1>3. PendienteConIntentos' /\ TickReclama'
      /\ (\A u \in Venta : Vivos(u)' = Vivos(u)) /\ E' = E
  BY <1>0, DespachoIgual
<1>4. \A u \in Venta : PorDrenar(u) => PorDrenar(u)' \/ u \in perdidos'
  BY <1>0 DEF PorDrenar
<1>5. AtrasadaConVivo' /\ FotoPosible'
  BY <1>0, <1>3, <1>4, IndiceIgual
<1>6. LeidaVigente'
  <2> SUFFICES ASSUME dpc = "indexar", NEW u \in Venta, u = eventos[E].venta
               PROVE  \/ leida = version[u] \/ PorDrenar(u)'
                      \/ Vivos(u)' \ {E} # {} \/ u \in perdidos'
    BY <1>0, <1>3 DEF LeidaVigente
  <2>1. leida = version[u] \/ PorDrenar(u) \/ Vivos(u) \ {E} # {} \/ u \in perdidos
    BY DEF OutboxIInv, LeidaVigente
  <2> QED BY <1>0, <1>3, <1>4, <2>1
<1> QED BY <1>2, <1>3, <1>5, <1>6 DEF OutboxIInv

LEMMA PasoTick == OutboxIInv /\ Tick => OutboxIInv'
<1> SUFFICES ASSUME OutboxIInv, Tick PROVE OutboxIInv'
  OBVIOUS
<1>0. /\ UNCHANGED <<version, porDrenar, eventos, marcas, leida, indice, faltan, foto,
                     perdidos, pisadas, fallas, caidas>>
      /\ dpc = "reposo" /\ dpc' = "leer" /\ Pendientes # {}
      /\ lote' = {i \in Pendientes : Cardinality({j \in Pendientes : j < i}) < BatchSize}
  BY DEF Tick, SinRequest, negocio, recon
<1>1. Pendientes \in SUBSET Nat /\ IsFiniteSet(Pendientes)
      /\ Pendientes \subseteq DOMAIN eventos
  <2>1. IsFiniteSet(DOMAIN eventos) /\ DOMAIN eventos \subseteq Nat
    BY OutboxTipos, FS_Interval DEF OutboxIInv
  <2> QED BY <2>1, FS_Subset DEF Pendientes
<1>2. lote' # {} /\ Cardinality(lote') <= BatchSize
  BY <1>0, <1>1, OutboxAssumption, LosPrimeros
<1>3. lote' \subseteq Pendientes /\ DOMAIN marcas = {}
  BY <1>0 DEF OutboxIInv, TickReclama
<1>4. OutboxTypeOK'
  BY <1>0, <1>1, <1>2, <1>3 DEF OutboxIInv, OutboxTypeOK
<1>5. \A i \in DOMAIN eventos : Quedara(i)' = Quedara(i)
  BY <1>0 DEF Quedara
<1>6. PendienteConIntentos'
  BY <1>0, <1>5 DEF OutboxIInv, PendienteConIntentos
<1>7. TickReclama'
  BY <1>0, <1>3 DEF TickReclama, Pendientes
<1>8. AtrasadaConVivo' /\ FotoPosible'
  <2>1. \A v \in Venta : Vivos(v)' = Vivos(v) /\ (PorDrenar(v)' <=> PorDrenar(v))
    BY <1>0, <1>5 DEF Vivos, PorDrenar
  <2> QED BY <1>0, <2>1, IndiceIgual
<1>9. LeidaVigente'
  BY <1>0 DEF LeidaVigente
<1> QED BY <1>4, <1>6, <1>7, <1>8, <1>9 DEF OutboxIInv

LEMMA PasoLeer == OutboxIInv /\ Leer => OutboxIInv'
<1> SUFFICES ASSUME OutboxIInv, Leer PROVE OutboxIInv'
  OBVIOUS
<1>0. /\ UNCHANGED <<version, porDrenar, eventos, lote, marcas, indice, faltan, foto,
                     perdidos, pisadas, fallas, caidas>>
      /\ dpc = "leer" /\ dpc' = "indexar" /\ leida' = version[eventos[E].venta]
  BY DEF Leer, SinRequest, negocio, recon
<1>1. E' = E /\ eventos[E].venta \in Venta
  BY <1>0, ElEvento DEF E
<1>2. OutboxTypeOK'
  <2>1. leida' \in 0..MaxCambios
    BY <1>0, <1>1, OutboxTipos DEF OutboxIInv
  <2> QED BY <1>0, <2>1 DEF OutboxIInv, OutboxTypeOK
<1>3. \A i \in DOMAIN eventos : Quedara(i)' = Quedara(i)
  BY <1>0 DEF Quedara
<1>4. PendienteConIntentos'
  BY <1>0, <1>3 DEF OutboxIInv, PendienteConIntentos
<1>5. TickReclama'
  BY <1>0 DEF OutboxIInv, TickReclama
<1>6. AtrasadaConVivo' /\ FotoPosible'
  <2>1. \A v \in Venta : Vivos(v)' = Vivos(v) /\ (PorDrenar(v)' <=> PorDrenar(v))
    BY <1>0, <1>3 DEF Vivos, PorDrenar
  <2> QED BY <1>0, <2>1, IndiceIgual
<1>7. LeidaVigente'
  BY <1>0, <1>1 DEF LeidaVigente
<1> QED BY <1>2, <1>4, <1>5, <1>6, <1>7 DEF OutboxIInv

\* The document is as new as what the handler read, and what it read lacks only
\* what another event brings.
LEMMA PasoIndexar == OutboxIInv /\ Indexar => OutboxIInv'
<1> SUFFICES ASSUME OutboxIInv, Indexar PROVE OutboxIInv'
  OBVIOUS
<1>0. /\ UNCHANGED <<version, porDrenar, eventos, faltan, foto, perdidos, pisadas,
                     fallas, caidas>>
      /\ dpc = "indexar" /\ Seguir
      /\ Marca("procesado", eventos[E].attempts + 1)
      /\ indice' = [indice EXCEPT ![eventos[E].venta] = leida]
  BY DEF Indexar, Escrito, SinRequest, negocio, recon
<1>1. PICK v \in Venta : v = eventos[E].venta
  BY <1>0, ElEvento
<1>2. /\ PendienteConIntentos' /\ TickReclama'
      /\ DOMAIN marcas' \subseteq DOMAIN eventos
      /\ \A i \in DOMAIN marcas' : marcas'[i] \in Evento
      /\ \A u \in Venta : Vivos(u)' = Vivos(u) \ {E}
  BY <1>0, AlMarcar
<1>3. /\ lote' \subseteq lote /\ Cardinality(lote') <= BatchSize
      /\ lote' # {} <=> dpc' \in {"leer", "indexar"}
      /\ dpc' \in {"leer", "commit"} /\ leida' = 0
  BY <1>0, AlSeguir
<1>4. OutboxTypeOK'
  <2>1. indice' \in [Venta -> 0..MaxCambios] /\ leida' \in 0..MaxCambios
    BY <1>0, <1>1, <1>3, OutboxAssumption DEF OutboxIInv, OutboxTypeOK
  <2> QED BY <1>0, <1>2, <1>3, <2>1 DEF OutboxIInv, OutboxTypeOK
<1>5. /\ indice'[v] = leida /\ \A u \in Venta : u # v => indice'[u] = indice[u]
      /\ leida = version[v] \/ PorDrenar(v) \/ Vivos(v) \ {E} # {} \/ v \in perdidos
      /\ \A u \in Venta : u # v => E \notin Vivos(u)
      /\ \A u \in Venta : PorDrenar(u)' <=> PorDrenar(u)
  <2>1. indice'[v] = leida /\ \A u \in Venta : u # v => indice'[u] = indice[u]
    BY <1>0, <1>1 DEF OutboxIInv, OutboxTypeOK
  <2>2. leida = version[v] \/ PorDrenar(v) \/ Vivos(v) \ {E} # {} \/ v \in perdidos
    BY <1>0, <1>1 DEF OutboxIInv, LeidaVigente
  <2>3. \A u \in Venta : u # v => E \notin Vivos(u)
    BY <1>1 DEF Vivos
  <2>4. \A u \in Venta : PorDrenar(u)' <=> PorDrenar(u)
    BY <1>0 DEF PorDrenar
  <2> QED BY <2>1, <2>2, <2>3, <2>4
<1>6. AtrasadaConVivo'
  <2> SUFFICES ASSUME NEW u \in Venta
               PROVE  \/ indice'[u] = version[u] \/ PorDrenar(u)' \/ Vivos(u)' # {}
                      \/ u \in perdidos \cup pisadas
    BY <1>0 DEF AtrasadaConVivo
  <2>1. CASE u = v
    BY <1>2, <1>5, <2>1
  <2>2. CASE u # v
    <3>1. Vivos(u)' = Vivos(u)
      BY <1>2, <1>5, <2>2
    <3> QED BY <1>5, <2>2, <3>1 DEF OutboxIInv, AtrasadaConVivo
  <2> QED BY <2>1, <2>2
<1>7. FotoPosible' /\ LeidaVigente'
  BY <1>0, <1>3 DEF OutboxIInv, FotoPosible, LeidaVigente
<1> QED BY <1>2, <1>4, <1>6, <1>7 DEF OutboxIInv

\* A step of the handler that leaves the event alive, whatever it wrote.
LEMMA SigueVivo ==
  ASSUME OutboxIInv, dpc \in {"leer", "indexar"}, Seguir,
         UNCHANGED <<version, porDrenar, eventos, faltan, foto, perdidos, pisadas, caidas>>,
         fallas' \in 0..MaxFallas,
         (dpc = "indexar" /\ Escrito) \/ UNCHANGED indice,
         PendienteConIntentos', TickReclama', DOMAIN marcas' \subseteq DOMAIN eventos,
         \A i \in DOMAIN marcas' : marcas'[i] \in Evento,
         \A v \in Venta : Vivos(v)' = Vivos(v)
  PROVE  OutboxIInv'
<1>1. PICK v \in Venta : v = eventos[E].venta
  BY ElEvento
<1>2. /\ lote' \subseteq lote /\ Cardinality(lote') <= BatchSize
      /\ lote' # {} <=> dpc' \in {"leer", "indexar"}
      /\ dpc' \in {"leer", "commit"} /\ leida' = 0
  BY AlSeguir
<1>3. /\ indice' \in [Venta -> 0..MaxCambios]
      /\ \A u \in Venta : u # v => indice'[u] = indice[u]
  BY <1>1 DEF OutboxIInv, OutboxTypeOK, Escrito
<1>4. OutboxTypeOK'
  <2>1. leida' \in 0..MaxCambios
    BY <1>2, OutboxAssumption
  <2> QED BY <1>2, <1>3, <2>1 DEF OutboxIInv, OutboxTypeOK
<1>5. AtrasadaConVivo'
  <2> SUFFICES ASSUME NEW u \in Venta
               PROVE  \/ indice'[u] = version[u] \/ PorDrenar(u)' \/ Vivos(u)' # {}
                      \/ u \in perdidos \cup pisadas
    BY DEF AtrasadaConVivo
  <2>1. CASE u = v
    <3>1. E \in Vivos(u)
      BY <1>1, <2>1, ElEvento
    <3> QED BY <3>1
  <2>2. CASE u # v
    <3>1. PorDrenar(u)' <=> PorDrenar(u)
      BY DEF PorDrenar
    <3> QED BY <1>3, <2>2, <3>1 DEF OutboxIInv, AtrasadaConVivo
  <2> QED BY <2>1, <2>2
<1>6. FotoPosible' /\ LeidaVigente'
  BY <1>2 DEF OutboxIInv, FotoPosible, LeidaVigente
<1> QED BY <1>4, <1>5, <1>6 DEF OutboxIInv

LEMMA PasoTransitorio == OutboxIInv /\ IndexarTransitorio => OutboxIInv'
<1> SUFFICES ASSUME OutboxIInv, IndexarTransitorio PROVE OutboxIInv'
  OBVIOUS
<1> DEFINE n == eventos[E].attempts + 1
           estado == IF Agotado(n) THEN "fallido" ELSE "nuevo"
<1>0. /\ UNCHANGED <<version, porDrenar, eventos, faltan, foto, perdidos, pisadas, caidas>>
      /\ dpc = "indexar" /\ Seguir /\ fallas < MaxFallas /\ fallas' = fallas + 1
      /\ Escrito \/ UNCHANGED indice
      /\ Marca(estado, n)
  BY DEF IndexarTransitorio, Fallar, SinRequest, negocio, recon
<1>1. fallas' \in 0..MaxFallas
  BY <1>0, OutboxAssumption DEF OutboxIInv, OutboxTypeOK
<1>2. estado \in {"nuevo", "fallido"} /\ (estado = "nuevo" => n < MaxAttempts)
  <2>1. n \in 1..MaxAttempts /\ MaxAttempts \in Nat
    BY <1>0, ElEvento, OutboxAssumption
  <2> HIDE DEF n
  <2> QED BY <2>1 DEF Agotado
<1> HIDE DEF estado
<1>3. /\ PendienteConIntentos' /\ TickReclama' /\ DOMAIN marcas' \subseteq DOMAIN eventos
      /\ \A i \in DOMAIN marcas' : marcas'[i] \in Evento
      /\ \A v \in Venta : Vivos(v)' = Vivos(v)
  BY <1>0, <1>2, AlMarcar
<1> QED BY <1>0, <1>1, <1>3, SigueVivo

LEMMA PasoFalloPermanente == OutboxIInv /\ FalloPermanente => OutboxIInv'
<1> SUFFICES ASSUME OutboxIInv, FalloPermanente PROVE OutboxIInv'
  OBVIOUS
<1>0. /\ UNCHANGED <<version, porDrenar, eventos, indice, faltan, foto, perdidos, pisadas,
                     caidas>>
      /\ dpc \in {"leer", "indexar"} /\ Seguir
      /\ fallas < MaxFallas /\ fallas' = fallas + 1
      /\ Marca("fallido", eventos[E].attempts + 1)
  BY DEF FalloPermanente, Fallar, SinRequest, negocio, recon
<1>1. fallas' \in 0..MaxFallas
  BY <1>0, OutboxAssumption DEF OutboxIInv, OutboxTypeOK
<1>2. /\ PendienteConIntentos' /\ TickReclama' /\ DOMAIN marcas' \subseteq DOMAIN eventos
      /\ \A i \in DOMAIN marcas' : marcas'[i] \in Evento
      /\ \A v \in Venta : Vivos(v)' = Vivos(v)
  BY <1>0, AlMarcar
<1> QED BY <1>0, <1>1, <1>2, SigueVivo

LEMMA PasoMarcaFalla == OutboxIInv /\ MarcaFalla => OutboxIInv'
<1> SUFFICES ASSUME OutboxIInv, MarcaFalla PROVE OutboxIInv'
  OBVIOUS
<1>0. /\ UNCHANGED <<version, porDrenar, eventos, marcas, faltan, foto, perdidos, pisadas,
                     caidas>>
      /\ dpc \in {"leer", "indexar"} /\ Seguir
      /\ fallas < MaxFallas /\ fallas' = fallas + 1
      /\ (dpc = "indexar" /\ Escrito) \/ UNCHANGED indice
  BY DEF MarcaFalla, Fallar, SinRequest, negocio, recon
<1>1. fallas' \in 0..MaxFallas
  BY <1>0, OutboxAssumption DEF OutboxIInv, OutboxTypeOK
<1>2. \A i \in DOMAIN eventos : Quedara(i)' = Quedara(i)
  BY <1>0 DEF Quedara
<1>3. PendienteConIntentos' /\ \A v \in Venta : Vivos(v)' = Vivos(v)
  BY <1>0, <1>2 DEF OutboxIInv, PendienteConIntentos, Vivos
<1>4. TickReclama'
  <2>1. lote' \subseteq lote /\ dpc' # "reposo"
    BY <1>0, AlSeguir
  <2> QED BY <1>0, <2>1 DEF OutboxIInv, TickReclama
<1>5. DOMAIN marcas' \subseteq DOMAIN eventos
      /\ \A i \in DOMAIN marcas' : marcas'[i] \in Evento
  BY <1>0 DEF OutboxIInv, OutboxTypeOK
<1> QED BY <1>0, <1>1, <1>3, <1>4, <1>5, SigueVivo

LEMMA PasoCommitTick == OutboxIInv /\ CommitTick => OutboxIInv'
<1> SUFFICES ASSUME OutboxIInv, CommitTick PROVE OutboxIInv'
  OBVIOUS
<1>0. /\ UNCHANGED <<version, porDrenar, lote, leida, indice, faltan, foto, perdidos,
                     pisadas, fallas, caidas>>
      /\ dpc = "commit" /\ dpc' = "reposo" /\ DOMAIN marcas' = {}
      /\ eventos' = [i \in DOMAIN eventos |-> Quedara(i)]
  BY DEF CommitTick, SinRequest, negocio, recon
<1>1. /\ DOMAIN eventos' = DOMAIN eventos
      /\ \A i \in DOMAIN eventos : /\ eventos'[i] = Quedara(i) /\ Quedara(i) \in Evento
                                   /\ Quedara(i)' = Quedara(i)
                                   /\ Quedara(i).venta = eventos[i].venta
  <2>1. \A i \in DOMAIN eventos : Quedara(i) \in Evento
    BY LoQueda DEF OutboxIInv
  <2>2. \A i \in DOMAIN eventos : Quedara(i).venta = eventos[i].venta
    BY DEF OutboxIInv, TickReclama, Quedara
  <2>3. DOMAIN eventos' = DOMAIN eventos /\ \A i \in DOMAIN eventos : eventos'[i] = Quedara(i)
    BY <1>0
  <2>4. \A i \in DOMAIN eventos : Quedara(i)' = eventos'[i]
    BY <1>0 DEF Quedara
  <2> QED BY <2>1, <2>2, <2>3, <2>4
<1>2. eventos' \in Seq(Evento)
  <2>1. PICK n \in Nat : DOMAIN eventos = 1..n
    BY OutboxTipos DEF OutboxIInv
  <2>2. eventos' \in [1..n -> Evento]
    BY <1>0, <1>1, <2>1
  <2> QED BY <2>2
<1>3. OutboxTypeOK'
  <2>1. lote = {}
    BY <1>0 DEF OutboxIInv, OutboxTypeOK
  <2> QED BY <1>0, <1>2, <2>1 DEF OutboxIInv, OutboxTypeOK
<1>4. PendienteConIntentos'
  BY <1>1 DEF OutboxIInv, PendienteConIntentos
<1>5. TickReclama'
  <2>1. lote' = {}
    BY <1>0 DEF OutboxIInv, OutboxTypeOK
  <2> QED BY <1>0, <2>1 DEF TickReclama
<1>6. AtrasadaConVivo' /\ FotoPosible'
  <2>1. \A v \in Venta : Vivos(v)' = Vivos(v) /\ (PorDrenar(v)' <=> PorDrenar(v))
    BY <1>0, <1>1 DEF Vivos, PorDrenar
  <2> QED BY <1>0, <2>1, IndiceIgual
<1>7. LeidaVigente'
  BY <1>0 DEF LeidaVigente
<1> QED BY <1>3, <1>4, <1>5, <1>6, <1>7 DEF OutboxIInv

\* Without its marks, what the tick had handled is pending again.
LEMMA AlPerderTick ==
  ASSUME OutboxIInv, SinTick, UNCHANGED eventos
  PROVE  /\ PendienteConIntentos' /\ TickReclama' /\ LeidaVigente'
         /\ \A v \in Venta : Vivos(v) \subseteq Vivos(v)'
         /\ dpc' = "reposo" /\ lote' = {} /\ leida' = 0 /\ DOMAIN marcas' = {}
         /\ Cardinality(lote') <= BatchSize /\ leida' \in 0..MaxCambios
<1>1. dpc' = "reposo" /\ lote' = {} /\ DOMAIN marcas' = {} /\ leida' = 0
  BY DEF SinTick
<1>2. \A i \in DOMAIN eventos : Quedara(i)' = eventos[i]
  BY <1>1 DEF Quedara
<1>3. PendienteConIntentos'
  BY <1>2 DEF OutboxIInv, PendienteConIntentos
<1>4. TickReclama' /\ LeidaVigente'
  BY <1>1 DEF TickReclama, LeidaVigente
<1>5. ASSUME NEW v \in Venta, NEW i \in Vivos(v) PROVE i \in Vivos(v)'
  <2>1. i \in DOMAIN eventos /\ eventos[i].venta = v /\ Quedara(i).estado # "procesado"
    BY DEF Vivos
  <2>2. eventos[i].estado # "procesado"
    BY <2>1 DEF OutboxIInv, TickReclama, Quedara
  <2> QED BY <1>2, <2>1, <2>2 DEF Vivos
<1>6. Cardinality(lote') <= BatchSize /\ leida' \in 0..MaxCambios
  BY <1>1, FS_EmptySet, OutboxAssumption
<1> QED BY <1>1, <1>3, <1>4, <1>5, <1>6

LEMMA PasoAbortarTick == OutboxIInv /\ AbortarTick => OutboxIInv'
<1> SUFFICES ASSUME OutboxIInv, AbortarTick PROVE OutboxIInv'
  OBVIOUS
<1>0. /\ UNCHANGED <<version, porDrenar, eventos, indice, faltan, foto, perdidos, pisadas,
                     fallas>>
      /\ SinTick /\ caidas < MaxCaidas /\ caidas' = caidas + 1
  BY DEF AbortarTick, SinRequest, negocio, recon
<1>1. /\ PendienteConIntentos' /\ TickReclama' /\ LeidaVigente'
      /\ \A v \in Venta : Vivos(v) \subseteq Vivos(v)'
      /\ dpc' = "reposo" /\ lote' = {} /\ DOMAIN marcas' = {}
      /\ Cardinality(lote') <= BatchSize /\ leida' \in 0..MaxCambios
  BY <1>0, AlPerderTick
<1>2. OutboxTypeOK'
  BY <1>0, <1>1, OutboxAssumption DEF OutboxIInv, OutboxTypeOK
<1>3. AtrasadaConVivo' /\ FotoPosible'
  <2>1. \A v \in Venta : PorDrenar(v)' <=> PorDrenar(v)
    BY <1>0 DEF PorDrenar
  <2> QED BY <1>0, <1>1, <2>1, IndiceIgual
<1> QED BY <1>1, <1>2, <1>3 DEF OutboxIInv

\* What the requests had not drained is lost with the process.
LEMMA PasoReinicio == OutboxIInv /\ Reinicio => OutboxIInv'
<1> SUFFICES ASSUME OutboxIInv, Reinicio PROVE OutboxIInv'
  OBVIOUS
<1>0. /\ UNCHANGED <<version, eventos, indice, pisadas, fallas>>
      /\ SinTick /\ caidas < MaxCaidas /\ caidas' = caidas + 1
      /\ porDrenar' = {} /\ perdidos' = perdidos \cup {c.venta : c \in porDrenar}
      /\ faltan' = Venta /\ foto' = {}
  BY DEF Reinicio
<1>1. /\ PendienteConIntentos' /\ TickReclama' /\ LeidaVigente'
      /\ \A v \in Venta : Vivos(v) \subseteq Vivos(v)'
      /\ dpc' = "reposo" /\ lote' = {} /\ DOMAIN marcas' = {}
      /\ Cardinality(lote') <= BatchSize /\ leida' \in 0..MaxCambios
  BY <1>0, AlPerderTick
<1>2. OutboxTypeOK'
  <2>1. perdidos' \subseteq Venta
    BY <1>0 DEF OutboxIInv, OutboxTypeOK, Cambio
  <2> QED BY <1>0, <1>1, <2>1, OutboxAssumption DEF OutboxIInv, OutboxTypeOK
<1>3. \A v \in Venta : PorDrenar(v) => v \in perdidos'
  BY <1>0 DEF PorDrenar
<1>4. AtrasadaConVivo' /\ FotoPosible'
  BY <1>0, <1>1, <1>3 DEF OutboxIInv, AtrasadaConVivo, FotoPosible
<1> QED BY <1>1, <1>2, <1>4 DEF OutboxIInv

\* The steps of the worker are none of the tick's business.
LEMMA LeidaIgual ==
  ASSUME OutboxIInv, UNCHANGED <<version, porDrenar, eventos, dpc, lote, marcas, leida,
                                 perdidos>>
  PROVE  LeidaVigente'
<1>1. E' = E /\ \A v \in Venta : Vivos(v)' = Vivos(v)
  BY DespachoIgual
<1>2. \A v \in Venta : PorDrenar(v)' <=> PorDrenar(v)
  BY DEF PorDrenar
<1> QED BY <1>1, <1>2 DEF OutboxIInv, LeidaVigente

LEMMA PasoReconTick == OutboxIInv /\ ReconTick => OutboxIInv'
<1> SUFFICES ASSUME OutboxIInv, ReconTick PROVE OutboxIInv'
  OBVIOUS
<1>0. /\ UNCHANGED <<version, porDrenar, eventos, dpc, lote, marcas, leida, indice, foto,
                     perdidos, pisadas, fallas, caidas>>
      /\ faltan' = Venta
  BY DEF ReconTick, SinDespacho, negocio, despachador
<1>1. OutboxTypeOK'
  BY <1>0 DEF OutboxIInv, OutboxTypeOK
<1>2. \A v \in Venta : Vivos(v)' = Vivos(v) /\ (PorDrenar(v)' <=> PorDrenar(v))
  BY <1>0, DespachoIgual DEF PorDrenar
<1>3. AtrasadaConVivo' /\ FotoPosible'
  BY <1>0, <1>2, IndiceIgual
<1> QED BY <1>0, <1>1, <1>3, DespachoIgual, LeidaIgual DEF OutboxIInv

LEMMA PasoReconLeer ==
  ASSUME OutboxIInv, NEW v \in Venta, ReconLeer(v)
  PROVE  OutboxIInv'
<1>0. /\ UNCHANGED <<version, porDrenar, eventos, dpc, lote, marcas, leida, indice,
                     perdidos, pisadas, fallas, caidas>>
      /\ foto' = {[venta |-> v, n |-> version[v]]} /\ faltan' = faltan \ {v}
  BY DEF ReconLeer, SinDespacho, negocio, despachador
<1>1. version[v] \in 0..MaxCambios /\ MaxCambios \in Nat
  BY OutboxTipos, OutboxAssumption DEF OutboxIInv
<1>2. OutboxTypeOK'
  <2>1. [venta |-> v, n |-> version[v]] \in [venta: Venta, n: 0..MaxCambios]
    BY <1>1
  <2> QED BY <1>0, <2>1 DEF OutboxIInv, OutboxTypeOK
<1>3. \A u \in Venta : Vivos(u)' = Vivos(u) /\ (PorDrenar(u)' <=> PorDrenar(u))
  BY <1>0, DespachoIgual DEF PorDrenar
<1>4. AtrasadaConVivo'
  BY <1>0, <1>3 DEF OutboxIInv, AtrasadaConVivo
<1>5. FotoPosible'
  BY <1>0, <1>1 DEF FotoPosible
<1> QED BY <1>0, <1>2, <1>4, <1>5, DespachoIgual, LeidaIgual DEF OutboxIInv

\* A page that does not make a document older leaves it as late as it was or less.
LEMMA PasoReconciliar == OutboxIInv /\ Reconciliar => OutboxIInv'
<1> SUFFICES ASSUME OutboxIInv, Reconciliar PROVE OutboxIInv'
  OBVIOUS
<1>0. /\ UNCHANGED <<version, porDrenar, eventos, dpc, lote, marcas, leida, faltan,
                     perdidos, fallas, caidas>>
      /\ foto' = {}
  BY DEF Reconciliar, SinDespacho, negocio, despachador
<1>1. PICK d \in foto :
        /\ indice' = [indice EXCEPT ![d.venta] = d.n]
        /\ pisadas' = IF d.n < indice[d.venta] THEN pisadas \cup {d.venta} ELSE pisadas
  BY DEF Reconciliar
<1>2. d.venta \in Venta /\ d.n \in 0..MaxCambios
  BY DEF OutboxIInv, OutboxTypeOK
<1>3. /\ indice'[d.venta] = d.n
      /\ \A u \in Venta : u # d.venta => indice'[u] = indice[u]
      /\ pisadas \subseteq pisadas' /\ pisadas' \subseteq Venta
      /\ d.n < indice[d.venta] => d.venta \in pisadas'
  BY <1>1, <1>2 DEF OutboxIInv, OutboxTypeOK
<1>4. OutboxTypeOK'
  <2>1. indice' \in [Venta -> 0..MaxCambios]
    BY <1>1, <1>2 DEF OutboxIInv, OutboxTypeOK
  <2> QED BY <1>0, <1>3, <2>1 DEF OutboxIInv, OutboxTypeOK
<1>5. \A u \in Venta : Vivos(u)' = Vivos(u) /\ (PorDrenar(u)' <=> PorDrenar(u))
  BY <1>0, DespachoIgual DEF PorDrenar
<1>6. AtrasadaConVivo'
  <2> SUFFICES ASSUME NEW u \in Venta
               PROVE  \/ indice'[u] = version[u] \/ PorDrenar(u) \/ Vivos(u) # {}
                      \/ u \in perdidos \cup pisadas'
    BY <1>0, <1>5 DEF AtrasadaConVivo
  <2>1. indice[u] = version[u] \/ PorDrenar(u) \/ Vivos(u) # {} \/ u \in perdidos \cup pisadas
    BY DEF OutboxIInv, AtrasadaConVivo
  <2>2. CASE u # d.venta
    BY <1>3, <2>1, <2>2
  <2>3. CASE u = d.venta
    <3>1. d.n <= version[u] /\ d.n \in Nat /\ indice[u] \in Nat /\ version[u] \in Nat
      BY <1>2, <2>3, OutboxTipos DEF OutboxIInv, FotoPosible
    <3>2. d.n < indice[u] \/ indice[u] # version[u] \/ d.n = version[u]
      BY <3>1
    <3> QED BY <1>3, <2>1, <2>3, <3>2
  <2> QED BY <2>2, <2>3
<1>7. FotoPosible'
  BY <1>0 DEF FotoPosible
<1> QED BY <1>0, <1>4, <1>6, <1>7, DespachoIgual, LeidaIgual DEF OutboxIInv

LEMMA PasoReconFalla == OutboxIInv /\ ReconFalla => OutboxIInv'
<1> SUFFICES ASSUME OutboxIInv, ReconFalla PROVE OutboxIInv'
  OBVIOUS
<1>0. /\ UNCHANGED <<version, porDrenar, eventos, dpc, lote, marcas, leida, indice,
                     perdidos, pisadas, caidas>>
      /\ foto' = {} /\ faltan' = {} /\ fallas < MaxFallas /\ fallas' = fallas + 1
  BY DEF ReconFalla, Fallar, SinDespacho, negocio, despachador
<1>1. OutboxTypeOK'
  BY <1>0, OutboxAssumption DEF OutboxIInv, OutboxTypeOK
<1>2. \A u \in Venta : Vivos(u)' = Vivos(u) /\ (PorDrenar(u)' <=> PorDrenar(u))
  BY <1>0, DespachoIgual DEF PorDrenar
<1>3. AtrasadaConVivo' /\ FotoPosible'
  BY <1>0, <1>2 DEF OutboxIInv, AtrasadaConVivo, FotoPosible
<1> QED BY <1>0, <1>1, <1>3, DespachoIgual, LeidaIgual DEF OutboxIInv

LEMMA ReposoOutbox == OutboxIInv /\ UNCHANGED outboxVars => OutboxIInv'
<1> SUFFICES ASSUME OutboxIInv, UNCHANGED outboxVars PROVE OutboxIInv'
  OBVIOUS
<1>0. UNCHANGED <<version, porDrenar, eventos, dpc, lote, marcas, leida, indice, faltan,
                  foto, perdidos, pisadas, fallas, caidas>>
  BY DEF outboxVars, negocio, despachador, recon
<1>1. OutboxTypeOK'
  BY <1>0 DEF OutboxIInv, OutboxTypeOK
<1>2. \A u \in Venta : Vivos(u)' = Vivos(u) /\ (PorDrenar(u)' <=> PorDrenar(u))
  BY <1>0, DespachoIgual DEF PorDrenar
<1>3. AtrasadaConVivo' /\ FotoPosible'
  BY <1>0, <1>2, IndiceIgual
<1> QED BY <1>0, <1>1, <1>3, DespachoIgual, LeidaIgual DEF OutboxIInv

LEMMA InductivaOutbox == OutboxIInv /\ [OutboxNext]_outboxVars => OutboxIInv'
<1> SUFFICES ASSUME OutboxIInv, [OutboxNext]_outboxVars PROVE OutboxIInv'
  OBVIOUS
<1>1. ASSUME NEW v \in Venta, Mutar(v) PROVE OutboxIInv'
  BY <1>1, PasoMutar
<1>2. CASE Drenar
  BY <1>2, PasoDrainEvents, PasoEnqueueFalla DEF Drenar
<1>3. CASE Tick
  BY <1>3, PasoTick
<1>4. CASE Procesar
  BY <1>4, PasoLeer, PasoIndexar, PasoTransitorio, PasoFalloPermanente, PasoMarcaFalla,
     PasoCommitTick DEF Procesar
<1>5. CASE AbortarTick
  BY <1>5, PasoAbortarTick
<1>6. CASE ReconTick
  BY <1>6, PasoReconTick
<1>7. CASE ReconPaso
  BY <1>7, PasoReconLeer, PasoReconciliar, PasoReconFalla DEF ReconPaso
<1>8. CASE Reinicio
  BY <1>8, PasoReinicio
<1>9. CASE UNCHANGED outboxVars
  BY <1>9, ReposoOutbox
<1> QED BY <1>1, <1>2, <1>3, <1>4, <1>5, <1>6, <1>7, <1>8, <1>9 DEF OutboxNext

-----------------------------------------------------------------------------
(* The theorems of the outbox *)

\* The inductive invariant of the outbox and the index holds for any ventas, batch
\* size, attempts, failures and restarts.
THEOREM OutboxInvariante == OutboxSpec => []OutboxIInv
<1>1. OutboxInit => OutboxIInv
  BY AlEmpezarOutbox
<1>2. OutboxIInv /\ [OutboxNext]_outboxVars => OutboxIInv'
  BY InductivaOutbox
<1> QED BY <1>1, <1>2, PTL DEF OutboxSpec

\* A venta the index has out of date has an event that is pending, to be drained or
\* failed for good, unless its event was never enqueued or a page overwrote it.
THEOREM NingunaOlvidada == OutboxSpec => []AtrasadaConEvento
<1>1. OutboxIInv => AtrasadaConEvento
  <2> SUFFICES ASSUME OutboxIInv, NEW v \in Venta, indice[v] # version[v],
                      v \notin perdidos \cup pisadas, ~PorDrenar(v)
               PROVE  \E i \in DOMAIN eventos :
                        eventos[i].venta = v /\ eventos[i].estado \in {"nuevo", "fallido"}
    BY DEF AtrasadaConEvento, PorDrenar
  <2>1. PICK i : i \in Vivos(v)
    BY DEF OutboxIInv, AtrasadaConVivo
  <2>2. i \in DOMAIN eventos /\ eventos[i].venta = v /\ Quedara(i).estado # "procesado"
    BY <2>1 DEF Vivos
  <2>3. eventos[i] \in Evento /\ eventos[i].estado # "procesado"
    BY <2>2, OutboxTipos DEF OutboxIInv, TickReclama, Quedara
  <2> QED BY <2>2, <2>3 DEF Evento
<1> QED BY <1>1, OutboxInvariante, PTL

\* No event is lost or changes venta, and one that was processed or failed for
\* good stays as it is: a tick that repeats after losing its marks does not touch it.
THEOREM EventoFinal ==
  OutboxSpec =>
    [][\A i \in DOMAIN eventos :
         /\ i \in DOMAIN eventos' /\ eventos'[i].venta = eventos[i].venta
         /\ eventos[i].estado # "nuevo" => eventos'[i] = eventos[i]]_outboxVars
<1> DEFINE Final ==
      \A i \in DOMAIN eventos :
        /\ i \in DOMAIN eventos' /\ eventos'[i].venta = eventos[i].venta
        /\ eventos[i].estado # "nuevo" => eventos'[i] = eventos[i]
<1>1. OutboxIInv /\ [OutboxNext]_outboxVars => [Final]_outboxVars
  <2> SUFFICES ASSUME OutboxIInv, OutboxNext PROVE Final
    OBVIOUS
  <2>1. CASE UNCHANGED eventos
    BY <2>1
  <2>2. ASSUME NEW c \in porDrenar, DrainEvents(c) PROVE Final
    <3>1. eventos \in Seq(Evento)
      BY OutboxTipos DEF OutboxIInv
    <3> DEFINE nuevo == [venta |-> c.venta, n |-> c.n, estado |-> "nuevo", attempts |-> 0]
    <3>2. eventos' = Append(eventos, nuevo)
      BY <2>2 DEF DrainEvents
    <3> HIDE DEF nuevo
    <3>3. DOMAIN eventos \subseteq DOMAIN eventos'
          /\ \A i \in DOMAIN eventos : eventos'[i] = eventos[i]
      BY <3>1, <3>2
    <3> QED BY <3>3
  <2>3. CASE CommitTick
    <3>1. eventos' = [i \in DOMAIN eventos |-> Quedara(i)]
      BY <2>3 DEF CommitTick
    <3>2. \A i \in DOMAIN eventos :
            /\ Quedara(i).venta = eventos[i].venta
            /\ eventos[i].estado # "nuevo" => Quedara(i) = eventos[i]
      BY DEF OutboxIInv, TickReclama, Quedara
    <3> QED BY <3>1, <3>2
  <2> QED BY <2>1, <2>2, <2>3 DEF OutboxNext, Mutar, Drenar, EnqueueFalla, Tick, Procesar,
           Leer, Indexar, IndexarTransitorio, FalloPermanente, MarcaFalla, AbortarTick,
           ReconTick, ReconPaso, ReconLeer, Reconciliar, ReconFalla, SinDespacho, Reinicio
<1> QED BY <1>1, OutboxInvariante, PTL DEF OutboxSpec
=============================================================================
