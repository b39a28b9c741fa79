------------------------- MODULE SyncCobranza_proofs -------------------------
(***************************************************************************)
(* What the two readers of the changes of cobranza promise, both under the *)
(* watermark of MON$TRANSACTIONS.  The listener (EscuchaCambios), for any  *)
(* topics, batch size and writers, under drops and failed queries: its     *)
(* cursor is never in history or in the future, and it leaves a row behind *)
(* only for one of two reasons.  The sync of the caches (CursorSync), for  *)
(* any rows, page size and writers: what its cursor leaves behind was      *)
(* overtaken by a version that a page delivered.                           *)
(***************************************************************************)
EXTENDS EscuchaCambios, CursorSync, FiniteSetTheorems, WellFoundedInduction, TLAPS

USE EscuchaAssumption, TransaccionesAssumption

-----------------------------------------------------------------------------
(* Least and greatest elements *)

LEMMA UnMinimo ==
  ASSUME NEW S, NEW T, T \subseteq FiniteSubsetsOf(S), T # {}
  PROVE  \E m \in T : \A t \in T : ~(<<t, m>> \in StrictSubsetOrdering(S))
<1> DEFINE R == StrictSubsetOrdering(S)
           U == FiniteSubsetsOf(S)
<1>1. IsWellFoundedOn(R, U)
  BY FS_StrictSubsetOrderingWellFounded
<1>2. T \subseteq U
  OBVIOUS
<1> HIDE DEF R, U
<1>3. \E m \in T : \A t \in T : ~(<<t, m>> \in R)
  BY <1>1, <1>2, WFMin
<1> QED BY <1>3 DEF R

LEMMA ElMenor ==
  ASSUME NEW S \in SUBSET Nat, S # {}
  PROVE  \E x \in S : \A y \in S : x <= y
<1> DEFINE Hasta(x) == {y \in S : y <= x}
           Tramos == {Hasta(x) : x \in S}
<1>1. Tramos \subseteq FiniteSubsetsOf(S) /\ Tramos # {}
  <2>1. ASSUME NEW x \in S PROVE Hasta(x) \in SUBSET S /\ IsFiniteSet(Hasta(x))
    <3>1. Hasta(x) \in SUBSET Nat /\ x \in Nat /\ \A y \in Hasta(x) : y <= x
      OBVIOUS
    <3> QED BY <3>1, FS_BoundedSetOfNaturals
  <2> QED BY <2>1 DEF FiniteSubsetsOf
<1>2. PICK m \in Tramos : \A t \in Tramos : ~(<<t, m>> \in StrictSubsetOrdering(S))
  <2> HIDE DEF Tramos
  <2> QED BY <1>1, UnMinimo
<1>3. PICK x \in S : m = Hasta(x)
  BY <1>2
<1>4. ASSUME NEW y \in S, y < x PROVE FALSE
  <2>0. x \in Nat /\ y \in Nat /\ \A z \in S : z \in Nat /\ (z <= y => z <= x)
    BY <1>4
  <2>1. Hasta(y) \in Tramos /\ Hasta(y) \subseteq Hasta(x)
    BY <2>0
  <2>2. x \in Hasta(x) /\ x \notin Hasta(y)
    BY <1>4
  <2>3. <<Hasta(y), Hasta(x)>> \in StrictSubsetOrdering(S)
    BY <2>1, <2>2 DEF StrictSubsetOrdering
  <2> QED BY <1>2, <1>3, <2>1, <2>3
<1>5. \A y \in S : x <= y
  BY <1>4
<1> QED BY <1>5

LEMMA ElMayor ==
  ASSUME NEW S \in SUBSET Nat, S # {}, NEW n \in Nat, \A x \in S : x <= n
  PROVE  \E x \in S : \A y \in S : y <= x
<1> DEFINE T == {n - x : x \in S}
<1>1. T \in SUBSET Nat /\ T # {}
  <2>1. \A x \in S : n - x \in Nat
    OBVIOUS
  <2> QED BY <2>1
<1>2. PICK z \in T : \A y \in T : z <= y
  BY <1>1, ElMenor
<1>3. PICK x \in S : z = n - x
  BY <1>2
<1>4. \A y \in S : n - x <= n - y
  BY <1>2, <1>3
<1> QED BY <1>4

\* The watermark is below every active transaction, or there is none.
LEMMA LaMarca ==
  ASSUME TxTypeOK
  PROVE  /\ Watermark \in 0..Sentinela
         /\ \A t \in activas : Watermark <= t
         /\ Watermark = Sentinela \/ Watermark < sigTx
<1>1. activas \in SUBSET Nat /\ sigTx \in Nat /\ Sentinela \in Nat
      /\ \A t \in activas : t < sigTx /\ t < Sentinela
  BY DEF TxTypeOK, Sentinela
<1>2. CASE activas = {}
  BY <1>1, <1>2 DEF Watermark
<1>3. CASE activas # {}
  <2>1. Watermark \in activas /\ \A t \in activas : Watermark <= t
    BY <1>1, <1>3, ElMenor DEF Watermark
  <2> QED BY <1>1, <2>1
<1> QED BY <1>2, <1>3

LEMMA LosTipos ==
  ASSUME TypeOK
  PROVE  /\ sigTx \in Nat /\ Sentinela \in Nat /\ MaxSeq \in Nat
         /\ \A e \in registro : /\ e \in Fila /\ e.tema \in Tema /\ e.tx \in Nat
                                /\ e.seq \in Nat /\ 0 < e.seq /\ e.seq <= MaxSeq
         /\ \A t \in Tema : /\ sigSeq[t] \in Nat /\ lastSeenSeq[t] \in 0..MaxSeq
                            /\ inicio[t] \in 0..MaxSeq
         /\ \A h \in Hilo : /\ pc[h] \in Paso /\ temas[h] \subseteq Tema
                            /\ wm[h] \in Nat /\ desde[h] \in Nat
                            /\ filas[h] \subseteq Fila
  BY DEF TypeOK, TxTypeOK, Fila, Tx, Sentinela

LEMMA ElActual ==
  ASSUME TypeOK, NEW h \in Hilo,
         pc[h] \in {"sondear", "leer", "consultar", "publicar", "avanzar"}
  PROVE  Actual(h) \in temas[h] /\ Actual(h) \in Tema
<1>1. temas[h] # {} /\ temas[h] \subseteq Tema
  BY DEF TypeOK
<1> QED BY <1>1 DEF Actual

\* MaxSeqID is the seq of a row, or zero, and in any case none of the future.
LEMMA ElMayorSeq ==
  ASSUME TypeOK, EnOrden, NEW t \in Tema, NEW w
  PROVE  MaxSeqID(t, w) \in 0..MaxSeq /\ MaxSeqID(t, w) < sigSeq[t]
<1> DEFINE vistas == {f \in Visibles : f.tema = t /\ f.tx < w}
           seqs == {f.seq : f \in vistas}
<1>1. /\ vistas \subseteq registro
      /\ \A f \in vistas : f.tema = t /\ f.seq \in 0..MaxSeq /\ f.seq < sigSeq[t]
  BY LosTipos DEF Visibles, EnOrden
<1>2. sigSeq[t] \in Nat /\ 0 < sigSeq[t] /\ MaxSeq \in Nat
  BY DEF TypeOK
<1>3. CASE vistas = {}
  BY <1>2, <1>3 DEF MaxSeqID
<1>4. CASE vistas # {}
  <2>0. seqs \in SUBSET Nat /\ seqs # {} /\ \A y \in seqs : y <= MaxSeq
    BY <1>1, <1>2, <1>4
  <2>1. PICK m \in seqs : \A y \in seqs : y <= m
    <3> HIDE DEF seqs
    <3> QED BY <1>2, <2>0, ElMayor
  <2>2. PICK f \in vistas : \A g \in vistas : g.seq <= f.seq
    BY <2>1
  <2>3. PICK g \in vistas : MaxSeqID(t, w) = g.seq
    BY <1>4, <2>2 DEF MaxSeqID
  <2> QED BY <1>1, <2>3
<1> QED BY <1>3, <1>4

-----------------------------------------------------------------------------
(* What steps of others leave as it is *)

\* What is published stays published, the transactions and the changelogs only
\* grow at their end, and rows go only with their transaction.
Avanza ==
  /\ inicio' = inicio
  /\ publicadas \subseteq publicadas' /\ sinMarca \subseteq sinMarca'
  /\ sigTx' \in Nat /\ sigTx <= sigTx' /\ activas' \subseteq activas \cup {sigTx}
  /\ \A t \in Tema : sigSeq'[t] \in Nat /\ sigSeq[t] <= sigSeq'[t]
  /\ \A e \in registro' \ registro :
       e.tema \in Tema /\ e.seq \in Nat /\ sigSeq[e.tema] <= e.seq

LEMMA SigueCausa == ASSUME Avanza, NEW e, Causa(e) PROVE Causa(e)'
BY DEF Avanza, Causa

LEMMA SigueHasta ==
  ASSUME TypeOK, Avanza, NEW t \in Tema, NEW b \in Nat, HastaAqui(t, b)
  PROVE  HastaAqui(t, b)'
<1>1. sigSeq[t] \in Nat /\ b < sigSeq[t] /\ inicio[t] <= b
  BY LosTipos DEF HastaAqui
<1>2. inicio'[t] <= b /\ b < sigSeq'[t]
  BY <1>1 DEF Avanza
<1>3. ASSUME NEW e \in registro' \ publicadas', e.tema = t, inicio[t] < e.seq, e.seq <= b
      PROVE  Causa(e)'
  <2>1. e \in registro
    BY <1>1, <1>3 DEF Avanza
  <2>2. e \notin publicadas
    BY DEF Avanza
  <2> QED BY <1>3, <2>1, <2>2, SigueCausa DEF HastaAqui
<1> QED BY <1>2, <1>3 DEF HastaAqui, Avanza

Quieto(h) ==
  /\ pc'[h] = pc[h] /\ temas'[h] = temas[h] /\ wm'[h] = wm[h]
  /\ desde'[h] = desde[h] /\ filas'[h] = filas[h]

LEMMA SigueEnMano ==
  ASSUME TypeOK, EnOrden, Avanza, NEW h \in Hilo, Quieto(h), EnMano(h)
  PROVE  EnMano(h)'
<1>1. Actual(h)' = Actual(h)
  BY DEF Actual, Quieto
<1>2. wm[h] \in Nat /\ desde[h] \in Nat /\ sigTx \in Nat
      /\ \A f \in filas[h] : f \in registro /\ f.seq \in Nat /\ f.tema \in Tema
                             /\ f.seq < sigSeq[f.tema] /\ sigSeq[f.tema] \in Nat
  BY LosTipos DEF EnOrden, Visibles
<1>3. ASSUME pc[h] \in {"leer", "consultar", "publicar", "avanzar"}
      PROVE  \/ wm[h] = Sentinela
             \/ wm[h] < sigTx' /\ \A t \in activas' : wm[h] <= t
  <2>1. CASE wm[h] = Sentinela
    BY <2>1
  <2>2. CASE wm[h] < sigTx /\ \A t \in activas : wm[h] <= t
    BY <1>2, <2>2 DEF Avanza
  <2> QED BY <1>3, <2>1, <2>2 DEF EnMano
<1>4. ASSUME pc[h] \in {"consultar", "publicar", "avanzar"}
      PROVE  HastaAqui(Actual(h), desde[h])'
  <2>1. HastaAqui(Actual(h), desde[h]) /\ Actual(h) \in Tema
    BY <1>4, ElActual DEF EnMano
  <2>2. PICK t \in Tema : t = Actual(h)
    BY <2>1
  <2>3. PICK b \in Nat : b = desde[h]
    BY <1>2
  <2>4. HastaAqui(t, b)'
    BY <2>1, <2>2, <2>3, SigueHasta
  <2> QED BY <1>1, <2>2, <2>3, <2>4 DEF Quieto, HastaAqui
<1>5. ASSUME pc[h] = "avanzar", NEW f \in filas[h]
      PROVE  HastaAqui(Actual(h), f.seq)'
  <2>1. HastaAqui(Actual(h), f.seq) /\ Actual(h) \in Tema
    BY <1>5, ElActual DEF EnMano
  <2>2. PICK t \in Tema : t = Actual(h)
    BY <2>1
  <2>3. HastaAqui(t, f.seq)'
    BY <1>2, <2>1, <2>2, SigueHasta
  <2> QED BY <1>1, <2>2, <2>3 DEF HastaAqui
<1>6. ASSUME pc[h] = "publicar", NEW e \in registro' \ (publicadas' \cup filas[h]),
             NEW f \in filas[h], e.tema = f.tema, inicio[e.tema] < e.seq, e.seq < f.seq
      PROVE  Causa(e)' \/ f.tx < e.tx \/ wm[h] = Sentinela
  <2>1. e \in registro
    BY <1>2, <1>6 DEF Avanza
  <2>2. e \notin publicadas
    BY <1>6 DEF Avanza
  <2>3. Causa(e) \/ f.tx < e.tx \/ wm[h] = Sentinela
    BY <1>6, <2>1, <2>2 DEF EnMano
  <2> QED BY <2>3, SigueCausa
<1>7. \A f \in filas[h] : f.tema = Actual(h) /\ desde[h] < f.seq
  BY DEF EnMano
<1>8. inicio' = inicio /\ Sentinela' = Sentinela
  BY DEF Avanza, Sentinela
<1> QED BY <1>1, <1>3, <1>4, <1>5, <1>6, <1>7, <1>8 DEF EnMano, Quieto

\* The writers' steps, as the listener sees them.
LEMMA SigueTodo ==
  ASSUME IInv, Avanza, TypeOK', EnOrden',
         UNCHANGED <<pc, temas, wm, desde, filas, lastSeenSeq, publicadas>>
  PROVE  IInv'
<1>1. \A h \in Hilo : EnMano(h)'
  BY SigueEnMano DEF IInv, Quieto
<1>2. ASSUME NEW t \in Tema PROVE HastaAqui(t, lastSeenSeq[t])'
  <2>1. PICK b \in Nat : b = lastSeenSeq[t]
    BY LosTipos DEF IInv
  <2>2. HastaAqui(t, b)'
    BY <2>1, SigueHasta DEF IInv
  <2> QED BY <2>1, <2>2 DEF HastaAqui
<1>3. SinHistoria'
  BY DEF IInv, SinHistoria, Avanza
<1> QED BY <1>1, <1>2, <1>3 DEF IInv

-----------------------------------------------------------------------------
(* The writers and the connection *)

LEMMA EmpezarFija == ASSUME IInv, Empezar PROVE IInv'
<1>1. /\ sigTx <= MaxTx /\ activas' = activas \cup {sigTx} /\ sigTx' = sigTx + 1
      /\ sigTx \in Nat /\ sigTx \in 1..(MaxTx + 1) /\ MaxTx \in Nat
      /\ activas \subseteq 1..(sigTx - 1)
      /\ UNCHANGED <<pc, temas, wm, desde, filas, lastSeenSeq, lastObserved, inicio,
                     publicadas, avisadas, sinMarca, fallas, registro, sigSeq,
                     evento, suscrito, caidas>>
  BY DEF Empezar, Begin, SinOyente, IInv, TypeOK, TxTypeOK, TransaccionesAssumption
<1>2. Avanza
  BY <1>1, LosTipos DEF Avanza, IInv
<1>3. TxTypeOK'
  BY <1>1 DEF TxTypeOK
<1>4. TypeOK'
  BY <1>1, <1>3 DEF IInv, TypeOK
<1>5. Visibles' = Visibles
  BY <1>1, LosTipos DEF Visibles, IInv, EnOrden
<1>6. \A e \in registro : e.tx \in Nat /\ e.tx < sigTx'
  BY <1>1, LosTipos DEF IInv, EnOrden
<1>7. EnOrden'
  BY <1>1, <1>5, <1>6 DEF IInv, EnOrden
<1> QED BY <1>1, <1>2, <1>4, <1>7, SigueTodo

LEMMA EscribirFija ==
  ASSUME IInv, NEW x \in activas, NEW t \in Tema, Escribir(x, t)
  PROVE  IInv'
<1> DEFINE nueva == [tema |-> t, seq |-> sigSeq[t], tx |-> x]
<1>1. /\ registro' = registro \cup {nueva} /\ sigSeq' = [sigSeq EXCEPT ![t] = @ + 1]
      /\ sigSeq[t] <= MaxSeq
      /\ UNCHANGED <<pc, temas, wm, desde, filas, lastSeenSeq, lastObserved, inicio,
                     publicadas, avisadas, sinMarca, fallas, sigTx, activas,
                     evento, suscrito, caidas>>
  BY DEF Escribir, SinOyente
<1>2. /\ sigSeq \in [Tema -> 1..(MaxSeq + 1)] /\ MaxSeq \in Nat /\ MaxTx \in Nat
      /\ sigTx \in 1..(MaxTx + 1) /\ activas \subseteq 1..(sigTx - 1)
  BY DEF IInv, TypeOK, TxTypeOK, EscuchaAssumption, TransaccionesAssumption
<1>3. /\ sigSeq[t] \in Nat /\ sigSeq[t] \in 1..MaxSeq
      /\ x \in Tx /\ x < sigTx /\ sigTx \in Nat
  BY <1>1, <1>2 DEF Tx
<1>4. /\ nueva \in Fila /\ nueva.tema = t /\ nueva.seq = sigSeq[t] /\ nueva.tx = x
  BY <1>3 DEF Fila
<1> HIDE DEF nueva
<1>5. /\ sigSeq' \in [Tema -> 1..(MaxSeq + 1)] /\ sigSeq'[t] = sigSeq[t] + 1
      /\ \A u \in Tema \ {t} : sigSeq'[u] = sigSeq[u]
  BY <1>1, <1>2, <1>3
<1>6. Avanza
  BY <1>1, <1>2, <1>3, <1>4, <1>5 DEF Avanza
<1>7. TypeOK'
  BY <1>1, <1>4, <1>5 DEF IInv, TypeOK, TxTypeOK, Sentinela
<1>8. Visibles' = Visibles
  BY <1>1, <1>4 DEF Visibles
<1>9. EnOrden'
  <2>1. IsFiniteSet(registro')
    BY <1>1, FS_AddElement DEF IInv, EnOrden
  <2>2. \A e \in registro : e.tema \in Tema /\ e.seq \in Nat /\ e.seq < sigSeq[e.tema]
                            /\ e.tx < sigTx
    BY LosTipos DEF IInv, EnOrden
  <2>3. \A e \in registro' : e.seq < sigSeq'[e.tema] /\ e.tx < sigTx'
    <3>1. \A e \in registro : e.seq < sigSeq'[e.tema]
      BY <1>3, <1>5, <2>2
    <3>2. nueva.seq < sigSeq'[nueva.tema]
      BY <1>3, <1>4, <1>5
    <3> QED BY <1>1, <1>3, <1>4, <2>2, <3>1, <3>2
  <2>4. \A e, f \in registro' : e.tema = f.tema /\ e.seq = f.seq => e = f
    <3>1. \A e \in registro : e.tema = t => e.seq # sigSeq[t]
      BY <1>3, <2>2
    <3>2. \A e, f \in registro : e.tema = f.tema /\ e.seq = f.seq => e = f
      BY DEF IInv, EnOrden
    <3> QED BY <1>1, <1>4, <3>1, <3>2
  <2> QED BY <1>1, <1>8, <2>1, <2>3, <2>4 DEF IInv, EnOrden
<1> QED BY <1>1, <1>6, <1>7, <1>9, SigueTodo

LEMMA FinFija ==
  ASSUME IInv, NEW x \in activas, Confirmar(x) \/ Revertir(x)
  PROVE  IInv'
<1>1. /\ activas' = activas \ {x} /\ sigTx' = sigTx
      /\ registro' = registro \/ registro' = {f \in registro : f.tx # x}
      /\ UNCHANGED <<pc, temas, wm, desde, filas, lastSeenSeq, lastObserved, inicio,
                     publicadas, avisadas, sinMarca, fallas, sigSeq, suscrito, caidas>>
  BY DEF Confirmar, Revertir, Fin, SinOyente
<1>2. evento' \subseteq Tema
  BY LosTipos DEF Confirmar, Revertir, IInv, TypeOK
<1>3. Avanza
  BY <1>1, LosTipos DEF Avanza, IInv
<1>4. TypeOK'
  BY <1>1, <1>2 DEF IInv, TypeOK, TxTypeOK, Sentinela
<1>5. Visibles \subseteq Visibles' /\ registro' \subseteq registro
  BY <1>1 DEF Visibles
<1>6. IsFiniteSet(registro')
  BY <1>5, FS_Subset DEF IInv, EnOrden
<1>7. EnOrden'
  BY <1>1, <1>5, <1>6 DEF IInv, EnOrden
<1> QED BY <1>1, <1>3, <1>4, <1>7, SigueTodo

LEMMA CaidaFija == ASSUME IInv, Caida PROVE IInv'
<1>1. /\ UNCHANGED <<pc, temas, wm, desde, filas, lastSeenSeq, lastObserved, inicio,
                     publicadas, avisadas, sinMarca, fallas, sigTx, activas,
                     registro, sigSeq>>
      /\ suscrito' = FALSE /\ evento' \subseteq evento
      /\ caidas < MaxCaidas /\ caidas' = caidas + 1
  BY DEF Caida, SinOyente, entorno
<1>2. Avanza
  BY <1>1, LosTipos DEF Avanza, IInv
<1>3. caidas' \in 0..MaxCaidas
  BY <1>1 DEF IInv, TypeOK, EscuchaAssumption
<1>4. TypeOK'
  BY <1>1, <1>3 DEF IInv, TypeOK, TxTypeOK, Sentinela
<1>5. EnOrden'
  BY <1>1 DEF IInv, EnOrden, Visibles
<1> QED BY <1>1, <1>2, <1>4, <1>5, SigueTodo

-----------------------------------------------------------------------------
(* The goroutines *)

LEMMA SigueCursor ==
  ASSUME IInv, Avanza, lastSeenSeq' = lastSeenSeq, NEW t \in Tema
  PROVE  HastaAqui(t, lastSeenSeq[t])'
<1>1. PICK b \in Nat : b = lastSeenSeq[t]
  BY LosTipos DEF IInv
<1>2. HastaAqui(t, b)'
  BY <1>1, SigueHasta DEF IInv
<1> QED BY <1>1, <1>2 DEF HastaAqui

\* A step of goroutine h, with the writers standing still.
PasoDe(h) ==
  /\ UNCHANGED <<entorno, inicio>>
  /\ publicadas \subseteq publicadas' /\ sinMarca \subseteq sinMarca'
  /\ \A g \in Hilo \ {h} : Quieto(g)

LEMMA PasoAvanza ==
  ASSUME IInv, NEW h \in Hilo, PasoDe(h)
  PROVE  /\ Avanza /\ Visibles' = Visibles /\ Sentinela' = Sentinela
         /\ sigTx' = sigTx /\ activas' = activas /\ registro' = registro
         /\ sigSeq' = sigSeq /\ inicio' = inicio
  BY LosTipos DEF PasoDe, entorno, Avanza, Visibles, IInv, Sentinela

LEMMA HiloSigue ==
  ASSUME IInv, NEW h \in Hilo, PasoDe(h), TypeOK', EnMano(h)', SinHistoria',
         \A t \in Tema : HastaAqui(t, lastSeenSeq[t])',
         publicadas' \subseteq Visibles, filas'[h] \subseteq Visibles,
         pc'["loop"] # "arranque"
  PROVE  IInv'
<1>1. \A g \in Hilo : EnMano(g)'
  <2>1. ASSUME NEW g \in Hilo \ {h} PROVE EnMano(g)'
    BY PasoAvanza, SigueEnMano DEF PasoDe, IInv
  <2> QED BY <2>1
<1>2. EnOrden'
  <2>1. \A g \in Hilo : filas'[g] \subseteq Visibles
    BY DEF PasoDe, Quieto, IInv, EnOrden
  <2> QED BY <2>1, PasoAvanza DEF IInv, EnOrden
<1> QED BY <1>1, <1>2 DEF IInv

\* What a goroutine is doing and has in its hands, with its types.
LEMMA ManosTipadas ==
  ASSUME TypeOK, NEW h \in Hilo
  PROVE  /\ pc \in [Hilo -> Paso] /\ temas \in [Hilo -> SUBSET Tema]
         /\ wm \in [Hilo -> 0..Sentinela] /\ desde \in [Hilo -> 0..MaxSeq]
         /\ filas \in [Hilo -> SUBSET Fila] /\ Sentinela \in Nat /\ MaxSeq \in Nat
         /\ lastSeenSeq \in [Tema -> 0..MaxSeq]
         /\ publicadas \subseteq Fila /\ avisadas \subseteq Fila
         /\ Visibles \subseteq Fila /\ sinMarca \subseteq publicadas
         /\ (temas[h] # {} <=>
              pc[h] \in {"sondear", "leer", "consultar", "publicar", "avanzar"})
         /\ (filas[h] # {} <=> pc[h] \in {"publicar", "avanzar"})
BY DEF TypeOK, Sentinela, TransaccionesAssumption, EscuchaAssumption, Visibles

\* Types are kept by a step that keeps those of what goroutine h touches.
LEMMA PasoTipado ==
  ASSUME IInv, NEW h \in Hilo, PasoDe(h),
         pc' \in [Hilo -> Paso], temas' \in [Hilo -> SUBSET Tema],
         wm' \in [Hilo -> 0..Sentinela], desde' \in [Hilo -> 0..MaxSeq],
         filas' \in [Hilo -> SUBSET Fila], lastSeenSeq' \in [Tema -> 0..MaxSeq],
         evento' \subseteq Tema, suscrito' \in BOOLEAN,
         lastObserved' \in 0..Sentinela,
         publicadas' \subseteq Fila, avisadas' \subseteq Fila,
         sinMarca' \subseteq publicadas',
         caidas' \in 0..MaxCaidas, fallas' \in 0..MaxFallas,
         temas'[h] # {} <=>
           pc'[h] \in {"sondear", "leer", "consultar", "publicar", "avanzar"},
         filas'[h] # {} <=> pc'[h] \in {"publicar", "avanzar"}
  PROVE  TypeOK'
<1>1. TxTypeOK'
  BY PasoAvanza DEF IInv, TypeOK, TxTypeOK
<1>2. ASSUME NEW g \in Hilo
      PROVE  /\ temas'[g] # {} <=>
                  pc'[g] \in {"sondear", "leer", "consultar", "publicar", "avanzar"}
             /\ filas'[g] # {} <=> pc'[g] \in {"publicar", "avanzar"}
  <2>1. CASE g = h
    BY <2>1
  <2>2. CASE g # h
    BY <2>2 DEF PasoDe, Quieto, IInv, TypeOK
  <2> QED BY <2>1, <2>2
<1>3. registro' = registro /\ sigSeq' = sigSeq /\ inicio' = inicio
      /\ Sentinela' = Sentinela
  BY PasoAvanza
<1>4. registro' \subseteq Fila /\ sigSeq' \in [Tema -> 1..(MaxSeq + 1)]
      /\ inicio' \in [Tema -> 0..MaxSeq]
  BY <1>3 DEF IInv, TypeOK
<1> QED BY <1>1, <1>2, <1>3, <1>4 DEF TypeOK

\* The loop is past Start once a goroutine handles anything.
LEMMA YaArranco ==
  ASSUME IInv, NEW h \in Hilo, pc[h] \notin {"arranque", "parado"}
  PROVE  pc["loop"] # "arranque"
BY DEF IInv, Hilo

\* A goroutine that returns from handleEvent holds nothing.
LEMMA RetornarSuelta ==
  ASSUME IInv, NEW h \in Hilo, PasoDe(h), Retornar(h),
         pc[h] \in {"sondear", "leer", "consultar", "publicar", "avanzar"}
  PROVE  /\ pc' \in [Hilo -> Paso] /\ temas' \in [Hilo -> SUBSET Tema]
         /\ wm' \in [Hilo -> 0..Sentinela] /\ desde' \in [Hilo -> 0..MaxSeq]
         /\ filas' \in [Hilo -> SUBSET Fila] /\ filas'[h] = {}
         /\ pc'[h] \in {"sondear", "drenar", "reposo"}
         /\ temas'[h] # {} <=> pc'[h] = "sondear"
         /\ EnMano(h)' /\ pc'["loop"] # "arranque"
<1>0. TypeOK
  BY DEF IInv
<1>1. Actual(h) \in temas[h]
  BY <1>0, ElActual
<1>2. /\ temas' = [temas EXCEPT ![h] = temas[h] \ {Actual(h)}]
      /\ pc' = [pc EXCEPT ![h] =
              IF temas[h] # {Actual(h)} THEN "sondear"
              ELSE IF h = "loop" THEN "drenar" ELSE "reposo"]
      /\ wm' = [wm EXCEPT ![h] = 0] /\ desde' = [desde EXCEPT ![h] = 0]
      /\ filas' = [filas EXCEPT ![h] = {}]
  BY DEF Retornar
<1>3. /\ pc' \in [Hilo -> Paso] /\ temas' \in [Hilo -> SUBSET Tema]
      /\ wm' \in [Hilo -> 0..Sentinela] /\ desde' \in [Hilo -> 0..MaxSeq]
      /\ filas' \in [Hilo -> SUBSET Fila] /\ filas'[h] = {}
      /\ temas'[h] = temas[h] \ {Actual(h)}
      /\ pc'[h] = IF temas[h] # {Actual(h)} THEN "sondear"
                  ELSE IF h = "loop" THEN "drenar" ELSE "reposo"
  BY <1>0, <1>2, ManosTipadas DEF Paso
<1>4. pc'[h] \in {"sondear", "drenar", "reposo"} /\ (temas'[h] # {} <=> pc'[h] = "sondear")
  BY <1>1, <1>3
<1>5. EnMano(h)'
  BY <1>3, <1>4 DEF EnMano
<1>6. pc'["loop"] # "arranque"
  BY <1>4, YaArranco DEF PasoDe, Quieto, Hilo
<1> QED BY <1>3, <1>4, <1>5, <1>6

LEMMA SondearFija == ASSUME IInv, NEW h \in Hilo, Sondear(h) PROVE IInv'
<1>1. /\ pc[h] = "sondear" /\ wm' = [wm EXCEPT ![h] = Watermark]
      /\ pc' = [pc EXCEPT ![h] = "leer"]
      /\ UNCHANGED <<publicadas, avisadas, sinMarca, entorno, evento, suscrito,
                     lastObserved, inicio, caidas, temas, desde, filas,
                     lastSeenSeq, fallas>>
  BY DEF Sondear, SinPublicar, SinCursor
<1>2. TypeOK /\ TxTypeOK
  BY DEF IInv, TypeOK
<1>3. /\ wm' \in [Hilo -> 0..Sentinela] /\ pc' \in [Hilo -> Paso]
      /\ wm'[h] = Watermark /\ pc'[h] = "leer"
      /\ \A g \in Hilo \ {h} : wm'[g] = wm[g] /\ pc'[g] = pc[g]
  BY <1>1, <1>2, ManosTipadas, LaMarca DEF Paso
<1>4. PasoDe(h)
  BY <1>1, <1>3 DEF PasoDe, Quieto
<1>5. /\ temas[h] # {} /\ filas[h] = {}
  BY <1>1, <1>2, ManosTipadas
<1>6. TypeOK'
  <2>1. /\ temas' = temas /\ desde' = desde /\ filas' = filas
        /\ lastSeenSeq' = lastSeenSeq /\ evento' = evento /\ suscrito' = suscrito
        /\ lastObserved' = lastObserved /\ publicadas' = publicadas
        /\ avisadas' = avisadas /\ sinMarca' = sinMarca /\ caidas' = caidas
        /\ fallas' = fallas
    BY <1>1
  <2> QED BY <1>2, <1>3, <1>4, <1>5, <2>1, PasoTipado DEF TypeOK
<1>7. EnMano(h)'
  <2>1. wm'[h] = Sentinela \/ (wm'[h] < sigTx' /\ \A t \in activas' : wm'[h] <= t)
    BY <1>2, <1>3, <1>4, LaMarca, PasoAvanza
  <2> QED BY <1>1, <1>3, <1>4, <1>5, <2>1, PasoAvanza DEF EnMano
<1>8. pc'["loop"] # "arranque"
  BY <1>1, <1>3, YaArranco DEF Hilo
<1>9. SinHistoria' /\ publicadas' \subseteq Visibles /\ filas'[h] \subseteq Visibles
  BY <1>1 DEF IInv, SinHistoria, EnOrden
<1> QED BY <1>1, <1>4, <1>6, <1>7, <1>8, <1>9, PasoAvanza, SigueCursor, HiloSigue

LEMMA LeerFija == ASSUME IInv, NEW h \in Hilo, Leer(h) PROVE IInv'
<1>1. /\ pc[h] = "leer" /\ desde' = [desde EXCEPT ![h] = lastSeenSeq[Actual(h)]]
      /\ pc' = [pc EXCEPT ![h] = "consultar"]
      /\ UNCHANGED <<publicadas, avisadas, sinMarca, entorno, evento, suscrito,
                     lastObserved, inicio, caidas, temas, wm, filas,
                     lastSeenSeq, fallas>>
  BY DEF Leer, SinPublicar, SinCursor
<1>2. TypeOK /\ Actual(h) \in Tema
  BY <1>1, ElActual DEF IInv
<1>3. PICK t \in Tema : t = Actual(h)
  BY <1>2
<1>4. /\ desde' \in [Hilo -> 0..MaxSeq] /\ pc' \in [Hilo -> Paso]
      /\ desde'[h] = lastSeenSeq[t] /\ pc'[h] = "consultar"
      /\ \A g \in Hilo \ {h} : desde'[g] = desde[g] /\ pc'[g] = pc[g]
  BY <1>1, <1>2, <1>3, ManosTipadas DEF Paso
<1>5. PasoDe(h)
  BY <1>1, <1>4 DEF PasoDe, Quieto
<1>6. /\ temas[h] # {} /\ filas[h] = {}
  BY <1>1, <1>2, ManosTipadas
<1>7. TypeOK'
  <2>1. /\ temas' = temas /\ wm' = wm /\ filas' = filas
        /\ lastSeenSeq' = lastSeenSeq /\ evento' = evento /\ suscrito' = suscrito
        /\ lastObserved' = lastObserved /\ publicadas' = publicadas
        /\ avisadas' = avisadas /\ sinMarca' = sinMarca /\ caidas' = caidas
        /\ fallas' = fallas
    BY <1>1
  <2> QED BY <1>2, <1>4, <1>5, <1>6, <2>1, PasoTipado DEF TypeOK
<1>8. EnMano(h)'
  <2>1. wm'[h] = Sentinela \/ (wm'[h] < sigTx' /\ \A x \in activas' : wm'[h] <= x)
    BY <1>1, <1>5, PasoAvanza DEF IInv, EnMano
  <2>2. Actual(h)' = t
    BY <1>1, <1>3 DEF Actual
  <2>3. HastaAqui(t, lastSeenSeq[t])'
    BY <1>1, <1>5, PasoAvanza, SigueCursor
  <2>4. HastaAqui(Actual(h), desde[h])'
    BY <1>1, <1>4, <2>2, <2>3 DEF HastaAqui
  <2> QED BY <1>1, <1>4, <1>5, <1>6, <2>1, <2>4, PasoAvanza DEF EnMano
<1>9. pc'["loop"] # "arranque"
  BY <1>1, <1>4, YaArranco DEF Hilo
<1>10. SinHistoria' /\ publicadas' \subseteq Visibles /\ filas'[h] \subseteq Visibles
  BY <1>1 DEF IInv, SinHistoria, EnOrden
<1> QED BY <1>1, <1>5, <1>7, <1>8, <1>9, <1>10, PasoAvanza, SigueCursor, HiloSigue

\* A row Since left out below one it returned was in the watermark's shadow.
LEMMA SinceEnOrden ==
  ASSUME TypeOK, EnOrden, NEW t \in Tema, NEW s \in Nat, NEW w \in Nat,
         NEW f \in Since(t, s, w), NEW e \in registro \ Since(t, s, w),
         e.tema = t, s < e.seq, e.seq < f.seq
  PROVE  e.tx \in activas \/ f.tx < e.tx
<1> DEFINE todas == {g \in Visibles : g.tema = t /\ g.seq > s /\ g.tx < w}
           Antes(x) == {g \in todas : g.seq < x.seq}
<1>1. f \in todas /\ Cardinality(Antes(f)) < Limite
  BY DEF Since
<1>2. f.tx \in Nat /\ e.tx \in Nat /\ f.seq \in Nat /\ e.seq \in Nat
      /\ f.tx < w /\ \A g \in todas : g.seq \in Nat
  BY <1>1, LosTipos DEF Visibles
<1>3. CASE e.tx \in activas
  BY <1>3
<1>4. CASE e.tx \notin activas /\ ~(e.tx < w)
  BY <1>2, <1>4
<1>5. CASE e.tx \notin activas /\ e.tx < w
  <2>1. e \in todas
    BY <1>2, <1>5 DEF Visibles
  <2>2. IsFiniteSet(Antes(f))
    <3>1. Antes(f) \subseteq registro
      BY DEF Visibles
    <3> QED BY <3>1, FS_Subset DEF EnOrden
  <2>3. Antes(e) \subseteq Antes(f)
    BY <1>2
  <2>4. Cardinality(Antes(e)) <= Cardinality(Antes(f)) /\ IsFiniteSet(Antes(e))
    BY <2>2, <2>3, FS_Subset
  <2>5. Cardinality(Antes(e)) \in Nat /\ Cardinality(Antes(f)) \in Nat
    BY <2>2, <2>4, FS_CardinalityType
  <2>6. Limite \in Nat
    BY DEF EscuchaAssumption
  <2>7. Cardinality(Antes(e)) < Limite
    <3> HIDE DEF Antes
    <3> QED BY <1>1, <2>4, <2>5, <2>6
  <2>8. e \in Since(t, s, w)
    BY <2>1, <2>7 DEF Since
  <2> QED BY <2>8
<1> QED BY <1>3, <1>4, <1>5

LEMMA ConsultarFija == ASSUME IInv, NEW h \in Hilo, Consultar(h) PROVE IInv'
<1> DEFINE nuevas == Since(Actual(h), desde[h], wm[h])
<1>1. /\ pc[h] = "consultar"
      /\ UNCHANGED <<publicadas, avisadas, sinMarca, entorno, evento, suscrito,
                     lastObserved, inicio, caidas, lastSeenSeq, fallas>>
      /\ \/ nuevas = {} /\ Retornar(h)
         \/ /\ nuevas # {} /\ filas' = [filas EXCEPT ![h] = nuevas]
            /\ pc' = [pc EXCEPT ![h] = "publicar"]
            /\ UNCHANGED <<temas, wm, desde>>
  BY DEF Consultar, SinPublicar, SinCursor
<1>2. TypeOK /\ EnOrden /\ Actual(h) \in Tema
  BY <1>1, ElActual DEF IInv
<1>3. nuevas \subseteq Visibles /\ nuevas \subseteq Fila
      /\ \A f \in nuevas : f.tema = Actual(h) /\ desde[h] < f.seq
  BY <1>2, LosTipos, ManosTipadas DEF Since, Visibles
<1>4. PasoDe(h)
  BY <1>1, <1>2, ManosTipadas DEF PasoDe, Quieto, Retornar
<1>5. /\ lastSeenSeq' = lastSeenSeq /\ evento' = evento /\ suscrito' = suscrito
      /\ lastObserved' = lastObserved /\ publicadas' = publicadas
      /\ avisadas' = avisadas /\ sinMarca' = sinMarca /\ caidas' = caidas
      /\ fallas' = fallas
  BY <1>1
<1>6. SinHistoria' /\ publicadas' \subseteq Visibles
  BY <1>1 DEF IInv, SinHistoria, EnOrden
<1>7. CASE nuevas = {} /\ Retornar(h)
  <2>1. /\ pc' \in [Hilo -> Paso] /\ temas' \in [Hilo -> SUBSET Tema]
        /\ wm' \in [Hilo -> 0..Sentinela] /\ desde' \in [Hilo -> 0..MaxSeq]
        /\ filas' \in [Hilo -> SUBSET Fila] /\ filas'[h] = {}
        /\ pc'[h] \in {"sondear", "drenar", "reposo"}
        /\ temas'[h] # {} <=> pc'[h] = "sondear"
        /\ EnMano(h)' /\ pc'["loop"] # "arranque"
    BY <1>1, <1>4, <1>7, RetornarSuelta
  <2>2. TypeOK'
    BY <1>2, <1>4, <1>5, <2>1, PasoTipado DEF TypeOK
  <2> QED BY <1>4, <1>5, <1>6, <2>1, <2>2, PasoAvanza, SigueCursor, HiloSigue
<1>8. CASE /\ nuevas # {} /\ filas' = [filas EXCEPT ![h] = nuevas]
           /\ pc' = [pc EXCEPT ![h] = "publicar"]
           /\ UNCHANGED <<temas, wm, desde>>
  <2> HIDE DEF nuevas
  <2>1. /\ filas' \in [Hilo -> SUBSET Fila] /\ pc' \in [Hilo -> Paso]
        /\ filas'[h] = nuevas /\ pc'[h] = "publicar" /\ temas[h] # {}
        /\ temas' = temas /\ wm' = wm /\ desde' = desde
    BY <1>1, <1>2, <1>3, <1>8, ManosTipadas DEF Paso
  <2>2. TypeOK'
    BY <1>2, <1>4, <1>5, <1>8, <2>1, PasoTipado DEF TypeOK
  <2>3. EnMano(h)
    BY DEF IInv
  <2>4. Actual(h)' = Actual(h)
    BY <2>1 DEF Actual
  <2>5. HastaAqui(Actual(h), desde[h]) /\ HastaAqui(Actual(h), desde[h])'
    <3>1. PICK t \in Tema : t = Actual(h)
      BY <1>2
    <3>2. PICK b \in Nat : b = desde[h]
      BY <1>2, LosTipos
    <3>3. HastaAqui(t, b)
      BY <1>1, <2>3, <3>1, <3>2 DEF EnMano
    <3>4. HastaAqui(t, b)'
      BY <1>2, <1>4, <3>3, PasoAvanza, SigueHasta
    <3> QED BY <2>1, <2>4, <3>1, <3>2, <3>3, <3>4 DEF HastaAqui
  <2>6. wm[h] = Sentinela \/ (wm[h] < sigTx /\ \A x \in activas : wm[h] <= x)
    BY <1>1, <2>3 DEF EnMano
  <2>7. ASSUME NEW e \in registro \ (publicadas \cup nuevas), NEW f \in nuevas,
               e.tema = f.tema, inicio[e.tema] < e.seq, e.seq < f.seq
        PROVE  Causa(e) \/ f.tx < e.tx \/ wm[h] = Sentinela
    <3>1. /\ e.tema = Actual(h) /\ desde[h] \in Nat /\ wm[h] \in Nat
          /\ e.seq \in Nat /\ e.tx \in Nat /\ f.tx \in Nat
      BY <1>2, <1>3, <2>7, LosTipos DEF Visibles
    <3>2. CASE e.seq <= desde[h]
      BY <2>5, <2>7, <3>1, <3>2 DEF HastaAqui
    <3>3. CASE desde[h] < e.seq
      <4>1. e.tx \in activas \/ f.tx < e.tx
        BY <1>2, <2>7, <3>1, <3>3, SinceEnOrden DEF nuevas
      <4>2. f.tx < wm[h]
        BY DEF nuevas, Since
      <4> QED BY <2>6, <3>1, <4>1, <4>2
    <3> QED BY <3>1, <3>2, <3>3
  <2>8. ASSUME NEW e \in registro' \ (publicadas' \cup filas'[h]), NEW f \in filas'[h],
               e.tema = f.tema, inicio'[e.tema] < e.seq, e.seq < f.seq
        PROVE  Causa(e)' \/ f.tx < e.tx \/ wm'[h] = Sentinela'
    BY <1>4, <1>5, <2>1, <2>7, <2>8, PasoAvanza, SigueCausa
  <2>9. EnMano(h)'
    <3>1. wm'[h] = Sentinela' \/ (wm'[h] < sigTx' /\ \A x \in activas' : wm'[h] <= x)
      BY <1>4, <2>1, <2>6, PasoAvanza
    <3>2. \A f \in filas'[h] : f.tema = Actual(h)' /\ desde'[h] < f.seq
      BY <1>3, <2>1, <2>4
    <3> QED BY <2>1, <2>5, <2>8, <3>1, <3>2 DEF EnMano
  <2>10. pc'["loop"] # "arranque"
    BY <1>1, <1>4, <2>1, YaArranco DEF PasoDe, Quieto, Hilo
  <2>11. filas'[h] \subseteq Visibles
    BY <1>3, <2>1
  <2> QED BY <1>4, <1>5, <1>6, <2>2, <2>9, <2>10, <2>11, PasoAvanza, SigueCursor, HiloSigue
<1> QED BY <1>1, <1>7, <1>8

LEMMA FallaFija == ASSUME IInv, NEW h \in Hilo, Falla(h) PROVE IInv'
<1>1. /\ pc[h] \in {"sondear", "consultar"} /\ fallas < MaxFallas /\ fallas' = fallas + 1
      /\ publicadas' = publicadas /\ avisadas' \subseteq avisadas \cup Visibles
      /\ Retornar(h)
      /\ UNCHANGED <<entorno, evento, suscrito, lastObserved, inicio, caidas,
                     lastSeenSeq, sinMarca>>
  BY DEF Falla, Publicar, SinCursor
<1>2. TypeOK
  BY DEF IInv
<1>3. PasoDe(h)
  BY <1>1, <1>2, ManosTipadas DEF PasoDe, Quieto, Retornar
<1>4. /\ pc' \in [Hilo -> Paso] /\ temas' \in [Hilo -> SUBSET Tema]
      /\ wm' \in [Hilo -> 0..Sentinela] /\ desde' \in [Hilo -> 0..MaxSeq]
      /\ filas' \in [Hilo -> SUBSET Fila] /\ filas'[h] = {}
      /\ pc'[h] \in {"sondear", "drenar", "reposo"}
      /\ temas'[h] # {} <=> pc'[h] = "sondear"
      /\ EnMano(h)' /\ pc'["loop"] # "arranque"
  BY <1>1, <1>3, RetornarSuelta
<1>5. fallas' \in 0..MaxFallas /\ avisadas' \subseteq Fila
  BY <1>1, <1>2, ManosTipadas DEF TypeOK, EscuchaAssumption
<1>6. TypeOK'
  BY <1>1, <1>2, <1>3, <1>4, <1>5, PasoTipado DEF TypeOK
<1>7. SinHistoria' /\ publicadas' \subseteq Visibles
  BY <1>1 DEF IInv, SinHistoria, EnOrden
<1> QED BY <1>1, <1>3, <1>4, <1>6, <1>7, PasoAvanza, SigueCursor, HiloSigue

LEMMA PublicarFilasFija == ASSUME IInv, NEW h \in Hilo, PublicarFilas(h) PROVE IInv'
<1>1. /\ pc[h] = "publicar" /\ pc' = [pc EXCEPT ![h] = "avanzar"]
      /\ publicadas' = publicadas \cup filas[h]
      /\ sinMarca' = IF wm[h] = Sentinela THEN sinMarca \cup filas[h] ELSE sinMarca
      /\ UNCHANGED <<entorno, evento, suscrito, lastObserved, inicio, caidas,
                     temas, wm, desde, filas, lastSeenSeq, fallas>>
  BY DEF PublicarFilas, Publicar, SinCursor
<1>2. TypeOK /\ EnOrden /\ EnMano(h) /\ Actual(h) \in Tema
  BY <1>1, ElActual DEF IInv
<1>3. filas[h] # {} /\ filas[h] \subseteq Fila /\ filas[h] \subseteq Visibles
      /\ temas[h] # {}
  BY <1>1, <1>2, ManosTipadas DEF EnOrden
<1>4. avisadas' = avisadas \cup filas[h]
  BY <1>3 DEF PublicarFilas, Publicar
<1>5. /\ pc' \in [Hilo -> Paso] /\ pc'[h] = "avanzar"
      /\ \A g \in Hilo \ {h} : pc'[g] = pc[g]
  BY <1>1, <1>2, ManosTipadas DEF Paso
<1>6. PasoDe(h)
  BY <1>1, <1>5 DEF PasoDe, Quieto
<1>7. TypeOK'
  <2>1. /\ publicadas' \subseteq Fila /\ avisadas' \subseteq Fila
        /\ sinMarca' \subseteq publicadas'
    BY <1>1, <1>2, <1>3, <1>4, ManosTipadas
  <2>2. /\ temas' = temas /\ wm' = wm /\ desde' = desde /\ filas' = filas
        /\ lastSeenSeq' = lastSeenSeq /\ evento' = evento /\ suscrito' = suscrito
        /\ lastObserved' = lastObserved /\ caidas' = caidas /\ fallas' = fallas
    BY <1>1
  <2> QED BY <1>2, <1>3, <1>5, <1>6, <2>1, <2>2, PasoTipado DEF TypeOK
<1>8. PICK t \in Tema : t = Actual(h)
  BY <1>2
<1>9. /\ HastaAqui(t, desde[h]) /\ desde[h] \in Nat /\ inicio[t] \in Nat
      /\ \A f \in filas[h] : /\ f.tema = t /\ desde[h] < f.seq /\ f \in registro
                             /\ f.seq \in Nat /\ f.seq < sigSeq[t]
  BY <1>1, <1>2, <1>3, <1>8, LosTipos DEF EnMano, Visibles, EnOrden
<1>10. ASSUME NEW f \in filas[h] PROVE HastaAqui(t, f.seq)'
  <2>1. inicio[t] <= f.seq /\ f.seq < sigSeq[t] /\ inicio[t] <= desde[h]
    BY <1>9 DEF HastaAqui
  <2>2. ASSUME NEW e \in registro \ publicadas', e.tema = t, inicio[t] < e.seq,
               e.seq <= f.seq
        PROVE  Causa(e)'
    <3>1. e # f /\ e \notin publicadas /\ e \notin filas[h]
      BY <1>1, <2>2
    <3>2. e.seq # f.seq
      BY <1>2, <1>9, <2>2, <3>1 DEF EnOrden
    <3>3. e.seq \in Nat /\ e.seq < f.seq
      BY <1>2, <1>9, <2>2, <3>2, LosTipos
    <3>4. Causa(e) \/ f.tx < e.tx \/ wm[h] = Sentinela
      BY <1>1, <1>2, <1>9, <2>2, <3>1, <3>3 DEF EnMano
    <3>5. f \in publicadas' /\ f.tema = e.tema
      BY <1>1, <1>9, <2>2
    <3>6. wm[h] = Sentinela => f \in sinMarca'
      BY <1>1
    <3>7. Causa(e) => Causa(e)'
      BY <1>6, PasoAvanza, SigueCausa
    <3> QED BY <3>3, <3>4, <3>5, <3>6, <3>7 DEF Causa
  <2> QED BY <1>6, <2>1, <2>2, PasoAvanza DEF HastaAqui
<1>11. EnMano(h)'
  <2>1. Actual(h)' = t /\ wm' = wm /\ desde' = desde /\ filas' = filas
    BY <1>1, <1>8 DEF Actual
  <2>2. wm'[h] = Sentinela' \/ (wm'[h] < sigTx' /\ \A x \in activas' : wm'[h] <= x)
    BY <1>1, <1>2, <1>6, <2>1, PasoAvanza DEF EnMano
  <2>3. HastaAqui(Actual(h), desde[h])'
    <3>1. PICK b \in Nat : b = desde[h]
      BY <1>9
    <3>2. HastaAqui(t, b)'
      BY <1>2, <1>6, <1>9, <3>1, PasoAvanza, SigueHasta
    <3> QED BY <2>1, <3>1, <3>2 DEF HastaAqui
  <2>4. \A f \in filas'[h] : HastaAqui(Actual(h), f.seq)'
    BY <1>10, <2>1 DEF HastaAqui
  <2>5. \A f \in filas'[h] : f.tema = Actual(h)' /\ desde'[h] < f.seq
    BY <1>9, <2>1
  <2> QED BY <1>5, <2>2, <2>3, <2>4, <2>5 DEF EnMano
<1>12. pc'["loop"] # "arranque"
  BY <1>1, <1>5, YaArranco DEF Hilo
<1>13. SinHistoria'
  <2>1. \A f \in filas[h] : inicio[f.tema] < f.seq
    BY <1>9 DEF HastaAqui
  <2> QED BY <1>1, <2>1 DEF IInv, SinHistoria
<1>14. publicadas' \subseteq Visibles /\ filas'[h] \subseteq Visibles
       /\ lastSeenSeq' = lastSeenSeq
  BY <1>1, <1>2, <1>3 DEF EnOrden
<1> QED BY <1>6, <1>7, <1>11, <1>12, <1>13, <1>14, PasoAvanza, SigueCursor, HiloSigue

LEMMA AvanzarFija == ASSUME IInv, NEW h \in Hilo, Avanzar(h) PROVE IInv'
<1> DEFINE mayor == CHOOSE f \in filas[h] : \A g \in filas[h] : g.seq <= f.seq
<1>1. /\ pc[h] = "avanzar"
      /\ lastSeenSeq' = [lastSeenSeq EXCEPT ![Actual(h)] = mayor.seq]
      /\ Retornar(h)
      /\ UNCHANGED <<publicadas, avisadas, sinMarca, entorno, evento, suscrito,
                     lastObserved, inicio, caidas, fallas>>
  BY DEF Avanzar, SinPublicar, SinCursor
<1>2. TypeOK /\ EnMano(h) /\ Actual(h) \in Tema /\ filas[h] # {} /\ EnOrden
  BY <1>1, ElActual, ManosTipadas DEF IInv
<1>3. mayor \in filas[h]
  <2> DEFINE seqs == {f.seq : f \in filas[h]}
  <2>1. seqs \in SUBSET Nat /\ seqs # {} /\ MaxSeq \in Nat /\ \A y \in seqs : y <= MaxSeq
    BY <1>2, LosTipos DEF EnOrden, Visibles
  <2>2. PICK m \in seqs : \A y \in seqs : y <= m
    <3> HIDE DEF seqs
    <3> QED BY <2>1, ElMayor
  <2>3. \E f \in filas[h] : \A g \in filas[h] : g.seq <= f.seq
    BY <2>2
  <2> QED BY <2>3
<1> HIDE DEF mayor
<1>4. mayor.seq \in 0..MaxSeq
  BY <1>2, <1>3, LosTipos DEF EnOrden, Visibles
<1>5. PasoDe(h)
  BY <1>1, <1>2, ManosTipadas DEF PasoDe, Quieto, Retornar
<1>6. /\ pc' \in [Hilo -> Paso] /\ temas' \in [Hilo -> SUBSET Tema]
      /\ wm' \in [Hilo -> 0..Sentinela] /\ desde' \in [Hilo -> 0..MaxSeq]
      /\ filas' \in [Hilo -> SUBSET Fila] /\ filas'[h] = {}
      /\ pc'[h] \in {"sondear", "drenar", "reposo"}
      /\ temas'[h] # {} <=> pc'[h] = "sondear"
      /\ EnMano(h)' /\ pc'["loop"] # "arranque"
  BY <1>1, <1>5, RetornarSuelta
<1>7. lastSeenSeq' \in [Tema -> 0..MaxSeq] /\ lastSeenSeq'[Actual(h)] = mayor.seq
      /\ \A t \in Tema \ {Actual(h)} : lastSeenSeq'[t] = lastSeenSeq[t]
  BY <1>1, <1>2, <1>4, ManosTipadas
<1>8. TypeOK'
  <2>1. /\ evento' = evento /\ suscrito' = suscrito
        /\ lastObserved' = lastObserved /\ publicadas' = publicadas
        /\ avisadas' = avisadas /\ sinMarca' = sinMarca /\ caidas' = caidas
        /\ fallas' = fallas
    BY <1>1
  <2> QED BY <1>2, <1>5, <1>6, <1>7, <2>1, PasoTipado DEF TypeOK
<1>9. ASSUME NEW t \in Tema PROVE HastaAqui(t, lastSeenSeq[t])'
  <2>1. CASE t = Actual(h)
    <3>1. PICK b \in Nat : b = mayor.seq
      BY <1>2, <1>3, LosTipos DEF EnOrden, Visibles
    <3>2. HastaAqui(t, b)
      BY <1>1, <1>2, <1>3, <2>1, <3>1 DEF EnMano
    <3>3. HastaAqui(t, b)'
      BY <1>2, <1>5, <3>2, PasoAvanza, SigueHasta
    <3> QED BY <1>7, <2>1, <3>1, <3>3 DEF HastaAqui
  <2>2. CASE t # Actual(h)
    <3>1. PICK b \in Nat : b = lastSeenSeq[t]
      BY <1>2, LosTipos
    <3>2. HastaAqui(t, b)
      BY <3>1 DEF IInv
    <3>3. HastaAqui(t, b)'
      BY <1>2, <1>5, <3>2, PasoAvanza, SigueHasta
    <3> QED BY <1>7, <2>2, <3>1, <3>3 DEF HastaAqui
  <2> QED BY <2>1, <2>2
<1>10. SinHistoria' /\ publicadas' \subseteq Visibles
  BY <1>1 DEF IInv, SinHistoria, EnOrden
<1> QED BY <1>5, <1>6, <1>8, <1>9, <1>10, HiloSigue

-----------------------------------------------------------------------------
(* Start, the event loop and the probe *)

\* A goroutine outside handleEvent, before and after its step.
LEMMA FueraDeMano ==
  ASSUME IInv, NEW h \in Hilo, PasoDe(h),
         wm' = wm, desde' = desde, filas' = filas, lastSeenSeq' = lastSeenSeq,
         publicadas' = publicadas, sinMarca' = sinMarca,
         pc[h] \notin {"arranque", "parado", "publicar", "avanzar"},
         pc' \in [Hilo -> Paso],
         pc'[h] \notin {"arranque", "leer", "consultar", "publicar", "avanzar"},
         temas' \in [Hilo -> SUBSET Tema],
         temas'[h] # {} <=> pc'[h] = "sondear",
         evento' \subseteq Tema, suscrito' \in BOOLEAN,
         lastObserved' \in 0..Sentinela, avisadas' \subseteq Fila,
         caidas' \in 0..MaxCaidas, fallas' = fallas
  PROVE  IInv'
<1>1. TypeOK /\ filas[h] = {}
  BY ManosTipadas DEF IInv
<1>2. TypeOK'
  BY <1>1, ManosTipadas, PasoTipado DEF TypeOK
<1>3. EnMano(h)'
  BY <1>1 DEF EnMano
<1>4. pc'["loop"] # "arranque"
  BY YaArranco DEF PasoDe, Quieto, Hilo
<1>5. SinHistoria' /\ publicadas' \subseteq Visibles /\ filas'[h] \subseteq Visibles
  BY <1>1, PasoAvanza DEF IInv, SinHistoria, EnOrden
<1> QED BY <1>2, <1>3, <1>4, <1>5, PasoAvanza, SigueCursor, HiloSigue

LEMMA StartFija == ASSUME IInv, Start PROVE IInv'
<1>1. /\ pc["loop"] = "arranque"
      /\ inicio' = [t \in Tema |-> MaxSeqID(t, Watermark)] /\ lastSeenSeq' = inicio'
      /\ pc' = [pc EXCEPT !["loop"] = "suscribir", !["sonda"] = "reposo"]
      /\ UNCHANGED <<entorno, evento, suscrito, temas, wm, desde, filas,
                     lastObserved, publicadas, avisadas, sinMarca, caidas, fallas>>
  BY DEF Start
<1>2. TypeOK /\ EnOrden /\ pc["sonda"] = "parado" /\ publicadas = {}
  BY <1>1 DEF IInv
<1>3. pc' \in [Hilo -> Paso] /\ pc'["loop"] = "suscribir" /\ pc'["sonda"] = "reposo"
  BY <1>1, <1>2 DEF TypeOK, Hilo, Paso
<1>4. \A h \in Hilo : temas[h] = {} /\ filas[h] = {}
  BY <1>1, <1>2 DEF TypeOK, Hilo
<1>5. \A t \in Tema : inicio'[t] \in 0..MaxSeq /\ inicio'[t] < sigSeq[t]
  BY <1>1, <1>2, ElMayorSeq
<1>6. inicio' \in [Tema -> 0..MaxSeq]
  BY <1>1, <1>5
<1>7. /\ sigTx' = sigTx /\ activas' = activas /\ registro' = registro
      /\ sigSeq' = sigSeq /\ Visibles' = Visibles /\ Sentinela' = Sentinela
  BY <1>1 DEF entorno, Visibles, Sentinela
<1>8. TypeOK'
  <2>1. TxTypeOK'
    BY <1>2, <1>7 DEF TypeOK, TxTypeOK
  <2>2. \A h \in Hilo : pc'[h] \in {"suscribir", "reposo"}
    BY <1>3 DEF Hilo
  <2> QED BY <1>1, <1>2, <1>3, <1>4, <1>6, <1>7, <2>1, <2>2 DEF TypeOK
<1>9. \A h \in Hilo : EnMano(h)'
  BY <1>1, <1>3, <1>4 DEF EnMano, Hilo
<1>10. \A t \in Tema : HastaAqui(t, lastSeenSeq[t])'
  <2>1. ASSUME NEW t \in Tema PROVE HastaAqui(t, lastSeenSeq[t])'
    <3>1. \A e \in registro : e.seq \in Nat
      BY <1>2, LosTipos
    <3> QED BY <1>1, <1>5, <1>7, <3>1 DEF HastaAqui
  <2> QED BY <2>1
<1>11. SinHistoria' /\ EnOrden'
  BY <1>1, <1>2, <1>7 DEF SinHistoria, EnOrden
<1> QED BY <1>3, <1>8, <1>9, <1>10, <1>11 DEF IInv

LEMMA LoopFija ==
  ASSUME IInv, Suscribir \/ Drenar \/ Desconectar \/ Reconectar
  PROVE  IInv'
<1>1. TypeOK /\ "loop" \in Hilo
  BY DEF IInv, Hilo
<1>2. pc \in [Hilo -> Paso] /\ temas \in [Hilo -> SUBSET Tema] /\ Visibles \subseteq Fila
      /\ (temas["loop"] # {} <=>
            pc["loop"] \in {"sondear", "leer", "consultar", "publicar", "avanzar"})
      /\ caidas \in 0..MaxCaidas /\ evento \subseteq Tema /\ suscrito \in BOOLEAN
      /\ lastObserved \in 0..Sentinela /\ avisadas \subseteq Fila
  BY <1>1, ManosTipadas DEF TypeOK
<1>3. CASE Suscribir
  <2>1. pc["loop"] = "suscribir" /\ suscrito' = TRUE
        /\ pc' = [pc EXCEPT !["loop"] = "drenar"]
        /\ UNCHANGED <<publicadas, avisadas, sinMarca, entorno, wm, desde, filas,
                       lastSeenSeq, inicio, evento, temas, lastObserved, caidas, fallas>>
    BY <1>3 DEF Suscribir, SinPublicar, SinManejar
  <2>2. pc' \in [Hilo -> Paso] /\ pc'["loop"] = "drenar" /\ PasoDe("loop")
        /\ temas["loop"] = {}
    BY <1>2, <2>1 DEF PasoDe, Quieto, Hilo, Paso
  <2> QED BY <1>1, <1>2, <2>1, <2>2, FueraDeMano
<1>4. CASE Drenar
  <2>1. PICK t \in evento : evento' = evento \ {t} /\ temas' = [temas EXCEPT !["loop"] = {t}]
    BY <1>4 DEF Drenar
  <2>2. pc["loop"] = "drenar" /\ pc' = [pc EXCEPT !["loop"] = "sondear"]
        /\ UNCHANGED <<publicadas, avisadas, sinMarca, entorno, wm, desde, filas,
                       lastSeenSeq, inicio, suscrito, lastObserved, caidas, fallas>>
    BY <1>4 DEF Drenar, SinPublicar, SinManejar
  <2>3. pc' \in [Hilo -> Paso] /\ pc'["loop"] = "sondear" /\ temas'["loop"] = {t}
        /\ temas' \in [Hilo -> SUBSET Tema] /\ PasoDe("loop")
    BY <1>2, <2>1, <2>2 DEF PasoDe, Quieto, Hilo, Paso
  <2> QED BY <1>1, <1>2, <2>1, <2>2, <2>3, FueraDeMano
<1>5. CASE Desconectar
  <2>1. pc["loop"] \in {"drenar", "suscribir"}
        /\ pc' = [pc EXCEPT !["loop"] = "esperar"]
        /\ (caidas' = caidas \/ (caidas < MaxCaidas /\ caidas' = caidas + 1))
        /\ UNCHANGED <<publicadas, avisadas, sinMarca, entorno, wm, desde, filas,
                       lastSeenSeq, inicio, evento, suscrito, temas, lastObserved, fallas>>
    BY <1>5 DEF Desconectar, SinPublicar, SinManejar
  <2>2. pc' \in [Hilo -> Paso] /\ pc'["loop"] = "esperar" /\ PasoDe("loop")
        /\ temas["loop"] = {}
    BY <1>2, <2>1 DEF PasoDe, Quieto, Hilo, Paso
  <2>3. caidas' \in 0..MaxCaidas
    BY <1>2, <2>1 DEF EscuchaAssumption
  <2> QED BY <1>1, <1>2, <2>1, <2>2, <2>3, FueraDeMano
<1>6. CASE Reconectar
  <2>1. pc["loop"] = "esperar" /\ pc' = [pc EXCEPT !["loop"] = "suscribir"]
        /\ avisadas' = avisadas \cup Visibles
        /\ UNCHANGED <<publicadas, sinMarca, entorno, wm, desde, filas,
                       lastSeenSeq, inicio, evento, suscrito, temas, lastObserved,
                       caidas, fallas>>
    BY <1>6 DEF Reconectar, SinManejar
  <2>2. pc' \in [Hilo -> Paso] /\ pc'["loop"] = "suscribir" /\ PasoDe("loop")
        /\ temas["loop"] = {}
    BY <1>2, <2>1 DEF PasoDe, Quieto, Hilo, Paso
  <2> QED BY <1>1, <1>2, <2>1, <2>2, FueraDeMano
<1> QED BY <1>3, <1>4, <1>5, <1>6

LEMMA SondaFija == ASSUME IInv, ProbeWatermarkOnce PROVE IInv'
<1>1. TypeOK /\ TxTypeOK /\ "sonda" \in Hilo
  BY DEF IInv, TypeOK, Hilo
<1>2. pc \in [Hilo -> Paso] /\ temas \in [Hilo -> SUBSET Tema]
      /\ caidas \in 0..MaxCaidas /\ evento \subseteq Tema /\ suscrito \in BOOLEAN
      /\ avisadas \subseteq Fila
  BY <1>1 DEF TypeOK
<1>3. pc["sonda"] = "reposo" /\ lastObserved' = Watermark
      /\ temas' = [temas EXCEPT !["sonda"] = Tema]
      /\ pc' = [pc EXCEPT !["sonda"] = IF Tema = {} THEN "reposo" ELSE "sondear"]
      /\ UNCHANGED <<publicadas, avisadas, sinMarca, entorno, wm, desde, filas,
                     lastSeenSeq, inicio, evento, suscrito, caidas, fallas>>
  BY DEF ProbeWatermarkOnce, SinPublicar, SinManejar
<1>4. pc' \in [Hilo -> Paso] /\ temas' \in [Hilo -> SUBSET Tema] /\ PasoDe("sonda")
      /\ temas'["sonda"] = Tema
      /\ pc'["sonda"] = IF Tema = {} THEN "reposo" ELSE "sondear"
  BY <1>1, <1>2, <1>3 DEF PasoDe, Quieto, Hilo, Paso
<1>5. lastObserved' \in 0..Sentinela
  BY <1>1, <1>3, LaMarca
<1> QED BY <1>1, <1>2, <1>3, <1>4, <1>5, FueraDeMano

-----------------------------------------------------------------------------
(* The invariant *)

LEMMA AlEmpezar == ASSUME Init PROVE IInv
<1>1. /\ sigTx = 1 /\ activas = {} /\ registro = {} /\ publicadas = {} /\ avisadas = {}
      /\ sinMarca = {} /\ evento = {} /\ suscrito = FALSE /\ caidas = 0 /\ fallas = 0
      /\ lastObserved = 0
      /\ sigSeq = [t \in Tema |-> 1] /\ inicio = [t \in Tema |-> 0]
      /\ lastSeenSeq = [t \in Tema |-> 0]
      /\ pc = [h \in Hilo |-> IF h = "loop" THEN "arranque" ELSE "parado"]
      /\ temas = [h \in Hilo |-> {}] /\ wm = [h \in Hilo |-> 0]
      /\ desde = [h \in Hilo |-> 0] /\ filas = [h \in Hilo |-> {}]
  BY DEF Init, TxInit
<1>2. TypeOK
  <2>1. MaxTx \in Nat /\ MaxSeq \in Nat /\ MaxCaidas \in Nat /\ MaxFallas \in Nat
        /\ Sentinela \in Nat
    BY DEF TransaccionesAssumption, EscuchaAssumption, Sentinela
  <2>2. TxTypeOK
    BY <1>1, <2>1 DEF TxTypeOK
  <2>3. /\ pc \in [Hilo -> Paso] /\ temas \in [Hilo -> SUBSET Tema]
        /\ wm \in [Hilo -> 0..Sentinela] /\ desde \in [Hilo -> 0..MaxSeq]
        /\ filas \in [Hilo -> SUBSET Fila]
    BY <1>1, <2>1 DEF Paso
  <2>4. /\ sigSeq \in [Tema -> 1..(MaxSeq + 1)] /\ lastSeenSeq \in [Tema -> 0..MaxSeq]
        /\ inicio \in [Tema -> 0..MaxSeq]
    BY <1>1, <2>1
  <2>5. \A h \in Hilo : temas[h] = {} /\ filas[h] = {} /\ pc[h] \in {"arranque", "parado"}
    BY <1>1
  <2>6. /\ lastObserved \in 0..Sentinela /\ caidas \in 0..MaxCaidas
        /\ fallas \in 0..MaxFallas
    BY <1>1, <2>1
  <2> QED BY <1>1, <2>2, <2>3, <2>4, <2>5, <2>6 DEF TypeOK
<1>3. EnOrden /\ SinHistoria
  BY <1>1, FS_EmptySet DEF EnOrden, SinHistoria, Visibles
<1>4. \A t \in Tema : HastaAqui(t, lastSeenSeq[t])
  BY <1>1 DEF HastaAqui
<1>5. \A h \in Hilo : EnMano(h)
  BY <1>1 DEF EnMano
<1>6. pc["loop"] = "arranque" /\ pc["sonda"] = "parado"
  BY <1>1 DEF Hilo
<1> QED BY <1>1, <1>2, <1>3, <1>4, <1>5, <1>6 DEF IInv

LEMMA Inductiva == ASSUME IInv, [Next]_vars PROVE IInv'
<1>1. CASE Escritores
  BY <1>1, EmpezarFija, FinFija, EscribirFija DEF Escritores
<1>2. ASSUME NEW h \in Hilo, Manejar(h) \/ Falla(h) PROVE IInv'
  BY <1>2, SondearFija, LeerFija, ConsultarFija, PublicarFilasFija, AvanzarFija,
     FallaFija DEF Manejar
<1>3. CASE UNCHANGED vars
  BY <1>3 DEF vars, entorno, IInv, TypeOK, TxTypeOK, SinHistoria, EnOrden, HastaAqui,
     EnMano, Causa, Visibles, Actual, Sentinela
<1> QED BY <1>1, <1>2, <1>3, CaidaFija, StartFija, LoopFija, SondaFija DEF Next

\* Types, the order of the changelogs, what each goroutine holds while it
\* handles an event, and SinHistoria: the cursor never goes back into history.
THEOREM Invariante == Spec => []IInv
<1>1. Init => IInv
  BY AlEmpezar
<1>2. IInv /\ [Next]_vars => IInv'
  BY Inductiva
<1> QED BY <1>1, <1>2, PTL DEF Spec

\* fb_event_listener's promise about its cursor, for any number of rows, any
\* batch size, two goroutines and any drops: a committed row is left behind
\* unpublished only when a later row of its topic, of an older transaction or
\* read with no transaction active, was published first.
THEOREM SaltoExplicado == Spec => []SaltoConCausa
<1>1. IInv => SaltoConCausa
  <2> SUFFICES ASSUME IInv, NEW e \in registro, Saltada(e) PROVE Causa(e)
    BY DEF SaltoConCausa
  <2>1. e.tema \in Tema /\ e \notin publicadas
    BY LosTipos DEF IInv, Saltada
  <2> QED BY <2>1 DEF IInv, HastaAqui, Saltada
<1> QED BY <1>1, Invariante, PTL

-----------------------------------------------------------------------------
(* The sync of the caches: its values, its order and its pages *)

HIDE EscuchaAssumption

LEMMA SyncTipos ==
  ASSUME SyncTypeOK
  PROVE  /\ reloj \in Nat /\ upper \in Nat /\ marca \in Nat /\ sigTx \in Nat
         /\ cursor.upd \in Nat /\ cursor.pk \in Nat
         /\ activas \subseteq Nat \ {0} /\ \A t \in activas : t < sigTx /\ t \in Tx
         /\ \A k \in Pk : /\ k \in Nat /\ k # 0
                          /\ confirmada[k] \in Version /\ pendiente[k] \in Version
                          /\ confirmada[k].pk = k
         /\ \A v \in Version : v.upd \in Nat /\ v.pk \in Nat /\ v.pk # 0 /\ v.tx \in Nat
         /\ entregadas \subseteq Version
<1>1. /\ TxTypeOK /\ reloj \in 1..MaxReloj /\ upper \in 0..MaxReloj
      /\ marca \in 0..Sentinela /\ cursor \in Posicion /\ entregadas \subseteq Version
      /\ confirmada \in [Pk -> Version] /\ pendiente \in [Pk -> Version]
      /\ \A k \in Pk : confirmada[k].pk = k
  BY DEF SyncTypeOK
<1>2. MaxReloj \in Nat /\ MaxTx \in Nat /\ Sentinela \in Nat
      /\ (\A k \in Pk : k \in Nat /\ k # 0)
  <2>1. Pk \subseteq Nat \ {0} /\ MaxReloj \in Nat
    BY CursorSyncAssumption
  <2>2. MaxTx \in Nat /\ Sentinela \in Nat
    BY TransaccionesAssumption DEF Sentinela
  <2> QED BY <2>1, <2>2
<1>3. /\ reloj \in Nat /\ upper \in Nat /\ marca \in Nat
      /\ \A n \in 0..MaxReloj : n \in Nat
      /\ \A n \in 0..MaxTx : n \in Nat
  BY <1>1, <1>2
<1>4. cursor.upd \in Nat /\ cursor.pk \in Nat
  <2>1. cursor.upd \in 0..MaxReloj /\ cursor.pk \in Pk \cup {0}
    BY <1>1 DEF Posicion
  <2>2. \A n \in Pk \cup {0} : n \in Nat
    BY <1>2
  <2> QED BY <1>3, <2>1, <2>2
<1>5. sigTx \in Nat /\ activas \subseteq Nat \ {0} /\ \A t \in activas : t < sigTx /\ t \in Tx
  BY <1>1, <1>2 DEF TxTypeOK, Tx
<1>6. ASSUME NEW v \in Version
      PROVE  v.upd \in Nat /\ v.pk \in Nat /\ v.pk # 0 /\ v.tx \in Nat
  <2>1. v.upd \in 0..MaxReloj /\ v.pk \in Pk /\ v.tx \in 0..MaxTx
    BY DEF Version
  <2> QED BY <1>2, <1>3, <2>1
<1> QED BY <1>1, <1>2, <1>3, <1>4, <1>5, <1>6

\* The order of the cursor, on the stamps and keys of rows.
LEMMA DespuesOrdena ==
  ASSUME NEW a, NEW b, NEW c, a.upd \in Nat, a.pk \in Nat, b.upd \in Nat, b.pk \in Nat,
         c.upd \in Nat, c.pk \in Nat
  PROVE  /\ ~Despues(a, a)
         /\ Despues(a, b) /\ Despues(b, c) => Despues(a, c)
         /\ ~Despues(a, b) /\ Despues(a, c) => Despues(b, c)
         /\ ~Despues(a, b) /\ ~Despues(b, a) => a.upd = b.upd /\ a.pk = b.pk
         /\ ~Despues(a, b) => a.upd <= b.upd
  BY DEF Despues

\* A finite set of versions has a last one.
LEMMA HayUltima ==
  ASSUME SyncTypeOK, NEW S \in SUBSET Version, IsFiniteSet(S), S # {}
  PROVE  \E v \in S : \A u \in S : ~Despues(u, v)
<1> DEFINE Tras(v) == {u \in S : Despues(u, v)}
           cuentas == {Cardinality(Tras(v)) : v \in S}
<1>1. \A v \in S : v.upd \in Nat /\ v.pk \in Nat
  BY SyncTipos
<1>2. \A v \in S : Cardinality(Tras(v)) \in Nat
  BY FS_Subset, FS_CardinalityType
<1>3. cuentas \in SUBSET Nat /\ cuentas # {}
  BY <1>2
<1>4. PICK m \in cuentas : \A c \in cuentas : m <= c
  <2> HIDE DEF cuentas
  <2> QED BY <1>3, ElMenor
<1>5. PICK v \in S : m = Cardinality(Tras(v))
  BY <1>4
<1>6. ASSUME NEW u \in S, Despues(u, v) PROVE FALSE
  <2>1. Tras(u) \subseteq Tras(v)
    BY <1>1, <1>6, DespuesOrdena
  <2>2. u \in Tras(v) /\ u \notin Tras(u)
    BY <1>1, <1>6, DespuesOrdena
  <2>3. IsFiniteSet(Tras(v))
    BY FS_Subset
  <2>4. Cardinality(Tras(u)) <= Cardinality(Tras(v))
        /\ Cardinality(Tras(v)) # Cardinality(Tras(u))
    <3> HIDE DEF Tras
    <3>1. Tras(u) \in SUBSET Tras(v) /\ Tras(u) # Tras(v)
      BY <2>1, <2>2
    <3> QED BY <2>3, <3>1, FS_Subset
  <2>5. Cardinality(Tras(v)) <= Cardinality(Tras(u))
    BY <1>4, <1>5
  <2> QED BY <1>2, <2>4, <2>5
<1> QED BY <1>6

\* A page leaves out only what comes after all it delivers.
LEMMA PaginaCerrada ==
  ASSUME SyncTypeOK
  PROVE  /\ IsFiniteSet(Elegibles) /\ Elegibles \subseteq Version
         /\ \A v \in Elegibles \ Pagina, u \in Pagina : Despues(v, u)
<1>1. Elegibles \subseteq {confirmada[k] : k \in Pk} /\ Elegibles \subseteq Version
  BY SyncTipos DEF Elegibles
<1>2. IsFiniteSet(Elegibles)
  <2> DEFINE cache == {confirmada[k] : k \in Pk}
  <2>1. IsFiniteSet(cache)
    <3>1. confirmada \in Surjection(Pk, cache)
      BY DEF SyncTypeOK, Surjection
    <3> HIDE DEF cache
    <3> QED BY <3>1, FS_Surjection, CursorSyncAssumption
  <2> QED BY <1>1, <2>1, FS_Subset
<1>3. ASSUME NEW v \in Elegibles \ Pagina, NEW u \in Pagina PROVE Despues(v, u)
  <2> DEFINE Antes(w) == {z \in Elegibles : Despues(w, z)}
  <2>1. u \in Elegibles /\ v \in Elegibles /\ Cardinality(Antes(u)) < LimitePagina
        /\ ~(Cardinality(Antes(v)) < LimitePagina)
    BY <1>3 DEF Pagina
  <2>2. /\ u.upd \in Nat /\ u.pk \in Nat /\ v.upd \in Nat /\ v.pk \in Nat
        /\ \A z \in Elegibles : z.upd \in Nat /\ z.pk \in Nat
    BY <1>1, <2>1, SyncTipos
  <2>3. \A w : IsFiniteSet(Antes(w)) /\ Cardinality(Antes(w)) \in Nat
    BY <1>2, FS_Subset, FS_CardinalityType
  <2>4. ASSUME ~Despues(v, u) PROVE Antes(v) \subseteq Antes(u)
    BY <2>2, <2>4, DespuesOrdena
  <2>5. ASSUME ~Despues(v, u) PROVE Cardinality(Antes(v)) <= Cardinality(Antes(u))
    <3>1. Antes(v) \subseteq Antes(u) /\ IsFiniteSet(Antes(u))
      BY <2>3, <2>4, <2>5
    <3> HIDE DEF Antes
    <3> QED BY <3>1, FS_Subset
  <2>6. LimitePagina \in Nat
    BY CursorSyncAssumption
  <2> HIDE DEF Antes
  <2> QED BY <2>1, <2>3, <2>5, <2>6
<1> QED BY <1>1, <1>2, <1>3

\* A page with rows leaves the cursor at one of them that none of it follows.
LEMMA ElCursorSiguiente ==
  ASSUME SyncTypeOK, Pagina # {}
  PROVE  \E v \in Pagina : /\ \A u \in Pagina : ~Despues(u, v)
                           /\ CursorSiguiente = [upd |-> v.upd, pk |-> v.pk]
<1>1. Pagina \in SUBSET Version /\ IsFiniteSet(Pagina)
  <2>1. Pagina \subseteq Elegibles
    BY DEF Pagina
  <2> QED BY <2>1, PaginaCerrada, FS_Subset
<1>2. \E v \in Pagina : \A u \in Pagina : ~Despues(u, v)
  BY <1>1, HayUltima
<1> DEFINE ultima == CHOOSE v \in Pagina : \A u \in Pagina : ~Despues(u, v)
<1>3. ultima \in Pagina /\ \A u \in Pagina : ~Despues(u, ultima)
  BY <1>2
<1>4. CursorSiguiente = [upd |-> ultima.upd, pk |-> ultima.pk]
  BY DEF CursorSiguiente
<1> QED BY <1>3, <1>4

-----------------------------------------------------------------------------
(* What the steps share *)

\* What is lost stays so for the same causes, and nothing more is, while the
\* phone and the committed rows stay as they are.
LEMMA PerdidasIguales ==
  ASSUME SyncIInv, UNCHANGED <<conMarca, confirmada, copia, cursor, entregadas>>,
         ocultas \subseteq ocultas', lentas \subseteq lentas'
  PROVE  PerdidaSoloOculta' /\ PerdidaSoloPorInversion' /\ VentaPerdidaSoloLenta'
<1>1. \A k \in Pk : Perdida(k)' <=> Perdida(k)
  BY DEF Perdida
<1>2. \A k \in Pk : Adelantada(confirmada[k])' <=> Adelantada(confirmada[k])
  BY DEF Adelantada
<1> QED BY <1>1, <1>2 DEF SyncIInv, PerdidaSoloOculta, PerdidaSoloPorInversion,
     VentaPerdidaSoloLenta

\* The same of the pending rows, when none is new.
LEMMA PendientesIguales ==
  ASSUME SyncIInv, UNCHANGED <<conMarca, cursor, entregadas>>, ocultas \subseteq ocultas',
         \A k \in Pk : pendiente'[k].tx # 0 => pendiente'[k] = pendiente[k]
  PROVE  PendienteConCausa' /\ CursorEntregado'
<1>1. \A k \in Pk : pendiente'[k].tx # 0 =>
        (Adelantada(pendiente[k]) => Adelantada(pendiente[k])')
  BY DEF Adelantada
<1> QED BY <1>1 DEF SyncIInv, PendienteConCausa, CursorEntregado

\* And of the order of the versions of a row.
LEMMA VersionesIguales ==
  ASSUME SyncIInv, UNCHANGED <<confirmada, copia>>, reloj' \in {reloj, reloj + 1},
         \A k \in Pk : pendiente'[k].tx # 0 => pendiente'[k] = pendiente[k]
  PROVE  VersionesEnOrden'
<1>1. /\ reloj \in Nat
      /\ \A k \in Pk : /\ confirmada[k].upd \in Nat /\ confirmada[k].upd <= reloj
                       /\ pendiente[k].upd \in Nat
  BY SyncTipos DEF SyncIInv, VersionesEnOrden
<1> QED BY <1>1 DEF SyncIInv, VersionesEnOrden

LEMMA LasTransacciones ==
  ASSUME TxTypeOK
  PROVE  /\ Begin => TxTypeOK' /\ activas \subseteq activas' /\ sigTx' = sigTx + 1
                     /\ activas' = activas \cup {sigTx}
         /\ \A x \in activas : Fin(x) => TxTypeOK' /\ sigTx' = sigTx
                                         /\ activas' = activas \ {x}
<1>1. sigTx \in Nat /\ sigTx # 0 /\ sigTx <= MaxTx + 1 /\ MaxTx \in Nat
      /\ \A t \in activas : t \in Nat /\ t # 0 /\ t < sigTx
  BY TransaccionesAssumption DEF TxTypeOK
<1>2. ASSUME Begin PROVE TxTypeOK'
  <2>1. sigTx' = sigTx + 1 /\ activas' = activas \cup {sigTx} /\ sigTx <= MaxTx
    BY <1>2 DEF Begin
  <2>2. sigTx' \in 1..(MaxTx + 1)
    BY <1>1, <2>1
  <2>3. \A t \in activas' : t \in 1..(sigTx' - 1)
    BY <1>1, <2>1
  <2> QED BY <2>2, <2>3 DEF TxTypeOK
<1>3. \A x \in activas : Fin(x) => TxTypeOK'
  BY DEF TxTypeOK, Fin
<1> QED BY <1>2, <1>3 DEF Begin, Fin

\* The null version of a row is a version.
LEMMA LaNula ==
  ASSUME NEW k \in Pk
  PROVE  Nula(k) \in Version /\ Nula(k).tx = 0 /\ Nula(k).pk = k
<1>1. 0 \in 0..MaxReloj /\ 0 \in 0..MaxTx
  BY CursorSyncAssumption, TransaccionesAssumption
<1> QED BY <1>1 DEF Nula, Version

-----------------------------------------------------------------------------
(* One lemma per action *)

LEMMA AlEmpezarSync == SyncInit => SyncIInv
<1> SUFFICES ASSUME SyncInit PROVE SyncIInv
  OBVIOUS
<1>1. SyncTypeOK
  <2>1. TxTypeOK
    BY TransaccionesAssumption DEF SyncInit, TxInit, TxTypeOK
  <2>2. /\ confirmada \in [Pk -> Version] /\ pendiente \in [Pk -> Version]
        /\ copia \in [Pk -> Version]
        /\ \A k \in Pk : /\ pendiente[k].tx = 0 /\ confirmada[k].tx = 0
                         /\ confirmada[k].pk = k
    BY LaNula DEF SyncInit
  <2>3. 0 \notin activas
    BY DEF SyncInit, TxInit
  <2>4. /\ reloj \in 1..MaxReloj /\ upper \in 0..MaxReloj /\ marca \in 0..Sentinela
        /\ cursor \in Posicion
    BY CursorSyncAssumption, TransaccionesAssumption DEF SyncInit, Sentinela, Posicion
  <2> QED BY <2>1, <2>2, <2>3, <2>4 DEF SyncInit, SyncTypeOK
<1>2. EnElPasado /\ VersionesEnOrden
  BY LaNula DEF SyncInit, EnElPasado, VersionesEnOrden, TxInit, Nula
<1>3. CursorEntregado /\ MarcaVigente /\ PendienteConCausa
  BY LaNula DEF SyncInit, CursorEntregado, MarcaVigente, PendienteConCausa
<1>4. \A k \in Pk : ~Perdida(k)
  BY DEF SyncInit, Perdida
<1> QED BY <1>1, <1>2, <1>3, <1>4 DEF SyncIInv, PerdidaSoloOculta,
     PerdidaSoloPorInversion, VentaPerdidaSoloLenta

LEMMA PasoTic == SyncIInv /\ Tic => SyncIInv'
<1> SUFFICES ASSUME SyncIInv, Tic PROVE SyncIInv'
  OBVIOUS
<1>0. /\ UNCHANGED <<conMarca, paso, upper, marca, cursor, copia, entregadas, ocultas,
                     sigTx, activas, confirmada, pendiente, lentas>>
      /\ reloj' = reloj + 1 /\ reloj < MaxReloj
  BY DEF Tic, SinTelefono, txVars
<1>1. SyncTypeOK'
  BY <1>0, CursorSyncAssumption DEF SyncIInv, SyncTypeOK, TxTypeOK
<1>2. EnElPasado'
  <2>1. upper \in Nat /\ reloj \in Nat /\ cursor.upd \in Nat
    BY SyncTipos DEF SyncIInv
  <2> QED BY <1>0, <2>1 DEF SyncIInv, EnElPasado
<1>3. MarcaVigente' /\ PendienteConCausa' /\ CursorEntregado'
  BY <1>0, PendientesIguales DEF SyncIInv, MarcaVigente
<1>4. PerdidaSoloOculta' /\ PerdidaSoloPorInversion' /\ VentaPerdidaSoloLenta'
  BY <1>0, PerdidasIguales
<1>5. VersionesEnOrden'
  BY <1>0, VersionesIguales
<1> QED BY <1>1, <1>2, <1>3, <1>4, <1>5 DEF SyncIInv

LEMMA PasoAbrirTx == SyncIInv /\ AbrirTx => SyncIInv'
<1> SUFFICES ASSUME SyncIInv, AbrirTx PROVE SyncIInv'
  OBVIOUS
<1>0. /\ UNCHANGED <<conMarca, paso, upper, marca, cursor, copia, entregadas, ocultas,
                     reloj, confirmada, pendiente, lentas>>
      /\ Begin
  BY DEF AbrirTx, SinTelefono
<1>1. TxTypeOK' /\ activas' = activas \cup {sigTx} /\ sigTx' = sigTx + 1
  BY <1>0, LasTransacciones DEF SyncIInv, SyncTypeOK
<1>2. /\ sigTx \in Nat
      /\ \A k \in Pk : confirmada[k].tx \in Nat /\ confirmada[k].tx < sigTx
  BY SyncTipos DEF SyncIInv, EnElPasado
<1>3. SyncTypeOK'
  <2>1. \A k \in Pk : /\ confirmada'[k].tx \notin activas'
                      /\ pendiente'[k].tx \in activas' \cup {0}
    BY <1>0, <1>1, <1>2 DEF SyncIInv, SyncTypeOK
  <2> QED BY <1>0, <1>1, <2>1 DEF SyncIInv, SyncTypeOK
<1>4. EnElPasado'
  BY <1>0, <1>1, <1>2 DEF SyncIInv, EnElPasado
<1>5. MarcaVigente' /\ PendienteConCausa' /\ CursorEntregado'
  BY <1>0, PendientesIguales DEF SyncIInv, MarcaVigente
<1>6. PerdidaSoloOculta' /\ PerdidaSoloPorInversion' /\ VentaPerdidaSoloLenta'
  BY <1>0, PerdidasIguales
<1>7. VersionesEnOrden'
  BY <1>0, VersionesIguales
<1> QED BY <1>1, <1>3, <1>4, <1>5, <1>6, <1>7 DEF SyncIInv

\* A row is stamped with the current tick, above the page under way and the cursor.
LEMMA PasoEscribirFila ==
  ASSUME SyncIInv, NEW x \in activas, NEW k \in Pk, EscribirFila(x, k)
  PROVE  SyncIInv'
<1> DEFINE nueva == [pk |-> k, upd |-> reloj, tx |-> x]
<1>0. /\ UNCHANGED <<conMarca, paso, upper, marca, cursor, copia, entregadas, ocultas,
                     sigTx, activas, reloj, confirmada, lentas>>
      /\ pendiente' = [pendiente EXCEPT ![k] = nueva]
  BY DEF EscribirFila, SinTelefono, txVars
<1>1. /\ reloj \in Nat /\ reloj # 0 /\ x \in Nat /\ x # 0 /\ x \in Tx
      /\ upper \in Nat /\ cursor.upd \in Nat /\ upper < reloj /\ cursor.upd < reloj
  <2>1. reloj # 0
    BY DEF SyncIInv, SyncTypeOK
  <2> QED BY <2>1, SyncTipos DEF SyncIInv, EnElPasado
<1>2. nueva \in Version
  <2>1. reloj \in 0..MaxReloj /\ x \in 0..MaxTx
    BY <1>1, CursorSyncAssumption, TransaccionesAssumption DEF SyncIInv, SyncTypeOK, Tx
  <2> QED BY <2>1 DEF Version
<1>3. /\ pendiente \in [Pk -> Version] /\ pendiente'[k] = nueva
      /\ \A j \in Pk \ {k} : pendiente'[j] = pendiente[j]
  BY <1>0 DEF SyncIInv, SyncTypeOK
<1>4. SyncTypeOK'
  <2>1. pendiente' \in [Pk -> Version]
    BY <1>0, <1>2, <1>3
  <2>2. \A j \in Pk : pendiente'[j].tx \in activas' \cup {0}
    BY <1>0, <1>3 DEF SyncIInv, SyncTypeOK
  <2> QED BY <1>0, <2>1, <2>2 DEF SyncIInv, SyncTypeOK, TxTypeOK
<1>5. EnElPasado'
  <2>1. \A j \in Pk : pendiente'[j].tx # 0 =>
                        pendiente'[j].pk = j /\ pendiente'[j].upd # 0
    BY <1>1, <1>3 DEF SyncIInv, EnElPasado
  <2> QED BY <1>0, <2>1 DEF SyncIInv, EnElPasado
<1>6. MarcaVigente'
  <2>1. ~(nueva.upd <= upper)
    BY <1>1
  <2>2. \A j \in Pk : pendiente'[j] = pendiente[j] \/ ~(pendiente'[j].upd <= upper)
    BY <1>3, <2>1
  <2> QED BY <1>0, <2>2 DEF SyncIInv, MarcaVigente
<1>7. CursorEntregado' /\ PendienteConCausa'
  <2>1. Despues(nueva, cursor)
    BY <1>1 DEF Despues
  <2>2. \A j \in Pk : Adelantada(pendiente[j]) => Adelantada(pendiente[j])'
                                                  \/ pendiente'[j] # pendiente[j]
    BY <1>0 DEF Adelantada
  <2>3. \A j \in Pk : pendiente'[j] = pendiente[j] \/ Despues(pendiente'[j], cursor)
    BY <1>3, <2>1
  <2> QED BY <1>0, <2>2, <2>3 DEF SyncIInv, PendienteConCausa, CursorEntregado
<1>8. PerdidaSoloOculta' /\ PerdidaSoloPorInversion' /\ VentaPerdidaSoloLenta'
  BY <1>0, PerdidasIguales
<1>9. VersionesEnOrden'
  <2>1. \A j \in Pk : /\ confirmada[j].upd <= reloj
                      /\ j # k => pendiente'[j] = pendiente[j]
    BY <1>3 DEF SyncIInv, VersionesEnOrden
  <2> QED BY <1>0, <1>1, <1>3, <2>1 DEF SyncIInv, VersionesEnOrden
<1> QED BY <1>4, <1>5, <1>6, <1>7, <1>8, <1>9 DEF SyncIInv

\* What a transaction committed behind the cursor was already a pending row the
\* cursor had passed; without the mark, for a tick at least.
LEMMA PasoConfirmarTx ==
  ASSUME SyncIInv, NEW x \in activas, ConfirmarTx(x)
  PROVE  SyncIInv'
<1>0. /\ UNCHANGED <<conMarca, paso, upper, marca, cursor, copia, entregadas, ocultas,
                     reloj>>
      /\ Fin(x)
  BY DEF ConfirmarTx, SinTelefono
<1>1. TxTypeOK' /\ sigTx' = sigTx /\ activas' = activas \ {x}
  BY <1>0, LasTransacciones DEF SyncIInv, SyncTypeOK
<1>2. /\ x \in Nat /\ x # 0 /\ x \in Tx /\ x < sigTx
      /\ reloj \in Nat /\ cursor.upd \in Nat /\ cursor.upd < reloj
      /\ \A k \in Pk : /\ pendiente[k] \in Version /\ confirmada[k] \in Version
                       /\ pendiente[k].upd \in Nat
  BY SyncTipos DEF SyncIInv, EnElPasado
<1>3. \A k \in Pk :
        IF pendiente[k].tx = x
        THEN confirmada'[k] = pendiente[k] /\ pendiente'[k] = Nula(k)
        ELSE confirmada'[k] = confirmada[k] /\ pendiente'[k] = pendiente[k]
  BY DEF ConfirmarTx, Suyas
<1>4. \A k \in Pk : Nula(k) \in Version /\ Nula(k).tx = 0
  BY LaNula
<1>5. SyncTypeOK'
  <2>1. confirmada' \in [Pk -> Version] /\ pendiente' \in [Pk -> Version]
    BY <1>2, <1>4 DEF ConfirmarTx
  <2>2. \A k \in Pk : /\ pendiente'[k].tx \in activas' \cup {0}
                      /\ confirmada'[k].pk = k /\ confirmada'[k].tx \notin activas'
    <3> SUFFICES ASSUME NEW k \in Pk
                 PROVE  /\ pendiente'[k].tx \in activas' \cup {0}
                        /\ confirmada'[k].pk = k /\ confirmada'[k].tx \notin activas'
      OBVIOUS
    <3>1. /\ pendiente[k].tx \in activas \cup {0} /\ confirmada[k].pk = k
          /\ confirmada[k].tx \notin activas
          /\ pendiente[k].tx # 0 => pendiente[k].pk = k
      BY DEF SyncIInv, SyncTypeOK, EnElPasado
    <3>2. CASE pendiente[k].tx = x
      BY <1>1, <1>2, <1>3, <1>4, <3>1, <3>2
    <3>3. CASE pendiente[k].tx # x
      BY <1>1, <1>3, <3>1, <3>3
    <3> QED BY <3>2, <3>3
  <2>3. lentas' \subseteq Tx
    BY <1>2 DEF ConfirmarTx, SyncIInv, SyncTypeOK
  <2> QED BY <1>0, <1>1, <2>1, <2>2, <2>3 DEF SyncIInv, SyncTypeOK
<1>6. EnElPasado'
  <2>1. \A k \in Pk :
          /\ confirmada'[k].tx < sigTx'
          /\ confirmada'[k].tx = 0 => copia'[k] = confirmada'[k]
          /\ confirmada'[k].tx # 0 => confirmada'[k].upd # 0
          /\ pendiente'[k].tx # 0 => pendiente'[k].pk = k /\ pendiente'[k].upd # 0
    BY <1>0, <1>1, <1>2, <1>3, <1>4 DEF SyncIInv, EnElPasado
  <2> QED BY <1>0, <2>1 DEF SyncIInv, EnElPasado
<1>7. MarcaVigente'
  <2>1. \A k \in Pk : /\ confirmada'[k] \in {confirmada[k], pendiente[k]}
                      /\ pendiente'[k] = pendiente[k] \/ pendiente'[k].tx = 0
    BY <1>3, <1>4
  <2> QED BY <1>0, <2>1 DEF SyncIInv, MarcaVigente
<1>8. CursorEntregado' /\ PendienteConCausa'
  <2>1. \A k \in Pk : pendiente'[k].tx # 0 => pendiente'[k] = pendiente[k]
    BY <1>3, <1>4
  <2> QED BY <1>0, <2>1, PendientesIguales
<1>9. ASSUME NEW k \in Pk, Perdida(k)'
      PROVE  /\ conMarca => confirmada'[k].tx \in ocultas
             /\ Adelantada(confirmada'[k])
             /\ ~conMarca => confirmada'[k].tx \in lentas'
  <2>1. copia[k] # confirmada'[k] /\ ~Despues(confirmada'[k], cursor)
    BY <1>0, <1>9 DEF Perdida
  <2>2. CASE pendiente[k].tx = x
    <3>1. /\ confirmada'[k] = pendiente[k] /\ ~Despues(pendiente[k], cursor)
          /\ pendiente[k].tx # 0
      BY <1>2, <1>3, <2>1, <2>2
    <3>2. CASE conMarca
      BY <3>1, <3>2 DEF SyncIInv, PendienteConCausa
    <3>3. CASE ~conMarca
      <4>1. /\ pendiente[k].upd # 0 /\ pendiente[k].upd <= cursor.upd
            /\ cursor.upd # 0
        BY <1>2, <3>1 DEF SyncIInv, EnElPasado, Despues
      <4>2. PICK w \in entregadas : w.upd = cursor.upd /\ w.pk = cursor.pk
        BY <4>1 DEF SyncIInv, CursorEntregado
      <4>3. ~Despues(pendiente[k], w)
        BY <3>1, <4>2 DEF Despues
      <4>4. reloj - pendiente[k].upd >= Margen
        BY <1>2, <4>1 DEF Margen
      <4>5. x \in lentas'
        BY <2>2, <3>3, <4>4 DEF ConfirmarTx, Suyas
      <4> QED BY <2>2, <3>1, <3>3, <4>3, <4>5 DEF Adelantada
    <3> QED BY <3>2, <3>3
  <2>3. CASE pendiente[k].tx # x
    <3>1. confirmada'[k] = confirmada[k] /\ Perdida(k)
      BY <1>3, <2>1, <2>3 DEF Perdida
    <3>2. lentas \subseteq lentas'
      BY DEF ConfirmarTx
    <3> QED BY <3>1, <3>2 DEF SyncIInv, PerdidaSoloOculta, PerdidaSoloPorInversion,
             VentaPerdidaSoloLenta
  <2> QED BY <2>2, <2>3
<1>10. \A k \in Pk : Adelantada(confirmada'[k]) => Adelantada(confirmada[k])'
  BY <1>0 DEF Adelantada
<1>11. PerdidaSoloOculta' /\ PerdidaSoloPorInversion' /\ VentaPerdidaSoloLenta'
  BY <1>0, <1>9, <1>10 DEF PerdidaSoloOculta, PerdidaSoloPorInversion,
     VentaPerdidaSoloLenta
<1>12. VersionesEnOrden'
  <2> SUFFICES ASSUME NEW k \in Pk
               PROVE  /\ copia[k].upd <= confirmada'[k].upd /\ confirmada'[k].upd <= reloj
                      /\ pendiente'[k].tx # 0 =>
                           /\ confirmada'[k].upd <= pendiente'[k].upd
                           /\ pendiente'[k].upd <= reloj
    BY <1>0 DEF VersionesEnOrden
  <2>1. /\ copia[k].upd \in Nat /\ confirmada[k].upd \in Nat /\ pendiente[k].upd \in Nat
        /\ copia[k].upd <= confirmada[k].upd /\ confirmada[k].upd <= reloj
        /\ pendiente[k].tx # 0 =>
             confirmada[k].upd <= pendiente[k].upd /\ pendiente[k].upd <= reloj
    BY SyncTipos DEF SyncIInv, SyncTypeOK, VersionesEnOrden
  <2>2. CASE pendiente[k].tx = x
    BY <1>2, <1>3, <1>4, <2>1, <2>2
  <2>3. CASE pendiente[k].tx # x
    BY <1>3, <2>1, <2>3
  <2> QED BY <2>2, <2>3
<1> QED BY <1>5, <1>6, <1>7, <1>8, <1>11, <1>12 DEF SyncIInv

LEMMA PasoRevertirTx ==
  ASSUME SyncIInv, NEW x \in activas, RevertirTx(x)
  PROVE  SyncIInv'
<1>0. /\ UNCHANGED <<conMarca, paso, upper, marca, cursor, copia, entregadas, ocultas,
                     reloj, confirmada, lentas>>
      /\ Fin(x)
  BY DEF RevertirTx, SinTelefono
<1>1. TxTypeOK' /\ sigTx' = sigTx /\ activas' = activas \ {x}
  BY <1>0, LasTransacciones DEF SyncIInv, SyncTypeOK
<1>2. \A k \in Pk :
        IF pendiente[k].tx = x THEN pendiente'[k] = Nula(k)
                               ELSE pendiente'[k] = pendiente[k]
  BY DEF RevertirTx, Suyas
<1>3. \A k \in Pk : Nula(k) \in Version /\ Nula(k).tx = 0
  BY LaNula
<1>4. \A k \in Pk : pendiente'[k].tx # 0 => pendiente'[k] = pendiente[k]
  BY <1>2, <1>3
<1>5. SyncTypeOK'
  <2>1. pendiente' \in [Pk -> Version]
    BY <1>3 DEF RevertirTx, SyncIInv, SyncTypeOK
  <2>2. \A k \in Pk : /\ pendiente'[k].tx \in activas' \cup {0}
                      /\ confirmada'[k].tx \notin activas'
    BY <1>0, <1>1, <1>2, <1>3 DEF SyncIInv, SyncTypeOK
  <2> QED BY <1>0, <1>1, <2>1, <2>2 DEF SyncIInv, SyncTypeOK
<1>6. EnElPasado'
  BY <1>0, <1>1, <1>4 DEF SyncIInv, EnElPasado
<1>7. MarcaVigente'
  BY <1>0, <1>4 DEF SyncIInv, MarcaVigente
<1>8. CursorEntregado' /\ PendienteConCausa'
  BY <1>0, <1>4, PendientesIguales
<1>9. PerdidaSoloOculta' /\ PerdidaSoloPorInversion' /\ VentaPerdidaSoloLenta'
  BY <1>0, PerdidasIguales
<1>10. VersionesEnOrden'
  BY <1>0, <1>4, VersionesIguales
<1> QED BY <1>5, <1>6, <1>7, <1>8, <1>9, <1>10 DEF SyncIInv

LEMMA PasoPedirPagina == SyncIInv /\ PedirPagina => SyncIInv'
<1> SUFFICES ASSUME SyncIInv, PedirPagina PROVE SyncIInv'
  OBVIOUS
<1>0. /\ UNCHANGED <<conMarca, sigTx, activas, reloj, confirmada, pendiente, lentas,
                     marca, cursor, copia, entregadas, ocultas>>
      /\ upper' = reloj - 1 /\ paso' = "marca"
  BY DEF PedirPagina, SinServidor, txVars, Margen
<1>1. reloj \in Nat /\ reloj # 0 /\ upper' \in Nat /\ upper' < reloj
  BY <1>0, CursorSyncAssumption DEF SyncIInv, SyncTypeOK
<1>2. SyncTypeOK'
  <2>1. upper' \in 0..MaxReloj
    BY <1>1, CursorSyncAssumption DEF SyncIInv, SyncTypeOK
  <2> QED BY <1>0, <2>1 DEF SyncIInv, SyncTypeOK, TxTypeOK
<1>3. EnElPasado'
  BY <1>0, <1>1 DEF SyncIInv, EnElPasado
<1>4. MarcaVigente' /\ CursorEntregado' /\ PendienteConCausa'
  BY <1>0, PendientesIguales DEF MarcaVigente
<1>5. PerdidaSoloOculta' /\ PerdidaSoloPorInversion' /\ VentaPerdidaSoloLenta'
  BY <1>0, PerdidasIguales
<1>6. VersionesEnOrden'
  BY <1>0, VersionesIguales
<1> QED BY <1>2, <1>3, <1>4, <1>5, <1>6 DEF SyncIInv

\* Every transaction that has begun is from now on below the mark or hidden.
LEMMA PasoLeerMarca == SyncIInv /\ LeerMarca => SyncIInv'
<1> SUFFICES ASSUME SyncIInv, LeerMarca PROVE SyncIInv'
  OBVIOUS
<1>0. /\ UNCHANGED <<conMarca, sigTx, activas, reloj, confirmada, pendiente, lentas,
                     upper, cursor, copia, entregadas>>
      /\ marca' = Watermark /\ paso' = "consulta"
      /\ ocultas' = ocultas \cup {t \in Tx : conMarca /\ Watermark <= t /\ t < sigTx}
  BY DEF LeerMarca, SinServidor, txVars
<1>1. Watermark \in 0..Sentinela /\ \A t \in activas : Watermark <= t
  BY LaMarca DEF SyncIInv, SyncTypeOK
<1>2. SyncTypeOK'
  BY <1>0, <1>1 DEF SyncIInv, SyncTypeOK, TxTypeOK
<1>3. EnElPasado'
  BY <1>0 DEF SyncIInv, EnElPasado
<1>4. MarcaVigente'
  <2> SUFFICES ASSUME NEW k \in Pk
               PROVE  /\ pendiente[k].tx # 0 => Watermark <= pendiente[k].tx
                      /\ conMarca => \A v \in {confirmada[k], pendiente[k]} :
                           v.tx # 0 /\ Watermark <= v.tx => v.tx \in ocultas'
    BY <1>0 DEF MarcaVigente
  <2>1. pendiente[k].tx \in activas \cup {0}
    BY DEF SyncIInv, SyncTypeOK
  <2>2. \A v \in {confirmada[k], pendiente[k]} : v.tx # 0 => v.tx \in Tx /\ v.tx < sigTx
    <3>1. /\ sigTx \in Nat /\ sigTx <= MaxTx + 1 /\ MaxTx \in Nat
      BY TransaccionesAssumption DEF SyncIInv, SyncTypeOK, TxTypeOK
    <3>2. confirmada[k].tx \in Nat /\ confirmada[k].tx < sigTx
      BY SyncTipos DEF SyncIInv, EnElPasado
    <3>3. pendiente[k].tx # 0 => pendiente[k].tx \in Tx /\ pendiente[k].tx < sigTx
      BY <2>1, SyncTipos DEF SyncIInv
    <3> QED BY <3>1, <3>2, <3>3 DEF Tx
  <2> QED BY <1>0, <1>1, <2>1, <2>2
<1>5. CursorEntregado' /\ PendienteConCausa'
  BY <1>0, PendientesIguales
<1>6. PerdidaSoloOculta' /\ PerdidaSoloPorInversion' /\ VentaPerdidaSoloLenta'
  BY <1>0, PerdidasIguales
<1>7. VersionesEnOrden'
  BY <1>0, VersionesIguales
<1> QED BY <1>2, <1>3, <1>4, <1>5, <1>6, <1>7 DEF SyncIInv

\* What the page passes over is hidden and younger than the last row it brings.
LEMMA PasoEntregar == SyncIInv /\ Entregar => SyncIInv'
<1> SUFFICES ASSUME SyncIInv, Entregar PROVE SyncIInv'
  OBVIOUS
<1>0. /\ UNCHANGED <<conMarca, sigTx, activas, reloj, confirmada, pendiente, lentas,
                     ocultas>>
      /\ paso = "consulta" /\ paso' = "reposo" /\ upper' = 0 /\ marca' = 0
      /\ cursor' = CursorSiguiente /\ entregadas' = entregadas \cup Pagina
      /\ \A k \in Pk : copia'[k] = IF confirmada[k] \in Pagina THEN confirmada[k]
                                                               ELSE copia[k]
  BY DEF Entregar, FinPagina, SinServidor, txVars
<1>1. /\ Pagina \subseteq Elegibles /\ Elegibles \subseteq Version
      /\ \A v \in Elegibles : /\ v.upd <= upper /\ Despues(v, cursor)
                              /\ conMarca => v.tx < marca
  BY PaginaCerrada DEF Pagina, Elegibles, SyncIInv
<1>2. /\ reloj \in Nat /\ upper \in Nat /\ marca \in Nat /\ upper < reloj /\ reloj # 0
      /\ cursor.upd \in Nat /\ cursor.pk \in Nat
      /\ \A k \in Pk : confirmada[k] \in Version /\ pendiente[k] \in Version
      /\ \A v \in Version : v.upd \in Nat /\ v.pk \in Nat /\ v.tx \in Nat
  BY SyncTipos DEF SyncIInv, EnElPasado, SyncTypeOK
\* The cursor stays, or moves to the last row of the page.
<1>3. ASSUME cursor' # cursor
      PROVE  \E v \in Pagina : /\ cursor'.upd = v.upd /\ cursor'.pk = v.pk
                               /\ cursor' = [upd |-> v.upd, pk |-> v.pk]
                               /\ \A u \in Pagina : ~Despues(u, v)
  <2>1. Pagina # {}
    BY <1>0, <1>3 DEF CursorSiguiente
  <2>2. PICK v \in Pagina : /\ \A u \in Pagina : ~Despues(u, v)
                            /\ CursorSiguiente = [upd |-> v.upd, pk |-> v.pk]
    BY <2>1, ElCursorSiguiente DEF SyncIInv
  <2> QED BY <1>0, <2>2
<1>4. ASSUME NEW r \in Version, Despues(r, cursor), ~Despues(r, cursor')
      PROVE  \E v \in Pagina : /\ ~Despues(r, v) /\ r.upd <= upper
                               /\ conMarca => v.tx < marca
  <2>1. PICK v \in Pagina : cursor'.upd = v.upd /\ cursor'.pk = v.pk
    BY <1>3, <1>4
  <2>2. v.upd <= upper /\ (conMarca => v.tx < marca) /\ v \in Version
    BY <1>1
  <2>3. ~Despues(r, v)
    BY <1>4, <2>1 DEF Despues
  <2>4. r.upd <= v.upd
    BY <1>2, <2>2, <2>3 DEF Despues
  <2>5. r.upd <= upper
    BY <1>2, <2>2, <2>4
  <2> QED BY <2>2, <2>3, <2>5
<1>5. SyncTypeOK'
  <2>1. cursor' \in Posicion
    <3>1. CASE cursor' = cursor
      BY <3>1 DEF SyncIInv, SyncTypeOK
    <3>2. CASE cursor' # cursor
      BY <1>1, <1>3, <3>2 DEF Version, Posicion
    <3> QED BY <3>1, <3>2
  <2>2. copia' \in [Pk -> Version]
    BY <1>2 DEF Entregar, SyncIInv, SyncTypeOK
  <2>3. upper' \in 0..MaxReloj /\ marca' \in 0..Sentinela
    BY <1>0, CursorSyncAssumption, TransaccionesAssumption DEF Sentinela
  <2> QED BY <1>0, <1>1, <2>1, <2>2, <2>3 DEF SyncIInv, SyncTypeOK, TxTypeOK
<1>6. EnElPasado'
  <2>1. cursor'.upd < reloj
    <3>1. CASE cursor' = cursor
      BY <3>1 DEF SyncIInv, EnElPasado
    <3>2. CASE cursor' # cursor
      <4>1. PICK v \in Pagina : cursor'.upd = v.upd
        BY <1>3, <3>2
      <4>2. v \in Version /\ v.upd <= upper
        BY <1>1
      <4> QED BY <1>2, <4>1, <4>2
    <3> QED BY <3>1, <3>2
  <2>2. upper' < reloj
    BY <1>0, <1>2
  <2>3. \A k \in Pk : confirmada[k].tx = 0 => copia'[k] = confirmada[k]
    BY <1>0 DEF SyncIInv, EnElPasado
  <2> QED BY <1>0, <2>1, <2>2, <2>3 DEF SyncIInv, EnElPasado
<1>7. MarcaVigente'
  BY <1>0 DEF MarcaVigente
<1>8. CursorEntregado'
  BY <1>0, <1>3 DEF SyncIInv, CursorEntregado
<1>9. \A k \in Pk : /\ Adelantada(confirmada[k]) => Adelantada(confirmada[k])'
                    /\ Adelantada(pendiente[k]) => Adelantada(pendiente[k])'
  BY <1>0 DEF Adelantada
<1>10. PendienteConCausa'
  <2> SUFFICES ASSUME conMarca, NEW k \in Pk, pendiente[k].tx # 0,
                      ~Despues(pendiente[k], cursor')
               PROVE  Adelantada(pendiente[k])' /\ pendiente[k].tx \in ocultas
    BY <1>0 DEF PendienteConCausa, Adelantada
  <2>1. CASE ~Despues(pendiente[k], cursor)
    BY <1>9, <2>1 DEF SyncIInv, PendienteConCausa
  <2>2. CASE Despues(pendiente[k], cursor)
    <3>1. PICK v \in Pagina : /\ ~Despues(pendiente[k], v)
                              /\ pendiente[k].upd <= upper /\ v.tx < marca
      BY <1>2, <1>4, <2>2
    <3>2. marca <= pendiente[k].tx /\ pendiente[k].tx \in ocultas
      BY <1>0, <3>1 DEF SyncIInv, MarcaVigente
    <3>3. v.tx < pendiente[k].tx
      <4>1. v.tx \in Nat /\ pendiente[k].tx \in Nat
        BY <1>1, <1>2
      <4> QED BY <1>2, <3>1, <3>2, <4>1
    <3> QED BY <1>0, <3>1, <3>2, <3>3 DEF Adelantada
  <2> QED BY <2>1, <2>2
<1>11. ASSUME NEW k \in Pk, Perdida(k)'
       PROVE  /\ conMarca => confirmada[k].tx \in ocultas
              /\ Adelantada(confirmada[k])'
              /\ ~conMarca => confirmada[k].tx \in lentas
  <2>1. /\ confirmada[k] \notin Pagina /\ copia[k] # confirmada[k]
        /\ ~Despues(confirmada[k], cursor')
    BY <1>0, <1>11 DEF Perdida
  <2>2. confirmada[k].tx # 0 /\ confirmada[k].upd # 0
    BY <2>1 DEF SyncIInv, EnElPasado
  <2>3. CASE ~Despues(confirmada[k], cursor)
    <3>1. Perdida(k)
      BY <2>1, <2>3 DEF Perdida
    <3> QED BY <1>9, <3>1 DEF SyncIInv, PerdidaSoloOculta, PerdidaSoloPorInversion,
             VentaPerdidaSoloLenta
  <2>4. CASE Despues(confirmada[k], cursor)
    <3>1. PICK v \in Pagina : /\ ~Despues(confirmada[k], v)
                              /\ confirmada[k].upd <= upper
                              /\ conMarca => v.tx < marca
      BY <1>2, <1>4, <2>1, <2>4
    <3>2. confirmada[k] \notin Elegibles
      <4>1. confirmada[k] \in Elegibles \ Pagina => Despues(confirmada[k], v)
        BY PaginaCerrada DEF SyncIInv
      <4> QED BY <2>1, <3>1, <4>1
    <3>3. conMarca /\ marca <= confirmada[k].tx
      BY <1>2, <2>2, <2>4, <3>1, <3>2 DEF Elegibles
    <3>4. confirmada[k].tx \in ocultas
      BY <1>0, <2>2, <3>1, <3>3 DEF SyncIInv, MarcaVigente
    <3>5. v.tx < confirmada[k].tx
      <4>1. v.tx \in Nat /\ confirmada[k].tx \in Nat
        BY <1>1, <1>2
      <4> QED BY <1>2, <3>1, <3>3, <4>1
    <3> QED BY <1>0, <3>1, <3>3, <3>4, <3>5 DEF Adelantada
  <2> QED BY <2>3, <2>4
<1>12. PerdidaSoloOculta' /\ PerdidaSoloPorInversion' /\ VentaPerdidaSoloLenta'
  BY <1>0, <1>11 DEF PerdidaSoloOculta, PerdidaSoloPorInversion, VentaPerdidaSoloLenta
<1>13. VersionesEnOrden'
  <2>1. \A k \in Pk : copia'[k].upd <= confirmada[k].upd
    BY <1>0, <1>2 DEF SyncIInv, VersionesEnOrden
  <2> QED BY <1>0, <2>1 DEF SyncIInv, VersionesEnOrden
<1> QED BY <1>5, <1>6, <1>7, <1>8, <1>10, <1>12, <1>13 DEF SyncIInv

LEMMA PasoPerderRespuesta == SyncIInv /\ PerderRespuesta => SyncIInv'
<1> SUFFICES ASSUME SyncIInv, PerderRespuesta PROVE SyncIInv'
  OBVIOUS
<1>0. /\ UNCHANGED <<conMarca, sigTx, activas, reloj, confirmada, pendiente, lentas,
                     ocultas, cursor, copia, entregadas>>
      /\ paso' = "reposo" /\ upper' = 0 /\ marca' = 0
  BY DEF PerderRespuesta, FinPagina, SinServidor, txVars
<1>1. SyncTypeOK'
  <2>1. upper' \in 0..MaxReloj /\ marca' \in 0..Sentinela
    BY <1>0, CursorSyncAssumption, TransaccionesAssumption DEF Sentinela
  <2> QED BY <1>0, <2>1 DEF SyncIInv, SyncTypeOK, TxTypeOK
<1>2. EnElPasado'
  <2>1. 0 < reloj
    BY DEF SyncIInv, SyncTypeOK
  <2> QED BY <1>0, <2>1 DEF SyncIInv, EnElPasado
<1>3. MarcaVigente' /\ CursorEntregado' /\ PendienteConCausa'
  BY <1>0, PendientesIguales DEF MarcaVigente
<1>4. PerdidaSoloOculta' /\ PerdidaSoloPorInversion' /\ VentaPerdidaSoloLenta'
  BY <1>0, PerdidasIguales
<1>5. VersionesEnOrden'
  BY <1>0, VersionesIguales
<1> QED BY <1>1, <1>2, <1>3, <1>4, <1>5 DEF SyncIInv

LEMMA ReposoSync == SyncIInv /\ UNCHANGED syncVars => SyncIInv'
<1> SUFFICES ASSUME SyncIInv, UNCHANGED syncVars PROVE SyncIInv'
  OBVIOUS
<1>0. UNCHANGED <<sigTx, activas, conMarca, reloj, confirmada, pendiente, paso, upper,
                  marca, cursor, copia, entregadas, ocultas, lentas>>
  BY DEF syncVars
<1>1. SyncTypeOK' /\ EnElPasado' /\ MarcaVigente'
  BY <1>0 DEF SyncIInv, SyncTypeOK, TxTypeOK, EnElPasado, MarcaVigente
<1>2. CursorEntregado' /\ PendienteConCausa'
  BY <1>0, PendientesIguales
<1>3. PerdidaSoloOculta' /\ PerdidaSoloPorInversion' /\ VentaPerdidaSoloLenta'
  BY <1>0, PerdidasIguales
<1>4. VersionesEnOrden'
  BY <1>0, VersionesIguales
<1> QED BY <1>1, <1>2, <1>3, <1>4 DEF SyncIInv

LEMMA InductivaSync == SyncIInv /\ [SyncNext]_syncVars => SyncIInv'
<1> SUFFICES ASSUME SyncIInv, [SyncNext]_syncVars PROVE SyncIInv'
  OBVIOUS
<1>1. CASE Tic
  BY <1>1, PasoTic
<1>2. CASE EscritoresCache
  <2>1. CASE AbrirTx
    BY <2>1, PasoAbrirTx
  <2>2. ASSUME NEW x \in activas, ConfirmarTx(x) PROVE SyncIInv'
    BY <2>2, PasoConfirmarTx
  <2>3. ASSUME NEW x \in activas, RevertirTx(x) PROVE SyncIInv'
    BY <2>3, PasoRevertirTx
  <2>4. ASSUME NEW x \in activas, NEW k \in Pk, EscribirFila(x, k) PROVE SyncIInv'
    BY <2>4, PasoEscribirFila
  <2> QED BY <1>2, <2>1, <2>2, <2>3, <2>4 DEF EscritoresCache
<1>3. CASE PedirPagina
  BY <1>3, PasoPedirPagina
<1>4. CASE LeerMarca
  BY <1>4, PasoLeerMarca
<1>5. CASE Entregar
  BY <1>5, PasoEntregar
<1>6. CASE PerderRespuesta
  BY <1>6, PasoPerderRespuesta
<1>7. CASE UNCHANGED syncVars
  BY <1>7, ReposoSync
<1> QED BY <1>1, <1>2, <1>3, <1>4, <1>5, <1>6, <1>7 DEF SyncNext

-----------------------------------------------------------------------------
(* The theorems of the sync *)

\* The inductive invariant of the sync holds for any rows, page size, clock and
\* transactions.
THEOREM SyncInvariante == SyncSpec => []SyncIInv
<1>1. SyncInit => SyncIInv
  BY AlEmpezarSync
<1>2. SyncIInv /\ [SyncNext]_syncVars => SyncIInv'
  BY InductivaSync
<1> QED BY <1>1, <1>2, PTL DEF SyncSpec

\* A cache loses a version to the phone only by delivering one stamped no earlier;
\* where the watermark applies, one of an older transaction.
THEOREM PerdidaConInversion == SyncSpec => []PerdidaSoloPorInversion
<1>1. SyncIInv => PerdidaSoloPorInversion
  BY DEF SyncIInv
<1> QED BY <1>1, SyncInvariante, PTL

\* Where the watermark applies, only versions of transactions that some page hid
\* are lost.
THEOREM PerdidaConCausa == SyncSpec => []PerdidaSoloOculta
<1>1. SyncIInv => PerdidaSoloOculta
  BY DEF SyncIInv
<1> QED BY <1>1, SyncInvariante, PTL

\* The margin protects the sync of ventas from every transaction that commits
\* within it.
THEOREM MargenBasta == SyncSpec => []VentaPerdidaSoloLenta
<1>1. SyncIInv => VentaPerdidaSoloLenta
  BY DEF SyncIInv
<1> QED BY <1>1, SyncInvariante, PTL

\* No page takes the phone back: neither its cursor nor its version of a row.
THEOREM NadaRetrocede ==
  SyncSpec => [][/\ ~Despues(cursor, cursor')
                 /\ \A k \in Pk : copia[k].upd <= copia'[k].upd]_syncVars
<1> DEFINE Adelante == /\ ~Despues(cursor, cursor')
                       /\ \A k \in Pk : copia[k].upd <= copia'[k].upd
<1>1. SyncIInv /\ [SyncNext]_syncVars => [Adelante]_syncVars
  <2> SUFFICES ASSUME SyncIInv, SyncNext PROVE Adelante
    OBVIOUS
  <2>1. /\ cursor.upd \in Nat /\ cursor.pk \in Nat
        /\ \A k \in Pk : copia[k].upd \in Nat /\ copia[k].upd <= confirmada[k].upd
    BY SyncTipos DEF SyncIInv, SyncTypeOK, VersionesEnOrden
  <2>2. CASE UNCHANGED <<cursor, copia>>
    BY <2>1, <2>2, DespuesOrdena
  <2>3. CASE Entregar
    <3>1. /\ cursor' = CursorSiguiente
          /\ \A k \in Pk : copia'[k] \in {copia[k], confirmada[k]}
      BY <2>3 DEF Entregar
    <3>2. CASE Pagina = {}
      BY <2>1, <3>1, <3>2, DespuesOrdena DEF CursorSiguiente
    <3>3. CASE Pagina # {}
      <4>1. PICK v \in Pagina : CursorSiguiente = [upd |-> v.upd, pk |-> v.pk]
        BY <3>3, ElCursorSiguiente DEF SyncIInv
      <4>2. Despues(v, cursor) /\ v.upd \in Nat /\ v.pk \in Nat
        <5>1. v \in Elegibles
          BY DEF Pagina
        <5> QED BY <5>1, PaginaCerrada, SyncTipos DEF SyncIInv, Elegibles
      <4>3. cursor'.upd = v.upd /\ cursor'.pk = v.pk
        BY <3>1, <4>1
      <4>4. ~Despues(cursor, cursor')
        BY <2>1, <4>2, <4>3 DEF Despues
      <4> QED BY <2>1, <3>1, <4>4
    <3> QED BY <3>2, <3>3
  <2> QED BY <2>2, <2>3 DEF SyncNext, EscritoresCache, Tic, AbrirTx, EscribirFila,
           ConfirmarTx, RevertirTx, SinTelefono, PedirPagina, LeerMarca, PerderRespuesta
<1> QED BY <1>1, SyncInvariante, PTL DEF SyncSpec
=============================================================================
