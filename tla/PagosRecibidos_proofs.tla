----------------------- MODULE PagosRecibidos_proofs -----------------------
(***************************************************************************)
(* The pago pipeline is type correct and charges each pago at most once,   *)
(* whatever the number of pagos, requests, retries, faults and restarts.   *)
(***************************************************************************)
EXTENDS PagosRecibidos, TLAPS

USE PagosAssumption

-----------------------------------------------------------------------------
(* The aggregate's operations stay within Fila. *)

LEMMA FilaOps ==
  /\ SinFila \in Fila
  /\ NewPagoRecibido \in Fila
  /\ \A f \in Fila : \A d \in Nat : MarcarAplicada(f, d) \in Fila
  /\ \A f \in Fila : RegistrarFallo(f) \in Fila
<1>1. SinFila \in Fila
  BY DEF Fila, SinFila
<1>2. NewPagoRecibido \in Fila
  BY DEF Fila, SinFila, NewPagoRecibido
<1>3. ASSUME NEW f \in Fila, NEW d \in Nat PROVE MarcarAplicada(f, d) \in Fila
  BY <1>3 DEF Fila, MarcarAplicada
<1>4. ASSUME NEW f \in Fila PROVE RegistrarFallo(f) \in Fila
  <2>1. f.intentos + 1 \in Nat
    BY DEF Fila
  <2> QED BY <2>1 DEF Fila, RegistrarFallo
<1> QED BY <1>1, <1>2, <1>3, <1>4

LEMMA TerminarTipo ==
  ASSUME TypeOK, NEW p \in Proc, NEW s \in Respuesta, Terminar(p, s)
  PROVE  /\ pc' \in [Proc -> Paso]
         /\ res' \in [Peticion -> Respuesta]
         /\ leida' \in [Proc -> Fila]
         /\ nuevo' \in [Proc -> Nat]
<1>1. pc' \in [Proc -> Paso]
  BY DEF TypeOK, Terminar, Paso
<1>2. res' \in [Peticion -> Respuesta]
  BY DEF TypeOK, Terminar, Proc
<1>3. leida' \in [Proc -> Fila] /\ nuevo' \in [Proc -> Nat]
  BY FilaOps DEF TypeOK, Terminar
<1> QED BY <1>1, <1>2, <1>3

LEMMA SoltarTipo ==
  ASSUME TypeOK, NEW p \in Proc, Soltar(p)
  PROVE  candado' \in [Pago -> Proc \cup {Nadie}]
BY DEF TypeOK, Soltar

LEMMA FallaTipo == ASSUME TypeOK, Falla PROVE fallas' \in Nat
BY DEF TypeOK, Falla

LEMMA InitTipo == Init => TypeOK
<1> SUFFICES ASSUME Init PROVE TypeOK OBVIOUS
<1>1. fila \in [Pago -> Fila] /\ leida \in [Proc -> Fila]
  BY FilaOps DEF Init
<1>2. saldo \in [Cargo -> Int] /\ doctos \subseteq [id: Nat, pago: Pago]
  BY DEF Init
<1>3. pc \in [Proc -> Paso] /\ op \in [Proc -> {"aplicar", "crear"}]
  BY DEF Init, Paso
<1>4. arg \in [Proc -> Pago]
  BY DEF Init
<1>5. candado \in [Pago -> Proc \cup {Nadie}] /\ nuevo \in [Proc -> Nat]
  BY DEF Init
<1>6. res \in [Peticion -> Respuesta] /\ enfria \in [Pago -> BOOLEAN]
  BY DEF Init, Respuesta
<1> QED BY <1>1, <1>2, <1>3, <1>4, <1>5, <1>6 DEF TypeOK, Init

LEMMA PasoTipo == TypeOK /\ [Next]_vars => TypeOK'
<1> SUFFICES ASSUME TypeOK, [Next]_vars PROVE TypeOK' OBVIOUS
<1> USE FilaOps
<1>1. ASSUME NEW p \in Proc, CrearPago(p) PROVE TypeOK'
  <2>1. CASE UNCHANGED <<leida, nuevo, res>>
    BY <1>1, <2>1 DEF CrearPago, TypeOK, Paso, Terminar
  <2>2. CASE Terminar(p, "saldo") /\ UNCHANGED op
    BY <1>1, <2>2, TerminarTipo DEF CrearPago, TypeOK, Respuesta
  <2> QED BY <1>1, <2>1, <2>2 DEF CrearPago
<1>2. ASSUME NEW p \in Proc, Insertar(p) PROVE TypeOK'
  BY <1>2 DEF Insertar, TypeOK, Paso
<1>3. ASSUME NEW p \in Proc, InsertarDuplicado(p) PROVE TypeOK'
  BY <1>3, TerminarTipo DEF InsertarDuplicado, TypeOK, Respuesta
<1>4. ASSUME NEW p \in Proc, AplicarPagoForzar(p) PROVE TypeOK'
  BY <1>4 DEF AplicarPagoForzar, TypeOK, Paso
<1>5. ASSUME NEW p \in Proc, LockByID(p) PROVE TypeOK'
  <2>1. CASE fila[arg[p]].estado = "ausente"
    BY <1>5, <2>1, TerminarTipo DEF LockByID, TypeOK, Respuesta
  <2>2. CASE ~(fila[arg[p]].estado = "ausente")
    <3>1. /\ candado' = [candado EXCEPT ![arg[p]] = p]
           /\ UNCHANGED leida
           /\ pc' = [pc EXCEPT ![p] = "leer"]
           /\ UNCHANGED <<fila, doctos, saldo, op, arg, nuevo, lote, enfria,
                          genDocto, res, fallas>>
      BY <1>5, <2>2 DEF LockByID
    <3> QED BY <3>1 DEF TypeOK, Paso
  <2> QED BY <2>1, <2>2
<1>6. ASSUME NEW p \in Proc, LeerBajoCandado(p) PROVE TypeOK'
  <2>1. CASE IsAplicada(fila[arg[p]])
    BY <1>6, <2>1, TerminarTipo, SoltarTipo DEF LeerBajoCandado, TypeOK, Respuesta
  <2>2. CASE ~(IsAplicada(fila[arg[p]]))
    <3>1. /\ leida' = [leida EXCEPT ![p] = fila[arg[p]]]
           /\ UNCHANGED candado
           /\ pc' = [pc EXCEPT ![p] = "writer"]
           /\ UNCHANGED <<fila, doctos, saldo, op, arg, nuevo, lote, enfria,
                          genDocto, res, fallas>>
      BY <1>6, <2>2 DEF LeerBajoCandado
    <3> QED BY <3>1 DEF TypeOK, Paso
  <2> QED BY <2>1, <2>2
<1>7. ASSUME NEW p \in Proc, MicrosipAcepta(p) PROVE TypeOK'
  BY <1>7 DEF MicrosipAcepta, TypeOK, Paso
<1>8. ASSUME NEW p \in Proc, MicrosipRechaza(p) PROVE TypeOK'
  <2>1. CASE Terminar(p, "error")
    BY <1>8, <2>1, TerminarTipo, SoltarTipo DEF MicrosipRechaza, TypeOK, Respuesta
  <2>2. CASE UNCHANGED <<leida, nuevo, res>> /\ pc' = [pc EXCEPT ![p] = "fallo"]
    BY <1>8, <2>2, SoltarTipo DEF MicrosipRechaza, TypeOK, Paso
  <2> QED BY <1>8, <2>1, <2>2 DEF MicrosipRechaza
<1>9. ASSUME NEW p \in Proc, ConfirmarAplicada(p)
      PROVE  /\ fila' \in [Pago -> Fila]
             /\ doctos' \subseteq [id: Nat, pago: Pago]
             /\ saldo' \in [Cargo -> Int]
  BY <1>9 DEF ConfirmarAplicada, TypeOK
<1>10. ASSUME NEW p \in Proc, Commit(p) PROVE TypeOK'
  BY <1>9, <1>10, TerminarTipo, SoltarTipo DEF Commit, TypeOK, Respuesta
<1>11. ASSUME NEW p \in Proc, CommitIncierto(p) PROVE TypeOK'
  BY <1>9, <1>11, TerminarTipo, SoltarTipo, FallaTipo DEF CommitIncierto, TypeOK, Respuesta
<1>12. ASSUME NEW p \in Proc, Abortar(p) PROVE TypeOK'
  BY <1>12, TerminarTipo, SoltarTipo, FallaTipo DEF Abortar, TypeOK, Respuesta
<1>13. ASSUME NEW p \in Proc, LockFallo(p) PROVE TypeOK'
  BY <1>13 DEF LockFallo, TypeOK, Paso
<1>14. ASSUME NEW p \in Proc, Releer(p) PROVE TypeOK'
  <2>1. CASE IsAplicada(fila[arg[p]])
    BY <1>14, <2>1, TerminarTipo, SoltarTipo DEF Releer, TypeOK, Respuesta
  <2>2. CASE ~(IsAplicada(fila[arg[p]]))
    <3>1. /\ leida' = [leida EXCEPT ![p] = fila[arg[p]]]
           /\ UNCHANGED candado
           /\ pc' = [pc EXCEPT ![p] = "anotar"]
           /\ UNCHANGED <<fila, doctos, saldo, op, arg, nuevo, lote, enfria,
                          genDocto, res, fallas>>
      BY <1>14, <2>2 DEF Releer
    <3> QED BY <3>1 DEF TypeOK, Paso
  <2> QED BY <2>1, <2>2
<1>15. ASSUME NEW p \in Proc, AnotarFallo(p) PROVE TypeOK'
  <2>1. fila' \in [Pago -> Fila] /\ enfria' \in [Pago -> BOOLEAN]
    BY <1>15 DEF AnotarFallo, TypeOK
  <2> QED BY <1>15, <2>1, TerminarTipo, SoltarTipo DEF AnotarFallo, TypeOK, Respuesta
<1>16. ASSUME NEW p \in Proc, FalloNoPersistido(p) PROVE TypeOK'
  BY <1>16, TerminarTipo, SoltarTipo, FallaTipo DEF FalloNoPersistido, TypeOK, Respuesta
<1>17. ASSUME Tick PROVE TypeOK'
  <2>1. lote' \subseteq Pago
    BY <1>17 DEF Tick, ListPendientes, Pendientes
  <2>2. pc' \in [Proc -> Paso]
    BY <1>17 DEF Tick, TypeOK, Paso, Proc
  <2> QED BY <1>17, <2>1, <2>2 DEF Tick, TypeOK
<1>18. ASSUME Siguiente PROVE TypeOK'
  BY <1>18 DEF Siguiente, TypeOK, Paso, Proc
<1>19. ASSUME NEW x \in Pago, PasaBackoff(x) PROVE TypeOK'
  BY <1>19 DEF PasaBackoff, TypeOK
<1>20. ASSUME Reinicio PROVE TypeOK'
  BY <1>20 DEF Reinicio, TypeOK, Falla, Paso
<1>21. CASE UNCHANGED vars
  BY <1>21 DEF vars, TypeOK
<1> QED
  BY <1>1, <1>2, <1>3, <1>4, <1>5, <1>6, <1>7, <1>8, <1>10, <1>11, <1>12,
     <1>13, <1>14, <1>15, <1>16, <1>17, <1>18, <1>19, <1>20, <1>21
     DEF Next, Crear, Aplicar, Fallo

\* Every variable keeps its type.
THEOREM TipoCorrecto == Spec => []TypeOK
<1>1. Init => TypeOK
  BY InitTipo
<1>2. TypeOK /\ [Next]_vars => TypeOK'
  BY PasoTipo
<1> QED BY <1>1, <1>2, PTL DEF Spec

-----------------------------------------------------------------------------
(* The inductive invariant.  Most steps are local to one process: they      *)
(* leave the rows and the documents alone, and only lock or unlock a row    *)
(* the process already holds or nobody does.                                *)

LEMMA PasoLocal ==
  ASSUME IInv, TypeOK', YaExiste', NEW p \in Proc,
         UNCHANGED <<fila, doctos, arg, genDocto>>,
         \A q \in Proc \ {p} :
           pc'[q] = pc[q] /\ leida'[q] = leida[q] /\ nuevo'[q] = nuevo[q],
         \A x \in Pago :
           candado[x] = Nadie \/ candado[x] = p \/ candado'[x] = candado[x],
         EnCandado(p)' => candado'[arg[p]] = p,
         pc'[p] \in {"writer", "anotar"} =>
           /\ ~IsAplicada(fila[arg[p]])
           /\ leida'[p].estado = "P"
           /\ leida'[p].intentos = fila[arg[p]].intentos,
         pc'[p] = "anotar" => leida'[p] = fila[arg[p]],
         pc'[p] # "marcar"
  PROVE  IInv'
<1>1. FilaYMicrosipConcuerdan' /\ AusenteSinIntentos'
  BY DEF IInv, FilaYMicrosipConcuerdan, AusenteSinIntentos
<1>2. CandadoEsSuyo'
  <2> SUFFICES ASSUME NEW q \in Proc, EnCandado(q)' PROVE candado'[arg'[q]] = q
    BY DEF CandadoEsSuyo
  <2>1. CASE q = p
    BY <2>1
  <2>2. CASE q # p
    <3>1. candado[arg[q]] = q
      BY <2>2 DEF EnCandado, IInv, CandadoEsSuyo
    <3>2. arg[q] \in Pago
      BY DEF IInv, TypeOK
    <3>3. q # Nadie
      BY DEF Proc
    <3> QED BY <2>2, <3>1, <3>2, <3>3
  <2> QED BY <2>1, <2>2
<1>3. LecturaVigente'
  <2> SUFFICES ASSUME NEW q \in Proc
      PROVE  /\ pc'[q] \in {"writer", "marcar", "anotar"} => ~IsAplicada(fila[arg[q]])
             /\ pc'[q] \in {"writer", "marcar"} =>
                  /\ leida'[q].estado = "P"
                  /\ leida'[q].intentos = fila[arg[q]].intentos
             /\ pc'[q] = "anotar" =>
                  leida'[q] = fila[arg[q]] /\ fila[arg[q]].estado = "P"
    BY DEF LecturaVigente, IsAplicada
  <2>1. CASE q = p
    BY <2>1
  <2>2. CASE q # p
    BY <2>2 DEF IInv, LecturaVigente
  <2> QED BY <2>1, <2>2
<1>4. DoctosFrescos'
  BY DEF IInv, DoctosFrescos
<1> QED BY <1>1, <1>2, <1>3, <1>4 DEF IInv

\* Ending a call satisfies what PasoLocal asks of the process.
LEMMA TerminarLocal ==
  ASSUME IInv, TypeOK', YaExiste', NEW p \in Proc, NEW s \in Respuesta, Terminar(p, s),
         UNCHANGED <<fila, doctos, arg, genDocto>>,
         Soltar(p) \/ UNCHANGED candado
  PROVE  IInv'
<1>1. pc'[p] \in {"lote", "fin"}
  BY DEF Terminar, IInv, TypeOK
<1>2. \A q \in Proc \ {p} :
        pc'[q] = pc[q] /\ leida'[q] = leida[q] /\ nuevo'[q] = nuevo[q]
  BY DEF Terminar, IInv, TypeOK
<1>3. \A x \in Pago :
        candado[x] = Nadie \/ candado[x] = p \/ candado'[x] = candado[x]
  BY DEF Soltar, IInv, TypeOK
<1>4. ~EnCandado(p)'
  BY <1>1 DEF EnCandado
<1> QED BY <1>1, <1>2, <1>3, <1>4, PasoLocal

LEMMA InitIInv == Init => IInv
<1> SUFFICES ASSUME Init PROVE IInv OBVIOUS
<1>1. TypeOK
  BY InitTipo
<1>2. \A x \in Pago : fila[x].estado # "A" /\ fila[x].intentos = 0
  BY DEF Init, SinFila, NewPagoRecibido
<1>3. \A p \in Proc : pc[p] \in {"ocioso", "inicio"}
  BY DEF Init
<1>4. FilaYMicrosipConcuerdan /\ AusenteSinIntentos
  BY <1>2 DEF Init, FilaYMicrosipConcuerdan, IsAplicada, AusenteSinIntentos
<1>5. CandadoEsSuyo /\ LecturaVigente
  BY <1>3 DEF CandadoEsSuyo, EnCandado, LecturaVigente
<1>6. DoctosFrescos
  BY <1>3 DEF Init, DoctosFrescos
<1>7. YaExiste
  BY <1>3 DEF YaExiste
<1> QED BY <1>1, <1>4, <1>5, <1>6, <1>7 DEF IInv

\* The commit of an apply: the row and its document appear together.
LEMMA ConfirmarIInv ==
  ASSUME IInv, TypeOK', YaExiste', NEW p \in Proc, NEW s \in Respuesta, pc[p] = "marcar",
         ConfirmarAplicada(p), Soltar(p), Terminar(p, s),
         UNCHANGED <<op, arg, lote, enfria, genDocto>>
  PROVE  IInv'
<1> DEFINE x == arg[p]
           d == [id |-> nuevo[p], pago |-> x]
<1>1. x \in Pago /\ nuevo[p] \in Nat /\ leida[p] \in Fila /\ candado[x] = p
  BY DEF IInv, TypeOK, CandadoEsSuyo, EnCandado
<1>2. /\ fila'[x].estado = "A" /\ fila'[x].docto = nuevo[p]
      /\ \A y \in Pago \ {x} : fila'[y] = fila[y]
      /\ doctos' = doctos \cup {d}
  BY <1>1 DEF ConfirmarAplicada, MarcarAplicada, IInv, TypeOK, Fila
<1>3. \A e \in doctos : e.pago \in Pago /\ e.pago # x
  BY DEF IInv, TypeOK, FilaYMicrosipConcuerdan, LecturaVigente
<1>4. /\ pc'[p] \in {"lote", "fin"}
      /\ \A q \in Proc \ {p} :
           pc'[q] = pc[q] /\ leida'[q] = leida[q] /\ nuevo'[q] = nuevo[q]
  BY DEF Terminar, IInv, TypeOK
<1>5. \A q \in Proc \ {p} : EnCandado(q) => arg[q] # x
  BY <1>1 DEF IInv, CandadoEsSuyo
<1>6. FilaYMicrosipConcuerdan'
  <2>1. ASSUME NEW y \in Pago, IsAplicada(fila'[y])
        PROVE  [id |-> fila'[y].docto, pago |-> y] \in doctos'
    BY <1>2, <2>1 DEF IInv, FilaYMicrosipConcuerdan
  <2>2. ASSUME NEW e \in doctos'
        PROVE  IsAplicada(fila'[e.pago]) /\ fila'[e.pago].docto = e.id
    BY <1>2, <1>3, <2>2 DEF IInv, FilaYMicrosipConcuerdan, IsAplicada
  <2> QED BY <2>1, <2>2 DEF FilaYMicrosipConcuerdan
<1>7. CandadoEsSuyo'
  <2> SUFFICES ASSUME NEW q \in Proc, EnCandado(q)' PROVE candado'[arg[q]] = q
    BY DEF CandadoEsSuyo
  <2>1. q # p /\ EnCandado(q)
    BY <1>4 DEF EnCandado
  <2>2. candado[arg[q]] = q /\ arg[q] \in Pago /\ arg[q] # x
    BY <2>1, <1>5 DEF IInv, CandadoEsSuyo, TypeOK
  <2> QED BY <2>1, <2>2 DEF Soltar, IInv, TypeOK
<1>8. LecturaVigente'
  <2> SUFFICES ASSUME NEW q \in Proc, pc'[q] \in {"writer", "marcar", "anotar"}
      PROVE  /\ ~IsAplicada(fila'[arg[q]])
             /\ pc'[q] \in {"writer", "marcar"} =>
                  /\ leida'[q].estado = "P"
                  /\ leida'[q].intentos = fila'[arg[q]].intentos
             /\ pc'[q] = "anotar" =>
                  leida'[q] = fila'[arg[q]] /\ fila'[arg[q]].estado = "P"
    BY DEF LecturaVigente
  <2>1. q # p /\ pc[q] = pc'[q] /\ leida'[q] = leida[q]
    BY <1>4
  <2>2. arg[q] \in Pago /\ arg[q] # x
    BY <2>1, <1>5 DEF IInv, TypeOK, EnCandado
  <2>3. fila'[arg[q]] = fila[arg[q]]
    BY <1>2, <2>2
  <2> QED BY <2>1, <2>3 DEF IInv, LecturaVigente
<1>9. DoctosFrescos'
  <2>1. ASSUME NEW e \in doctos' PROVE 1 <= e.id /\ e.id <= genDocto
    BY <1>2, <2>1 DEF IInv, DoctosFrescos
  <2>2. ASSUME NEW q \in Proc, pc'[q] = "marcar"
        PROVE  /\ 1 <= nuevo'[q] /\ nuevo'[q] <= genDocto
               /\ \A e \in doctos' : e.id # nuevo'[q]
               /\ \A r \in Proc : pc'[r] = "marcar" /\ nuevo'[r] = nuevo'[q] => r = q
    BY <1>2, <1>4, <2>2 DEF IInv, DoctosFrescos
  <2> QED BY <2>1, <2>2 DEF DoctosFrescos
<1>10. AusenteSinIntentos'
  BY <1>2 DEF IInv, AusenteSinIntentos
<1> QED BY <1>6, <1>7, <1>8, <1>9, <1>10 DEF IInv

\* The commit of a failure record touches one row, which stays pendiente.
LEMMA AnotarIInv ==
  ASSUME IInv, TypeOK', YaExiste', NEW p \in Proc, AnotarFallo(p)
  PROVE  IInv'
<1> DEFINE x == arg[p]
<1>1. /\ x \in Pago /\ leida[p] \in Fila /\ candado[x] = p
      /\ leida[p] = fila[x] /\ fila[x].estado = "P"
  BY DEF AnotarFallo, IInv, TypeOK, CandadoEsSuyo, EnCandado, LecturaVigente
<1>2. /\ fila'[x].estado = "P"
      /\ \A y \in Pago \ {x} : fila'[y] = fila[y]
      /\ doctos' = doctos /\ arg' = arg /\ genDocto' = genDocto
  BY <1>1 DEF AnotarFallo, RegistrarFallo, IInv, TypeOK, Fila
<1>3. /\ pc'[p] \in {"lote", "fin"}
      /\ \A q \in Proc \ {p} :
           pc'[q] = pc[q] /\ leida'[q] = leida[q] /\ nuevo'[q] = nuevo[q]
  BY DEF AnotarFallo, Terminar, IInv, TypeOK
<1>4. \A q \in Proc \ {p} : EnCandado(q) => arg[q] # x
  BY <1>1 DEF IInv, CandadoEsSuyo
<1>5. FilaYMicrosipConcuerdan'
  <2>1. \A e \in doctos : e.pago \in Pago /\ e.pago # x
    BY <1>1 DEF IInv, TypeOK, FilaYMicrosipConcuerdan, IsAplicada
  <2> QED BY <1>2, <2>1 DEF IInv, FilaYMicrosipConcuerdan, IsAplicada
<1>6. CandadoEsSuyo'
  <2> SUFFICES ASSUME NEW q \in Proc, EnCandado(q)' PROVE candado'[arg[q]] = q
    BY <1>2 DEF CandadoEsSuyo
  <2>1. q # p /\ EnCandado(q)
    BY <1>3 DEF EnCandado
  <2>2. candado[arg[q]] = q /\ arg[q] \in Pago /\ arg[q] # x
    BY <2>1, <1>4 DEF IInv, CandadoEsSuyo, TypeOK
  <2> QED BY <2>1, <2>2 DEF AnotarFallo, Soltar, IInv, TypeOK
<1>7. LecturaVigente'
  <2> SUFFICES ASSUME NEW q \in Proc, pc'[q] \in {"writer", "marcar", "anotar"}
      PROVE  /\ ~IsAplicada(fila'[arg[q]])
             /\ pc'[q] \in {"writer", "marcar"} =>
                  /\ leida'[q].estado = "P"
                  /\ leida'[q].intentos = fila'[arg[q]].intentos
             /\ pc'[q] = "anotar" =>
                  leida'[q] = fila'[arg[q]] /\ fila'[arg[q]].estado = "P"
    BY <1>2 DEF LecturaVigente
  <2>1. q # p /\ pc[q] = pc'[q] /\ leida'[q] = leida[q]
    BY <1>3
  <2>2. arg[q] \in Pago /\ arg[q] # x
    BY <2>1, <1>4 DEF IInv, TypeOK, EnCandado
  <2>3. fila'[arg[q]] = fila[arg[q]]
    BY <1>2, <2>2
  <2> QED BY <2>1, <2>3 DEF IInv, LecturaVigente
<1>8. DoctosFrescos'
  BY <1>2, <1>3 DEF IInv, DoctosFrescos
<1>9. AusenteSinIntentos'
  BY <1>2 DEF IInv, AusenteSinIntentos
<1> QED BY <1>5, <1>6, <1>7, <1>8, <1>9 DEF IInv

-----------------------------------------------------------------------------
(* What a step does to a row: nothing, the commit of an apply, or the       *)
(* commit of one failure record.                                            *)

LEMMA PasoDeFila ==
  ASSUME IInv, [Next]_vars
  PROVE  \/ UNCHANGED <<fila, doctos>>
         \/ \E p \in Proc : pc[p] = "marcar" /\ ConfirmarAplicada(p)
         \/ \E p \in Proc : AnotarFallo(p)
<1>1. ASSUME NEW p \in Proc, Crear(p) \/ AplicarPagoForzar(p)
      PROVE UNCHANGED <<fila, doctos>>
  BY <1>1 DEF Crear, CrearPago, Insertar, InsertarDuplicado, AplicarPagoForzar
<1>2. ASSUME NEW p \in Proc, Aplicar(p)
      PROVE  UNCHANGED <<fila, doctos>>
             \/ (pc[p] = "marcar" /\ ConfirmarAplicada(p)) \/ AnotarFallo(p)
  BY <1>2 DEF Aplicar, LockByID, LeerBajoCandado, MicrosipAcepta,
              MicrosipRechaza, Commit, LockFallo, Releer
<1>3. ASSUME NEW p \in Proc, Fallo(p)
      PROVE  UNCHANGED <<fila, doctos>> \/ (pc[p] = "marcar" /\ ConfirmarAplicada(p))
  BY <1>3 DEF Fallo, CommitIncierto, Abortar, FalloNoPersistido
<1>4. ASSUME \/ Tick \/ Siguiente \/ Reinicio \/ UNCHANGED vars
             \/ \E x \in Pago : PasaBackoff(x)
      PROVE UNCHANGED <<fila, doctos>>
  BY <1>4 DEF Tick, Siguiente, Reinicio, PasaBackoff, vars
<1> QED BY <1>1, <1>2, <1>3, <1>4 DEF Next

\* The commit of an apply and of a failure record, row by row.
LEMMA ConfirmarFila ==
  ASSUME IInv, NEW p \in Proc, pc[p] = "marcar", ConfirmarAplicada(p)
  PROVE  /\ arg[p] \in Pago /\ ~IsAplicada(fila[arg[p]])
         /\ IsAplicada(fila'[arg[p]])
         /\ fila'[arg[p]].intentos = fila[arg[p]].intentos
         /\ \A x \in Pago \ {arg[p]} : fila'[x] = fila[x]
<1>1. arg[p] \in Pago /\ leida[p] \in Fila /\ nuevo[p] \in Nat
  BY DEF IInv, TypeOK
<1>2. /\ ~IsAplicada(fila[arg[p]])
      /\ leida[p].intentos = fila[arg[p]].intentos
  BY DEF IInv, LecturaVigente
<1>3. fila'[arg[p]] = MarcarAplicada(leida[p], nuevo[p])
  BY <1>1 DEF ConfirmarAplicada, IInv, TypeOK
<1>4. /\ MarcarAplicada(leida[p], nuevo[p]).estado = "A"
      /\ MarcarAplicada(leida[p], nuevo[p]).intentos = leida[p].intentos
  BY <1>1 DEF MarcarAplicada, Fila
<1>5. \A x \in Pago \ {arg[p]} : fila'[x] = fila[x]
  BY <1>1 DEF ConfirmarAplicada, IInv, TypeOK
<1> QED BY <1>1, <1>2, <1>3, <1>4, <1>5 DEF IsAplicada

LEMMA AnotarFila ==
  ASSUME IInv, NEW p \in Proc, AnotarFallo(p)
  PROVE  /\ arg[p] \in Pago /\ fila[arg[p]].estado = "P"
         /\ fila'[arg[p]].estado = "P"
         /\ fila'[arg[p]].intentos = fila[arg[p]].intentos + 1
         /\ \A x \in Pago \ {arg[p]} : fila'[x] = fila[x]
<1>1. /\ arg[p] \in Pago /\ leida[p] \in Fila
      /\ leida[p] = fila[arg[p]] /\ fila[arg[p]].estado = "P"
  BY DEF AnotarFallo, IInv, TypeOK, LecturaVigente
<1>2. fila'[arg[p]] = RegistrarFallo(leida[p])
  BY <1>1 DEF AnotarFallo, IInv, TypeOK
<1>3. /\ RegistrarFallo(leida[p]).estado = leida[p].estado
      /\ RegistrarFallo(leida[p]).intentos = leida[p].intentos + 1
  BY <1>1 DEF RegistrarFallo, Fila
<1>4. \A x \in Pago \ {arg[p]} : fila'[x] = fila[x]
  BY <1>1 DEF AnotarFallo, IInv, TypeOK
<1> QED BY <1>1, <1>2, <1>3, <1>4

\* No step makes a row disappear.
LEMMA FilaPermanece ==
  ASSUME IInv, [Next]_vars
  PROVE  \A x \in Pago : fila[x].estado # "ausente" => fila'[x].estado # "ausente"
BY PasoDeFila, ConfirmarFila, AnotarFila DEF IsAplicada

LEMMA PasoExiste == IInv /\ [Next]_vars => YaExiste'
<1> SUFFICES ASSUME IInv, [Next]_vars PROVE YaExiste' OBVIOUS
<1>0. /\ \A x \in Pago : fila[x].estado # "ausente" => fila'[x].estado # "ausente"
      /\ TypeOK /\ YaExiste
  BY FilaPermanece DEF IInv
<1> USE <1>0
<1>g. ASSUME NEW p \in Proc,
             UNCHANGED arg,
             \A q \in Proc \ {p} : pc'[q] = pc[q] /\ op'[q] = op[q],
             pc'[p] = "insertar" => op'[p] = "crear",
             \/ pc'[p] \in {"leer", "fallo", "releer", "anotar"}
             \/ pc'[p] = "writer" /\ op'[p] = "aplicar"
             => fila[arg[p]].estado # "ausente"
      PROVE YaExiste'
  BY <1>g DEF YaExiste, TypeOK
<1>t. ASSUME NEW p \in Proc, NEW s, Terminar(p, s), UNCHANGED <<op, arg>>
      PROVE YaExiste'
  <2>1. pc'[p] \in {"lote", "fin"} /\ \A q \in Proc \ {p} : pc'[q] = pc[q]
    BY <1>t DEF Terminar, TypeOK
  <2> QED BY <1>g, <1>t, <2>1
<1>1. ASSUME NEW p \in Proc, CrearPago(p) PROVE YaExiste'
  <2>1. CASE /\ pc' = [pc EXCEPT ![p] = "insertar"]
             /\ op' = [op EXCEPT ![p] = "crear"]
    <3>1. /\ pc'[p] = "insertar" /\ op'[p] = "crear"
          /\ \A q \in Proc \ {p} : pc'[q] = pc[q] /\ op'[q] = op[q]
      BY <2>1 DEF TypeOK
    <3> QED BY <1>1, <3>1, <1>g DEF CrearPago
  <2>2. CASE Terminar(p, "saldo") /\ UNCHANGED op
    BY <1>1, <2>2, <1>t DEF CrearPago
  <2> QED BY <1>1, <2>1, <2>2 DEF CrearPago
<1>2. ASSUME NEW p \in Proc, Insertar(p) PROVE YaExiste'
  <2>1. /\ pc'[p] = "writer" /\ op'[p] = "crear"
        /\ \A q \in Proc \ {p} : pc'[q] = pc[q]
    BY <1>2 DEF Insertar, YaExiste, TypeOK
  <2> QED BY <1>2, <2>1, <1>g DEF Insertar
<1>3. ASSUME NEW p \in Proc, InsertarDuplicado(p) PROVE YaExiste'
  BY <1>3, <1>t DEF InsertarDuplicado
<1>4. ASSUME NEW p \in Proc, AplicarPagoForzar(p) PROVE YaExiste'
  BY <1>4 DEF AplicarPagoForzar, YaExiste, TypeOK
<1>5. ASSUME NEW p \in Proc, LockByID(p) PROVE YaExiste'
  <2>1. CASE fila[arg[p]].estado = "ausente"
    BY <1>5, <2>1, <1>t DEF LockByID
  <2>2. CASE ~(fila[arg[p]].estado = "ausente")
    <3>1. pc' = [pc EXCEPT ![p] = "leer"] /\ UNCHANGED <<op, arg>>
      BY <1>5, <2>2 DEF LockByID
    <3> QED BY <2>2, <3>1 DEF YaExiste, TypeOK
  <2> QED BY <2>1, <2>2
<1>6. ASSUME NEW p \in Proc, LeerBajoCandado(p) PROVE YaExiste'
  <2>1. CASE IsAplicada(fila[arg[p]])
    BY <1>6, <2>1, <1>t DEF LeerBajoCandado
  <2>2. CASE ~IsAplicada(fila[arg[p]])
    <3>1. /\ pc[p] = "leer" /\ pc' = [pc EXCEPT ![p] = "writer"]
          /\ UNCHANGED <<op, arg>>
      BY <1>6, <2>2 DEF LeerBajoCandado
    <3> QED BY <3>1 DEF YaExiste, TypeOK
  <2> QED BY <2>1, <2>2
<1>7. ASSUME NEW p \in Proc, MicrosipAcepta(p) PROVE YaExiste'
  BY <1>7 DEF MicrosipAcepta, YaExiste, TypeOK
<1>8. ASSUME NEW p \in Proc, MicrosipRechaza(p) PROVE YaExiste'
  <2>1. CASE op[p] = "crear"
    BY <1>8, <2>1, <1>t DEF MicrosipRechaza
  <2>2. CASE op[p] # "crear"
    <3>1. /\ pc[p] = "writer" /\ op[p] = "aplicar"
          /\ pc' = [pc EXCEPT ![p] = "fallo"] /\ UNCHANGED <<op, arg>>
      BY <1>8, <2>2 DEF MicrosipRechaza, TypeOK
    <3> QED BY <3>1 DEF YaExiste, TypeOK
  <2> QED BY <2>1, <2>2
<1>9. ASSUME NEW p \in Proc,
             Commit(p) \/ CommitIncierto(p) \/ Abortar(p) \/ AnotarFallo(p)
             \/ FalloNoPersistido(p)
      PROVE YaExiste'
  BY <1>9, <1>t DEF Commit, CommitIncierto, Abortar, AnotarFallo, FalloNoPersistido
<1>10. ASSUME NEW p \in Proc, LockFallo(p) PROVE YaExiste'
  BY <1>10 DEF LockFallo, YaExiste, TypeOK
<1>11. ASSUME NEW p \in Proc, Releer(p) PROVE YaExiste'
  <2>1. CASE IsAplicada(fila[arg[p]])
    BY <1>11, <2>1, <1>t DEF Releer
  <2>2. CASE ~IsAplicada(fila[arg[p]])
    <3>1. /\ pc[p] = "releer" /\ pc' = [pc EXCEPT ![p] = "anotar"]
          /\ UNCHANGED <<op, arg>>
      BY <1>11, <2>2 DEF Releer
    <3> QED BY <3>1 DEF YaExiste, TypeOK
  <2> QED BY <2>1, <2>2
<1>12. ASSUME Tick PROVE YaExiste'
  BY <1>12 DEF Tick, YaExiste, TypeOK
<1>13. ASSUME Siguiente PROVE YaExiste'
  BY <1>13 DEF Siguiente, YaExiste, TypeOK
<1>14. ASSUME Reinicio PROVE YaExiste'
  BY <1>14 DEF Reinicio, YaExiste
<1>15. ASSUME UNCHANGED vars \/ \E x \in Pago : PasaBackoff(x) PROVE YaExiste'
  BY <1>15 DEF vars, PasaBackoff, YaExiste
<1> QED
  BY <1>1, <1>2, <1>3, <1>4, <1>5, <1>6, <1>7, <1>8, <1>9, <1>10, <1>11,
     <1>12, <1>13, <1>14, <1>15 DEF Next, Crear, Aplicar, Fallo

LEMMA PasoIInv == IInv /\ [Next]_vars => IInv'
<1> SUFFICES ASSUME IInv, [Next]_vars PROVE IInv' OBVIOUS
<1>0. TypeOK /\ TypeOK' /\ YaExiste'
  BY PasoTipo, PasoExiste DEF IInv
<1> USE <1>0
<1>r. "ok" \in Respuesta /\ "saldo" \in Respuesta /\ "error" \in Respuesta
  BY DEF Respuesta
<1>1. ASSUME NEW p \in Proc, CrearPago(p) PROVE IInv'
  <2>1. CASE Importe[arg[p]] <= saldo[CargoDe[arg[p]]]
    <3>1. /\ pc' = [pc EXCEPT ![p] = "insertar"]
          /\ UNCHANGED <<fila, doctos, arg, genDocto, leida, nuevo, candado>>
      BY <1>1, <2>1 DEF CrearPago
    <3>2. pc'[p] = "insertar" /\ \A q \in Proc \ {p} : pc'[q] = pc[q]
      BY <3>1 DEF TypeOK
    <3> QED BY <3>1, <3>2, PasoLocal DEF EnCandado
  <2>2. CASE ~(Importe[arg[p]] <= saldo[CargoDe[arg[p]]])
    BY <1>1, <1>r, <2>2, TerminarLocal DEF CrearPago
  <2> QED BY <2>1, <2>2
<1>2. ASSUME NEW p \in Proc, Insertar(p) PROVE IInv'
  <2>1. /\ pc'[p] = "writer" /\ leida'[p] = NewPagoRecibido
        /\ candado'[arg[p]] = p /\ candado[arg[p]] = Nadie
        /\ \A q \in Proc \ {p} : pc'[q] = pc[q] /\ leida'[q] = leida[q]
        /\ \A x \in Pago \ {arg[p]} : candado'[x] = candado[x]
        /\ UNCHANGED <<fila, doctos, arg, genDocto, nuevo>>
    BY <1>2 DEF Insertar, TypeOK
  <2>2. /\ ~IsAplicada(fila[arg[p]])
        /\ NewPagoRecibido.estado = "P"
        /\ NewPagoRecibido.intentos = fila[arg[p]].intentos
    BY <1>2 DEF Insertar, IsAplicada, NewPagoRecibido, SinFila, IInv,
                AusenteSinIntentos, TypeOK
  <2> QED BY <2>1, <2>2, PasoLocal DEF EnCandado
<1>3. ASSUME NEW p \in Proc, InsertarDuplicado(p) PROVE IInv'
  BY <1>3, <1>r, TerminarLocal DEF InsertarDuplicado
<1>4. ASSUME NEW p \in Proc, AplicarPagoForzar(p) PROVE IInv'
  <2>1. pc'[p] = "bloquear" /\ \A q \in Proc \ {p} : pc'[q] = pc[q]
    BY <1>4 DEF AplicarPagoForzar, TypeOK
  <2> QED BY <1>4, <2>1, PasoLocal DEF AplicarPagoForzar, EnCandado
<1>5. ASSUME NEW p \in Proc, LockByID(p) PROVE IInv'
  <2>1. CASE fila[arg[p]].estado = "ausente"
    BY <1>5, <1>r, <2>1, TerminarLocal DEF LockByID
  <2>2. CASE ~(fila[arg[p]].estado = "ausente")
    <3>1. /\ candado[arg[p]] = Nadie
          /\ candado' = [candado EXCEPT ![arg[p]] = p]
          /\ pc' = [pc EXCEPT ![p] = "leer"]
          /\ UNCHANGED <<fila, doctos, arg, genDocto, leida, nuevo>>
      BY <1>5, <2>2 DEF LockByID
    <3>2. /\ pc'[p] = "leer" /\ \A q \in Proc \ {p} : pc'[q] = pc[q]
          /\ candado'[arg[p]] = p
          /\ \A x \in Pago \ {arg[p]} : candado'[x] = candado[x]
      BY <3>1 DEF TypeOK
    <3> QED BY <3>1, <3>2, PasoLocal
  <2> QED BY <2>1, <2>2
<1>6. ASSUME NEW p \in Proc, LeerBajoCandado(p) PROVE IInv'
  <2>1. CASE IsAplicada(fila[arg[p]])
    BY <1>6, <1>r, <2>1, TerminarLocal DEF LeerBajoCandado
  <2>2. CASE ~IsAplicada(fila[arg[p]])
    <3>1. /\ leida' = [leida EXCEPT ![p] = fila[arg[p]]]
          /\ pc' = [pc EXCEPT ![p] = "writer"]
          /\ UNCHANGED <<fila, doctos, arg, genDocto, candado, nuevo>>
      BY <1>6, <2>2 DEF LeerBajoCandado
    <3>2. /\ pc'[p] = "writer" /\ leida'[p] = fila[arg[p]]
          /\ \A q \in Proc \ {p} : pc'[q] = pc[q] /\ leida'[q] = leida[q]
      BY <3>1 DEF TypeOK
    <3>3. candado'[arg[p]] = p
      BY <1>6, <3>1 DEF LeerBajoCandado, IInv, CandadoEsSuyo, EnCandado
    <3>4. fila[arg[p]].estado = "P"
      <4>1. candado[arg[p]] = p /\ fila[arg[p]].estado \in {"ausente", "P", "A"}
        BY <3>1, <3>3 DEF TypeOK, Fila
      <4>2. fila[arg[p]].estado # "ausente"
        BY <1>6 DEF LeerBajoCandado, IInv, YaExiste
      <4> QED BY <2>2, <4>1, <4>2 DEF IsAplicada
    <3> QED BY <2>2, <3>1, <3>2, <3>3, <3>4, PasoLocal
  <2> QED BY <2>1, <2>2
<1>7. ASSUME NEW p \in Proc, MicrosipAcepta(p) PROVE IInv'
  <2>1. /\ pc[p] = "writer" /\ pc'[p] = "marcar" /\ nuevo'[p] = genDocto + 1
        /\ genDocto' = genDocto + 1 /\ genDocto \in Nat
        /\ \A q \in Proc \ {p} : pc'[q] = pc[q] /\ nuevo'[q] = nuevo[q]
        /\ UNCHANGED <<fila, doctos, arg, candado, leida>>
    BY <1>7 DEF MicrosipAcepta, TypeOK
  <2>2. FilaYMicrosipConcuerdan' /\ AusenteSinIntentos'
    BY <2>1 DEF IInv, FilaYMicrosipConcuerdan, AusenteSinIntentos
  <2>3. CandadoEsSuyo' /\ LecturaVigente'
    BY <2>1 DEF IInv, CandadoEsSuyo, EnCandado, LecturaVigente
  <2>4. \A e \in doctos : e.id \in Nat
    BY DEF TypeOK
  <2>5. \A q \in Proc : nuevo[q] \in Nat
    BY DEF TypeOK
  <2>6. DoctosFrescos'
    BY <2>1, <2>4, <2>5 DEF IInv, DoctosFrescos
  <2> QED BY <2>2, <2>3, <2>6 DEF IInv
<1>8. ASSUME NEW p \in Proc, MicrosipRechaza(p) PROVE IInv'
  <2>1. CASE op[p] = "crear"
    BY <1>8, <1>r, <2>1, TerminarLocal DEF MicrosipRechaza
  <2>2. CASE op[p] # "crear"
    <3>1. /\ pc' = [pc EXCEPT ![p] = "fallo"] /\ Soltar(p)
          /\ UNCHANGED <<fila, doctos, arg, genDocto, leida, nuevo>>
      BY <1>8, <2>2 DEF MicrosipRechaza
    <3>2. /\ pc'[p] = "fallo" /\ \A q \in Proc \ {p} : pc'[q] = pc[q]
          /\ \A x \in Pago : candado[x] = p \/ candado'[x] = candado[x]
      BY <3>1 DEF TypeOK, Soltar
    <3> QED BY <3>1, <3>2, PasoLocal DEF EnCandado
  <2> QED BY <2>1, <2>2
<1>10. ASSUME NEW p \in Proc, Commit(p) PROVE IInv'
  BY <1>10, <1>r, ConfirmarIInv DEF Commit
<1>11. ASSUME NEW p \in Proc, CommitIncierto(p) PROVE IInv'
  BY <1>11, <1>r, ConfirmarIInv DEF CommitIncierto
<1>12. ASSUME NEW p \in Proc, Abortar(p) PROVE IInv'
  BY <1>12, <1>r, TerminarLocal DEF Abortar
<1>13. ASSUME NEW p \in Proc, LockFallo(p) PROVE IInv'
  <2>1. /\ pc'[p] = "releer" /\ \A q \in Proc \ {p} : pc'[q] = pc[q]
        /\ candado[arg[p]] = Nadie /\ candado'[arg[p]] = p
        /\ \A x \in Pago \ {arg[p]} : candado'[x] = candado[x]
    BY <1>13 DEF LockFallo, TypeOK
  <2> QED BY <1>13, <2>1, PasoLocal DEF LockFallo
<1>14. ASSUME NEW p \in Proc, Releer(p) PROVE IInv'
  <2>1. CASE IsAplicada(fila[arg[p]])
    BY <1>14, <1>r, <2>1, TerminarLocal DEF Releer
  <2>2. CASE ~IsAplicada(fila[arg[p]])
    <3>1. /\ leida' = [leida EXCEPT ![p] = fila[arg[p]]]
          /\ pc' = [pc EXCEPT ![p] = "anotar"]
          /\ UNCHANGED <<fila, doctos, arg, genDocto, candado, nuevo>>
      BY <1>14, <2>2 DEF Releer
    <3>2. /\ pc'[p] = "anotar" /\ leida'[p] = fila[arg[p]]
          /\ \A q \in Proc \ {p} : pc'[q] = pc[q] /\ leida'[q] = leida[q]
      BY <3>1 DEF TypeOK
    <3>3. candado'[arg[p]] = p
      BY <1>14, <3>1 DEF Releer, IInv, CandadoEsSuyo, EnCandado
    <3>4. fila[arg[p]].estado = "P"
      <4>1. fila[arg[p]].estado \in {"ausente", "P", "A"}
        BY DEF TypeOK, Fila
      <4>2. fila[arg[p]].estado # "ausente"
        BY <1>14 DEF Releer, IInv, YaExiste
      <4> QED BY <2>2, <4>1, <4>2 DEF IsAplicada
    <3> QED BY <2>2, <3>1, <3>2, <3>3, <3>4, PasoLocal
  <2> QED BY <2>1, <2>2
<1>15. ASSUME NEW p \in Proc, AnotarFallo(p) PROVE IInv'
  BY <1>15, AnotarIInv
<1>16. ASSUME NEW p \in Proc, FalloNoPersistido(p) PROVE IInv'
  BY <1>16, <1>r, TerminarLocal DEF FalloNoPersistido
<1>17. ASSUME Tick PROVE IInv'
  <2>1. pc'[Worker] = "lote" /\ \A q \in Proc \ {Worker} : pc'[q] = pc[q]
    BY <1>17 DEF Tick, TypeOK, Proc
  <2> QED BY <1>17, <2>1, PasoLocal DEF Tick, EnCandado, Proc
<1>18. ASSUME Siguiente PROVE IInv'
  <2>1. /\ pc[Worker] = "lote" /\ pc'[Worker] \in {"ocioso", "bloquear"}
        /\ \A q \in Proc \ {Worker} : pc'[q] = pc[q] /\ arg'[q] = arg[q]
        /\ UNCHANGED <<fila, doctos, candado, leida, nuevo, genDocto>>
    BY <1>18 DEF Siguiente, TypeOK, Proc
  <2>2. FilaYMicrosipConcuerdan' /\ AusenteSinIntentos' /\ DoctosFrescos'
    BY <2>1 DEF IInv, FilaYMicrosipConcuerdan, AusenteSinIntentos, DoctosFrescos
  <2>3. CandadoEsSuyo' /\ LecturaVigente'
    BY <2>1 DEF IInv, CandadoEsSuyo, EnCandado, LecturaVigente
  <2> QED BY <2>2, <2>3 DEF IInv
<1>19. ASSUME NEW x \in Pago, PasaBackoff(x) PROVE IInv'
  BY <1>19 DEF PasaBackoff, IInv, FilaYMicrosipConcuerdan, CandadoEsSuyo,
               EnCandado, LecturaVigente, DoctosFrescos, AusenteSinIntentos
<1>20. ASSUME Reinicio PROVE IInv'
  <2>1. /\ \A q \in Proc : pc'[q] \in {"ocioso", "inicio", "fin"}
        /\ UNCHANGED <<fila, doctos, arg, genDocto>>
    BY <1>20 DEF Reinicio
  <2>2. FilaYMicrosipConcuerdan' /\ AusenteSinIntentos'
    BY <2>1 DEF IInv, FilaYMicrosipConcuerdan, AusenteSinIntentos
  <2>3. CandadoEsSuyo' /\ LecturaVigente' /\ DoctosFrescos'
    BY <2>1 DEF IInv, CandadoEsSuyo, EnCandado, LecturaVigente, DoctosFrescos
  <2> QED BY <2>2, <2>3 DEF IInv
<1>21. CASE UNCHANGED vars
  BY <1>21 DEF vars, IInv, FilaYMicrosipConcuerdan, CandadoEsSuyo, EnCandado,
               LecturaVigente, DoctosFrescos, AusenteSinIntentos
<1> QED
  BY <1>1, <1>2, <1>3, <1>4, <1>5, <1>6, <1>7, <1>8, <1>10, <1>11, <1>12,
     <1>13, <1>14, <1>15, <1>16, <1>17, <1>18, <1>19, <1>20, <1>21
     DEF Next, Crear, Aplicar, Fallo
-----------------------------------------------------------------------------
(* What the invariant gives. *)

\* IInv holds of every reachable state: the row locks, the aggregates in
\* memory and the Microsip documents agree with the rows at every step.
THEOREM Invariante == Spec => []IInv
<1>1. Init => IInv
  BY InitIInv
<1>2. IInv /\ [Next]_vars => IInv'
  BY PasoIInv
<1> QED BY <1>1, <1>2, PTL DEF Spec

\* However many requests, retries and restarts touch a pago, Microsip never
\* holds two documents for it.
THEOREM UnSoloCobro == Spec => []CobroUnico
<1>1. IInv => CobroUnico
  <2> SUFFICES ASSUME IInv, NEW d \in doctos, NEW e \in doctos, d.pago = e.pago
      PROVE d = e
    BY DEF CobroUnico
  <2>1. d \in [id: Nat, pago: Pago] /\ e \in [id: Nat, pago: Pago]
    BY DEF IInv, TypeOK
  <2>2. d.id = e.id
    BY DEF IInv, FilaYMicrosipConcuerdan
  <2> QED BY <2>1, <2>2
<1> QED BY <1>1, Invariante, PTL

\* The rows and Microsip's documents tell the same story at every step.
THEOREM SinHuerfanos == Spec => []FilaYMicrosipConcuerdan
<1>1. IInv => FilaYMicrosipConcuerdan
  BY DEF IInv
<1> QED BY <1>1, Invariante, PTL

\* An applied pago never changes again.
THEOREM AplicadaNoCambia == Spec => AplicadaEsFinal
<1>1. ASSUME IInv, [Next]_vars, NEW x \in Pago, IsAplicada(fila[x])
      PROVE fila'[x] = fila[x]
  <2>1. CASE UNCHANGED <<fila, doctos>>
    BY <2>1
  <2>2. ASSUME NEW p \in Proc, pc[p] = "marcar", ConfirmarAplicada(p)
        PROVE fila'[x] = fila[x]
    BY <1>1, <2>2, ConfirmarFila
  <2>3. ASSUME NEW p \in Proc, AnotarFallo(p)
        PROVE fila'[x] = fila[x]
    BY <1>1, <2>3, AnotarFila DEF IsAplicada
  <2> QED BY <1>1, <2>1, <2>2, <2>3, PasoDeFila
<1>2. IInv /\ [Next]_vars => [\A x \in Pago : IsAplicada(fila[x]) => fila'[x] = fila[x]]_vars
  BY <1>1
<1> QED BY <1>2, Invariante, PTL DEF Spec, AplicadaEsFinal

\* A pendiente row moves by one counted failure at a time, or is applied with
\* its counter intact.
THEOREM CadaFalloCuentaUno == Spec => IntentosExactos
<1>1. ASSUME IInv, [Next]_vars, NEW x \in Pago, fila[x].estado = "P", fila'[x] # fila[x]
      PROVE fila'[x].intentos = IF IsAplicada(fila'[x]) THEN fila[x].intentos
                                ELSE fila[x].intentos + 1
  <2>1. CASE UNCHANGED <<fila, doctos>>
    BY <1>1, <2>1
  <2>2. ASSUME NEW p \in Proc, pc[p] = "marcar", ConfirmarAplicada(p)
        PROVE IsAplicada(fila'[x]) /\ fila'[x].intentos = fila[x].intentos
    BY <1>1, <2>2, ConfirmarFila
  <2>3. ASSUME NEW p \in Proc, AnotarFallo(p)
        PROVE ~IsAplicada(fila'[x]) /\ fila'[x].intentos = fila[x].intentos + 1
    BY <1>1, <2>3, AnotarFila DEF IsAplicada
  <2> QED BY <1>1, <2>1, <2>2, <2>3, PasoDeFila
<1>2. IInv /\ [Next]_vars =>
        [\A x \in Pago :
           fila[x].estado = "P" /\ fila'[x] # fila[x] =>
             fila'[x].intentos = IF IsAplicada(fila'[x]) THEN fila[x].intentos
                                 ELSE fila[x].intentos + 1]_vars
  BY <1>1
<1> QED BY <1>2, Invariante, PTL DEF Spec, IntentosExactos

\* A creation that Microsip refuses leaves no pendiente behind.
THEOREM NadieNacePendiente == Spec => CreacionSinPendientes
<1>1. ASSUME IInv, [Next]_vars, NEW x \in Pago, fila[x].estado = "ausente"
      PROVE fila'[x].estado # "P"
  <2>1. CASE UNCHANGED <<fila, doctos>>
    BY <1>1, <2>1
  <2>2. ASSUME NEW p \in Proc, pc[p] = "marcar", ConfirmarAplicada(p)
        PROVE fila'[x].estado # "P"
    BY <1>1, <2>2, ConfirmarFila DEF IsAplicada
  <2>3. ASSUME NEW p \in Proc, AnotarFallo(p)
        PROVE fila'[x].estado # "P"
    BY <1>1, <2>3, AnotarFila
  <2> QED BY <1>1, <2>1, <2>2, <2>3, PasoDeFila
<1>2. IInv /\ [Next]_vars =>
        [\A x \in Pago : fila[x].estado = "ausente" => fila'[x].estado # "P"]_vars
  BY <1>1
<1> QED BY <1>2, Invariante, PTL DEF Spec, CreacionSinPendientes

-----------------------------------------------------------------------------
(* The refinement: a commit of an apply is a Cobrar, the commit of a failure *)
(* record is a Fallar, and every other step is invisible.                    *)

LEMMA InicioCobro == Init => Cobro!Init
<1> SUFFICES ASSUME Init PROVE Cobro!Init OBVIOUS
<1>1. \A x \in Pago : fila[x] \in {SinFila, NewPagoRecibido}
  BY DEF Init
<1>2. \A x \in Pago : fila[x].estado \in {"ausente", "P"} /\ fila[x].intentos = 0
  BY <1>1 DEF SinFila, NewPagoRecibido
<1> QED BY <1>2 DEF Init, Cobro!Init

LEMMA PasoCobro ==
  ASSUME IInv, TypeOK', [Next]_vars
  PROVE  Cobro!Next \/ UNCHANGED Cobro!cobroVars
<1>1. CASE UNCHANGED <<fila, doctos>>
  BY <1>1 DEF Cobro!cobroVars
<1>2. ASSUME NEW p \in Proc, pc[p] = "marcar", ConfirmarAplicada(p)
      PROVE  Cobro!Next
  <2>0. PICK x \in Pago : x = arg[p]
    BY DEF IInv, TypeOK
  <2> DEFINE d == [id |-> nuevo[p], pago |-> x]
  <2>1. /\ ~IsAplicada(fila[x]) /\ fila'[x].estado = "A"
        /\ fila'[x].intentos = fila[x].intentos
        /\ \A y \in Pago \ {x} : fila'[y] = fila[y]
    BY <1>2, <2>0, ConfirmarFila DEF IsAplicada
  <2>2. doctos' = doctos \cup {d}
    BY <1>2, <2>0 DEF ConfirmarAplicada
  <2>3. \A e \in doctos : e.pago # x /\ e.id # nuevo[p]
    BY <1>2, <2>0, <2>1 DEF IInv, FilaYMicrosipConcuerdan, DoctosFrescos
  <2>4. [y \in Pago |-> fila'[y].estado]
          = [[y \in Pago |-> fila[y].estado] EXCEPT ![x] = "A"]
    BY <2>1
  <2>5. [y \in Pago |-> fila'[y].intentos] = [y \in Pago |-> fila[y].intentos]
    BY <2>1
  <2>6. [y \in Pago |-> fila[y].estado][x] # "A"
    BY <2>1 DEF IsAplicada
  <2>7. d \in doctos' /\ d.pago = x /\ \A e \in doctos : e.id # d.id
    BY <2>2, <2>3
  <2>8. Cobro!Cobrar(x)
    <3> HIDE DEF d
    <3> QED BY <2>2, <2>3, <2>4, <2>5, <2>6, <2>7 DEF Cobro!Cobrar
  <2> QED BY <2>8 DEF Cobro!Next
<1>3. ASSUME NEW p \in Proc, AnotarFallo(p)
      PROVE  Cobro!Next
  <2>0. PICK x \in Pago : x = arg[p]
    BY DEF IInv, TypeOK
  <2>1. /\ fila[x].estado = "P" /\ fila'[x].estado = "P"
        /\ fila'[x].intentos = fila[x].intentos + 1
        /\ \A y \in Pago \ {x} : fila'[y] = fila[y]
    BY <1>3, <2>0, AnotarFila
  <2>2. doctos' = doctos
    BY <1>3 DEF AnotarFallo
  <2>3. [y \in Pago |-> fila'[y].estado] = [y \in Pago |-> fila[y].estado]
    BY <2>1
  <2>4. [y \in Pago |-> fila'[y].intentos]
          = [[y \in Pago |-> fila[y].intentos] EXCEPT ![x] = @ + 1]
    BY <2>1
  <2>5. [y \in Pago |-> fila[y].estado][x] = "P"
    BY <2>1
  <2>6. Cobro!Fallar(x)
    BY <2>2, <2>3, <2>4, <2>5 DEF Cobro!Fallar
  <2> QED BY <2>6 DEF Cobro!Next
<1> QED BY <1>1, <1>2, <1>3, PasoDeFila

\* The pipeline implements the one-charge specification: no interleaving of
\* requests, worker, faults and restarts does what CobroUnaVez forbids.
THEOREM Implementa == Spec => ImplementaCobro
<1>1. Init => Cobro!Init
  BY InicioCobro
<1>2. IInv /\ [Next]_vars => [Cobro!Next]_(Cobro!cobroVars)
  <2>1. IInv /\ [Next]_vars => TypeOK'
    BY PasoTipo DEF IInv
  <2> QED BY <2>1, PasoCobro
<1> QED BY <1>1, <1>2, Invariante, PTL DEF Spec, ImplementaCobro, Cobro!Spec
=============================================================================
