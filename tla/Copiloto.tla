-------------------------------- MODULE Copiloto --------------------------------
(***************************************************************************)
(* The copiloto of internal/reactivacion, for one cliente: the messages he *)
(* sends are answered with drafts or escalated, and operators approve,     *)
(* edit, escalate or dictate.  Every operation reads in one transaction,   *)
(* asks the LLM or the cohort outside any, and writes in another, with no  *)
(* lock and no version; MSP_RX_DECISION only grows.                        *)
(*                                                                         *)
(* The turnos, the note cache and the texts are left out: they are written *)
(* with the decision and decide nothing here.  A crash between the read    *)
(* and the write is one more operation that failed.                        *)
(***************************************************************************)
EXTENDS Naturals, Sequences

CONSTANTS
  Operaciones,    \* the requests in flight
  MaxMensajes,    \* bound: approved drafts queued
  MaxDecisiones,  \* bound: rows of MSP_RX_DECISION
  MaxReloj        \* bound: readings of the clock

ASSUME CopilotoAssumption ==
  /\ MaxMensajes \in Nat
  /\ MaxDecisiones \in Nat
  /\ MaxReloj \in Nat

VARIABLES
  conv,         \* ESTADO of the conversation, "nada" without a row
  decisiones,   \* MSP_RX_DECISION in the order of the commits
  cola,         \* the drafts queued in MSP_RX_MENSAJES, by their approval
  op,           \* [Operaciones -> Operacion]
  reloj         \* readings of the clock so far

copilotoVars == <<conv, decisiones, cola, op, reloj>>

\* What the code ever stores: a first message takes the row from contactado
\* through respondio in one transaction, and nothing calls MarcarInteresado,
\* MarcarEnganche or MarcarDescartado.
Estados == {"nada", "conversando", "escalado"}

\* RESULTADO (an edited draft counts as approved), CREATED_AT and the draft an
\* approval cloned; auxiliary, the decisions stored when its operation began.
Decision == [resultado : {"propuesto", "escalado", "aprobado"},
             creada : Nat, base : Nat, desde : Nat]

Operacion == [paso : {"libre", "llega", "analiza", "aprueba", "escala", "dicta"},
              ahora : Nat, copia : Estados, base : Nat, desde : Nat]

OperacionLibre == [paso |-> "libre", ahora |-> 0, copia |-> "nada", base |-> 0, desde |-> 0]

Decididas == DOMAIN decisiones

\* Mutant: the newest draft, acted upon or not.
VigentePropuesta ==
  CHOOSE i \in Decididas :
    \A j \in Decididas : decisiones[j].resultado = "propuesto" =>
      /\ decisiones[i].resultado = "propuesto"
      /\ decisiones[j].creada <= decisiones[i].creada

\* Mutant: the list is taken to come newest first.
VigenteAlReves ==
  CHOOSE i \in Decididas :
    \A j \in Decididas : decisiones[i].creada <= decisiones[j].creada

\* newestDecisionPorClienteID: the latest CREATED_AT, whatever the order of the
\* commits.  No two readings of the clock are equal here.
Vigente ==
  CHOOSE i \in Decididas :
    \A j \in Decididas : decisiones[j].creada <= decisiones[i].creada

\* pendingDraft.
HayBorrador ==
  Decididas # {} /\ decisiones[Vigente].resultado = "propuesto"
-----------------------------------------------------------------------------
CopilotoInit ==
  /\ conv = "nada"
  /\ decisiones = <<>>
  /\ cola = <<>>
  /\ op = [o \in Operaciones |-> OperacionLibre]
  /\ reloj = 0

Avanza(o, r) == op' = [op EXCEPT ![o] = r]

\* now := clock.Now().
LeeReloj == reloj < MaxReloj /\ reloj' = reloj + 1

Anota(o, resultado) ==
  /\ Len(decisiones) < MaxDecisiones
  /\ decisiones' = Append(decisiones,
       [resultado |-> resultado, creada |-> op[o].ahora,
        base |-> op[o].base, desde |-> op[o].desde])

(***************************************************************************)
(* ProcesarMensajeEntrante, for the canal (which may repeat a message) or  *)
(* the operators' simulator.                                               *)
(***************************************************************************)

\* The clock is read first, the conversation after it.
Llega(o) ==
  /\ op[o].paso = "libre"
  /\ LeeReloj
  /\ Avanza(o, [OperacionLibre EXCEPT !.paso = "llega", !.ahora = reloj + 1,
                           !.desde = Len(decisiones)])
  /\ UNCHANGED <<conv, decisiones, cola>>

LeeConversacion(o) ==
  /\ op[o].paso = "llega"
  /\ Avanza(o, [op[o] EXCEPT !.paso = "analiza", !.copia = conv])
  /\ UNCHANGED <<conv, decisiones, cola, reloj>>

\* Mutant: a conversation a human owns goes back to the copiloto.
TransicionSinDueno(copia, resultado) ==
  IF resultado = "escalado" THEN "escalado" ELSE "conversando"

\* transicionarEstado, on the copy read before the LLM was asked.
Transicion(copia, resultado) ==
  IF resultado = "escalado" \/ copia = "escalado" THEN "escalado"
  ELSE "conversando"

\* persistirTurnoEntranteYDecision: triar answers or escalates, an LLM that is
\* off or unreachable escalates, and Upsert writes the WHOLE row.
GuardaEntrante(o) ==
  /\ op[o].paso = "analiza"
  /\ \E resultado \in {"propuesto", "escalado"} :
       /\ Anota(o, resultado)
       /\ conv' = Transicion(op[o].copia, resultado)
  /\ Avanza(o, OperacionLibre)
  /\ UNCHANGED <<cola, reloj>>

(***************************************************************************)
(* The operators.  They read the clock after what they read and asked.     *)
(***************************************************************************)

\* AprobarBorrador and EditarYAprobar up to the draft they found.
Aprueba(o) ==
  /\ op[o].paso = "libre"
  /\ HayBorrador
  /\ Avanza(o, [OperacionLibre EXCEPT !.paso = "aprueba", !.base = Vigente,
                           !.desde = Len(decisiones)])
  /\ UNCHANGED <<conv, decisiones, cola, reloj>>

\* Escalar and Dictar: ErrConversacionNoEncontrada without a row.
Empieza(o, paso) ==
  /\ op[o].paso = "libre"
  /\ conv # "nada"
  /\ Avanza(o, [OperacionLibre EXCEPT !.paso = paso, !.desde = Len(decisiones)])
  /\ UNCHANGED <<conv, decisiones, cola, reloj>>

Escala(o) == Empieza(o, "escala")

Dicta(o) == Empieza(o, "dicta")

Sella(o) ==
  /\ op[o].paso \in {"aprueba", "escala", "dicta"} /\ op[o].ahora = 0
  /\ LeeReloj
  /\ Avanza(o, [op[o] EXCEPT !.ahora = reloj + 1])
  /\ UNCHANGED <<conv, decisiones, cola>>

Sellada(o, paso) == op[o].paso = paso /\ op[o].ahora > 0

\* Mutant: an approval that leaves no decision behind.
GuardaAprobadoSinDecision(o) ==
  /\ Sellada(o, "aprueba")
  /\ Len(cola) < MaxMensajes
  /\ cola' = Append(cola, Len(decisiones) + 1)
  /\ Avanza(o, OperacionLibre)
  /\ UNCHANGED <<conv, decisiones, reloj>>

\* enqueueAprobado: message and decision in one transaction; whether the draft
\* is still pending is not asked again.
GuardaAprobado(o) ==
  /\ Sellada(o, "aprueba")
  /\ Len(cola) < MaxMensajes
  /\ cola' = Append(cola, Len(decisiones) + 1)
  /\ Anota(o, "aprobado")
  /\ Avanza(o, OperacionLibre)
  /\ UNCHANGED <<conv, reloj>>

GuardaEscalada(o) ==
  /\ Sellada(o, "escala")
  /\ Anota(o, "escalado")
  /\ conv' = "escalado"
  /\ Avanza(o, OperacionLibre)
  /\ UNCHANGED <<cola, reloj>>

GuardaDictado(o) ==
  /\ Sellada(o, "dicta")
  /\ Anota(o, "propuesto")
  /\ Avanza(o, OperacionLibre)
  /\ UNCHANGED <<conv, cola, reloj>>

\* A read, the LLM or the transaction fails: nothing was written.
Fracasa(o) ==
  /\ op[o].paso # "libre"
  /\ Avanza(o, OperacionLibre)
  /\ UNCHANGED <<conv, decisiones, cola, reloj>>
-----------------------------------------------------------------------------
CopilotoNext ==
  \E o \in Operaciones :
    \/ Llega(o) \/ LeeConversacion(o) \/ GuardaEntrante(o)
    \/ Aprueba(o) \/ Escala(o) \/ Dicta(o) \/ Sella(o)
    \/ GuardaAprobado(o) \/ GuardaEscalada(o) \/ GuardaDictado(o)
    \/ Fracasa(o)

CopilotoSpec == CopilotoInit /\ [][CopilotoNext]_copilotoVars
-----------------------------------------------------------------------------
(* Properties *)

\* Types: the conversation is in a state the code stores, and decisions and queue
\* only hold what the operations write.
CopilotoTypeOK ==
  /\ conv \in Estados
  /\ decisiones \in Seq(Decision)
  /\ cola \in Seq(Nat)
  /\ op \in [Operaciones -> Operacion]
  /\ reloj \in Nat

Aprobadas ==
  {i \in Decididas : decisiones[i].resultado = "aprobado"}

\* A draft is queued twice only by approvals that overlapped: the later one
\* listed the decisions before the first was stored.  Approving again after
\* the answer of an approval queues nothing.
AprobadoUnaVez ==
  \A i, j \in Aprobadas :
    i < j /\ decisiones[i].base = decisiones[j].base => decisiones[j].desde < i

\* Escalation i was taken back by an answer begun before it and stored after it.
Retomada(i) == \E j \in Decididas : j > i /\ decisiones[j].desde < i

\* A conversation that was escalated is back with the copiloto only because an
\* answer begun before the escalation was stored after it.
TomaConCausa ==
  conv # "escalado" =>
    \A i \in Decididas : decisiones[i].resultado = "escalado" => Retomada(i)

\* A decision stored after the one an operator is shown is hidden behind it only
\* if its operation began before that one was stored: no draft is stranded by
\* what was stored before anybody asked for it.
BorradorVisible ==
  \A u \in Decididas : u > Vigente => decisiones[u].desde < Vigente
-----------------------------------------------------------------------------
(* The inductive invariant *)

\* Message and decision were written together.
ColaAprobada ==
  /\ \A k \in DOMAIN cola : cola[k] \in Aprobadas
  /\ \A i \in Aprobadas : \E k \in DOMAIN cola : cola[k] = i
  /\ \A k, l \in DOMAIN cola : k < l => cola[k] < cola[l]

\* A decision is stamped after all it found stored when its operation began.
SelloPosterior ==
  /\ \A j \in Decididas :
       /\ decisiones[j].desde < j /\ decisiones[j].creada <= reloj
       /\ \A i \in 1..decisiones[j].desde :
            decisiones[i].creada < decisiones[j].creada
  /\ Decididas # {} =>
       \E i \in Decididas : \A j \in Decididas :
         decisiones[j].creada <= decisiones[i].creada

\* An approval is of a draft stored before it began.
BasePrevia == \A i \in Aprobadas : decisiones[i].base \in 1..decisiones[i].desde

\* What an operation x in flight holds: its reading of the clock follows what it
\* found stored, the draft it approves was approved by nobody it could list, and
\* its copy of the conversation obeys TomaConCausa.
EnVuelo(x) ==
  /\ x.desde <= Len(decisiones) /\ x.ahora <= reloj
  /\ x.paso \in {"llega", "analiza"} => x.ahora > 0
  /\ x.ahora > 0 => \A i \in 1..x.desde : decisiones[i].creada < x.ahora
  /\ x.paso = "aprueba" =>
       /\ x.base \in 1..x.desde
       /\ \A i \in Aprobadas : i <= x.desde => decisiones[i].base # x.base
  /\ x.paso = "analiza" /\ x.copia # "escalado" =>
       \A i \in 1..x.desde : decisiones[i].resultado = "escalado" => Retomada(i)

\* All of it holds between two steps of the operations.
CopilotoIInv ==
  /\ CopilotoTypeOK /\ ColaAprobada /\ SelloPosterior /\ BasePrevia
  /\ \A o \in Operaciones : EnVuelo(op[o])
  /\ AprobadoUnaVez /\ TomaConCausa
=============================================================================
