----------------------------- MODULE CobroUnaVez -----------------------------
(***************************************************************************)
(* What the pago outbox promises the collector and the accountant, without *)
(* locks, workers or transactions: a pago is charged to Microsip at most   *)
(* once, the charge and the row that remembers it appear together, a       *)
(* charged pago never changes again, and a refused attempt is counted one  *)
(* by one.  PagosRecibidos is shown to implement this module.              *)
(***************************************************************************)
EXTENDS Integers

CONSTANT Pago

VARIABLES
  estado,    \* [Pago -> {"ausente", "P", "A"}]: the row of each pago
  intentos,  \* [Pago -> Nat]: refused attempts on record
  doctos     \* the Microsip documents, [id, pago]

cobroVars == <<estado, intentos, doctos>>

Init ==
  /\ estado \in [Pago -> {"ausente", "P"}]
  /\ intentos = [x \in Pago |-> 0]
  /\ doctos = {}

\* The pago, new or pending, is charged by a document of its own.
Cobrar(x) ==
  /\ estado[x] # "A"
  /\ \A e \in doctos : e.pago # x
  /\ \E d \in doctos' :
       /\ d.pago = x
       /\ \A e \in doctos : e.id # d.id
       /\ doctos' = doctos \cup {d}
  /\ estado' = [estado EXCEPT ![x] = "A"]
  /\ UNCHANGED intentos

\* A refused attempt on a pending pago is counted.
Fallar(x) ==
  /\ estado[x] = "P"
  /\ intentos' = [intentos EXCEPT ![x] = @ + 1]
  /\ UNCHANGED <<estado, doctos>>

Next == \E x \in Pago : Cobrar(x) \/ Fallar(x)

Spec == Init /\ [][Next]_cobroVars
==============================================================================
