---------------------------- MODULE TransaccionesFb ----------------------------
(***************************************************************************)
(* The read-write transactions of the Firebird server that the API and the *)
(* Microsip GUI share, as far as MON$TRANSACTIONS shows them: ids handed   *)
(* out in order at BEGIN, and the watermark every reader of the changelog  *)
(* and of the sync caches computes from the active ones.                   *)
(***************************************************************************)
EXTENDS Naturals

CONSTANT MaxTx  \* bound: read-write transactions per behaviour

ASSUME TransaccionesAssumption == MaxTx \in Nat

VARIABLES
  sigTx,    \* the id the next transaction gets
  activas   \* the transactions in MON$STATE = 1, read-only ones left out

txVars == <<sigTx, activas>>

Tx == 1..MaxTx

\* SentinelNoActiveTx: above every transaction id.
Sentinela == MaxTx + 1

\* MinActiveTransactionID.
Watermark ==
  IF activas = {} THEN Sentinela
  ELSE CHOOSE t \in activas : \A u \in activas : t <= u

TxInit == sigTx = 1 /\ activas = {}

Begin ==
  /\ sigTx <= MaxTx
  /\ activas' = activas \cup {sigTx}
  /\ sigTx' = sigTx + 1

\* A transaction ends, by COMMIT or ROLLBACK.
Fin(t) ==
  /\ t \in activas
  /\ activas' = activas \ {t}
  /\ UNCHANGED sigTx

TxTypeOK == sigTx \in 1..(MaxTx + 1) /\ activas \subseteq 1..(sigTx - 1)
=============================================================================
