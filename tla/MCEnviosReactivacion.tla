------------------------- MODULE MCEnviosReactivacion -------------------------
EXTENDS EnviosReactivacion
CONSTANTS c1, c2, e1, e2, h1, w

\* By hand a batch asks for more rows than the worker's.
Lotes == [p \in {h1, w} |-> IF p = w THEN 1 ELSE 2]
=============================================================================
