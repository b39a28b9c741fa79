------------------------------- MODULE MCCopiloto -------------------------------
EXTENDS Copiloto, TLC
CONSTANTS o1, o2, o3
Simetria == Permutations(Operaciones)
=============================================================================
