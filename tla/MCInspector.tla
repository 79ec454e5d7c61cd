---------------------------- MODULE MCInspector ----------------------------
EXTENDS Inspector, TLC

\* Callers and addresses of inflightCall objects are interchangeable.
Symmetry == Permutations(Callers) \cup Permutations(CallIds)
=============================================================================
