------------------------------ MODULE MCCnAssoc ------------------------------
\* Associations and groups on a small instance, see CnAssoc.
EXTENDS CnAssoc, TLC

Callers == Permutations(Threads \ Patient) \cup Permutations(Patient)
=============================================================================
