------------------------------ MODULE MCCnCall ------------------------------
\* The calls over one association on small instances, see CnCall.
EXTENDS CnCall

OneEach == [k \in Calls |-> 1]
FirstHasTwo == [k \in Calls |-> IF k = 1 THEN 2 ELSE 1]
FirstHasOne == [k \in Calls |-> IF k = 1 THEN 1 ELSE 0]
=============================================================================
