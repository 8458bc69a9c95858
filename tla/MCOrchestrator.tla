--------------------------- MODULE MCOrchestrator ---------------------------
EXTENDS Orchestrator

CONSTANTS t1, t2

MCKind == {[id |-> 2, severity |-> 2], [id |-> 1, severity |-> 3]}
=============================================================================
