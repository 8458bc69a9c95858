--------------------------- MODULE MCChildProcess ---------------------------
EXTENDS ChildProcess

CONSTANTS h1, h2
=============================================================================
