----------------------------- MODULE MCFramework -----------------------------
EXTENDS Framework

CONSTANTS control, console, server

MCLayerOrder == <<control, console>>
=============================================================================
