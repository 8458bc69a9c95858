---------------------------- MODULE MCPeriodicApp ----------------------------
EXTENDS PeriodicApp
=============================================================================
