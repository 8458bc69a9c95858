--------------------------- MODULE MCLayerTables ---------------------------
EXTENDS LayerTables

\* Two names where one command loads, one where two do.
MCLoaded == [
  estimators |-> {1, 2}, hardwares |-> {1}, plugins |-> {1},
  services |-> {1}, data_visualizers_ |-> {1}, generics |-> {1, 2}]
=============================================================================
