SPECIFICATION FairSpec
CONSTANTS
  control = control
  console = console
  server = server
  Process = {control, console, server}
  OwnGroup = {control, server}
  Server = {server}
  LayerOrder <- MCLayerOrder
  MaxApps = 1
INVARIANTS StoppedMeansGone ServersOutliveLayers
PROPERTIES ShutdownEnds EndsWhenLeftAlone
CHECK_DEADLOCK FALSE
