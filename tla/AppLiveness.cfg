SPECIFICATION RunningSpec
CONSTANTS
  Command = {"activate", "stopActivation", "deactivate", "shutdown", "where", "pause", "continue"}
  Main = "main"
  TransitionSet <- PeriodicTransitionSet
  VerifyOrder <- PeriodicVerifyOrder
  State <- AppState
  AsyncEvent <- AsyncEvents
  Transition <- AppTransition
  Raiser <- AppRaiser
  Called = {"deactivate", "shutdown", "continue"}
  MaxCalls = 2
PROPERTIES RunQuits QuitCompletes
CHECK_DEADLOCK FALSE
