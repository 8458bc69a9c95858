SPECIFICATION FairSpec
CONSTANTS
  Command = {"activate", "stopActivation", "deactivate", "shutdown", "where", "pause", "continue"}
  Main = "main"
  TransitionSet <- PeriodicTransitionSet
  VerifyOrder <- PeriodicVerifyOrder
  State <- AppState
  AsyncEvent <- AsyncEvents
  Transition <- AppTransition
  Raiser <- AppRaiser
  Called = {"shutdown"}
  MaxCalls = 1
PROPERTY WaitHearsQuit
CHECK_DEADLOCK FALSE
