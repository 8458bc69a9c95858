SPECIFICATION Spec
CONSTANTS
  Command = {"activate", "stopActivation", "deactivate", "shutdown", "where", "pause", "continue"}
  Main = "main"
  TransitionSet <- PeriodicTransitionSet
  VerifyOrder <- PeriodicVerifyOrder
  State <- AppState
  AsyncEvent <- AsyncEvents
  Transition <- AppTransition
  Raiser <- AppRaiser
  Called = {"activate", "stopActivation"}
  MaxCalls = 2
INVARIANT NoMemoryOfPastEvents
CHECK_DEADLOCK FALSE
