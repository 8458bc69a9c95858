SPECIFICATION Spec
CONSTANTS
  Command = {"activate", "stopActivation", "deactivate", "shutdown", "where", "pause", "continue"}
  Main = "main"
  TransitionSet <- PeriodicTransitionSet
  VerifyOrder <- PeriodicVerifyOrder
  State <- AppState
  AsyncEvent <- AsyncEvents
  Transition <- AppTransition
  Raiser <- AppRaiser
  Called = {"activate", "stopActivation", "deactivate", "shutdown", "where", "pause", "continue"}
  MaxCalls = 2
INVARIANTS EnabledFollowLevel DesiredIsExplained ShutdownInOrder
PROPERTY LifecycleSpec
CHECK_DEADLOCK FALSE
