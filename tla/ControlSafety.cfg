SPECIFICATION Spec
CONSTANTS
  trot = trot
  jump = jump
  p1 = p1
  p2 = p2
  p3 = p3
  ID = {trot, jump}
  PythonID = {jump}
  Pid = {p1, p2, p3}
  NoProcess = NoProcess
  Called = {"loadController", "loadExternalController", "loadPythonController", "loadGenerator", "unloadController", "unloadExternalController", "unloadGenerator", "activate"}
  MaxCalls = 3
INVARIANTS NoProcessForgotten NothingLeftBehind OneProcessPerName
SYMMETRY PidSymmetry
CHECK_DEADLOCK FALSE
