\* The library classes; what only uses up a bound may stop, and so may two
\* threads that lock two poses in opposite orders.
CONSTANTS
  Ids = {"loop", "read"}
  WindowSize = 2
  MaxDuration = 2
  MaxTocs = 4

  Processors = 2
  Readings <- MCReadings
  MonitorWindow = 2
  NoFile = NoFile
  cpu_threshold = 60
  mem_threshold = 70
  MaxRounds = 6

  Threads = {s, t}
  Poses = {p, q}
  Modulus = 3
  Nobody = Nobody
  MaxOps = 3

  Inputs = 3
  InputStates <- MCInputStates
  NoWriter = NoWriter
  nodes_specs <- MCnodes_specs
  max_exceeding_divisor = 2
  sync_threshold = 1
  FREQ_MOVING_WINDOW_DEFAULT_SIZE = 2
  MaxChecks = 3
  MaxReadings = 3
  camera = camera
  imu = imu
  teleop = teleop

  Periods = {0, 2, 3}
  runtime_factor = 1
  deadline_factor = 1
  priority = 45
  TimeFactors = {0, 1, 2}
  MaxTime = 12

  NumControllers = 3
  Premultiplier <- MCPremultiplier
  Signals = {1, 2}
  NumGathers = 2
SPECIFICATION Spec
INVARIANTS OrientationsAgree StatsAreExact LoadIsReported OperationsAreAtomic InputsAreWatched SlotsAreKept SignalIsOfOneRound
CHECK_DEADLOCK FALSE
