SPECIFICATION FairSpec
CONSTANTS
  h1 = h1
  h2 = h2
  Handler = {h1, h2}
  Capacity = 2
  ReadSize = 1
  MaxSignals = 4
INVARIANTS NoWriteAfterClose CallbackInLifetime
PROPERTIES SignalIsHeard DestructorEnds
CHECK_DEADLOCK FALSE
