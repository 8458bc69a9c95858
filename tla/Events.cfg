SPECIFICATION FairSpec
CONSTANTS
  t1 = t1
  t2 = t2
  Thread = {t1, t2}
  Kind <- MCKind
  NoThread = NoThread
  Never = Never
  Threshold = 1
  Capacity = 2
  MaxCalls = 3
  MaxTime = 1
  event_to_publish_ = 1
  MaxQueued = 1
INVARIANTS SameOrder OnlySpamIsHeld ReadsAreFaithful
PROPERTIES WorstIsShown
CHECK_DEADLOCK FALSE
