SPECIFICATION FairSpec
CONSTANTS
  c1 = c1
  c2 = c2
  k1 = k1
  v1 = v1
  v2 = v2
  Client = {c1, c2}
  Timed = {c1}
  Key = {k1}
  Value = {v1, v2}
  NoValue = NoValue
  Nothing = Nothing
  MaxCalls <- MCMaxCalls
  MaxCommands = 1
  MaxFaults = 1
INVARIANTS StaleAnswersStayTrue OwnAnswer
PROPERTIES StoreIsAtomic TimedCallReturns
CHECK_DEADLOCK FALSE
