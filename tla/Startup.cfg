CONSTANTS
  l = l
  d = d
  a = a
  f = f
  NoOwner = NoOwner
  NoState = NoState
  Instance = {l, d, a, f}
  OwnerOf <- MCOwnerOf
  Command = {"activate", "load", "shutdown"}
  State = {"idle", "run"}
  Self = f
  Offers <- MCOffers
  Loaded = a
  MayDie = {a}
  MaxCalls = 2
  MaxPolls = 2
  Procedures <- MCProcedures

SPECIFICATION FairSpec
INVARIANTS ReachesOneOwner PassedHasHappened
PROPERTY ProcedureReturns
CHECK_DEADLOCK FALSE
