SPECIFICATION FairSpec
CONSTANTS
  Workers = {w1, w2}
  None = None
  j1 = j1
  fenced = fenced
  Jobs <- MCJobs
  JobTypes <- MCTypes
  TypeOf <- MCTypeOf
  AggregateOf <- MCAggregateOf
  Tokenless = {}
  Deadlined = {j1}
  MaxAttempts = 2
  BatchLimit = 1
  MaxRequeues = 2
  MaxDefers = 2
INVARIANTS
  AttemptBudget
PROPERTIES
  CancelIsHonoured
  CheckpointsMoveForward
  EveryJobEnds
