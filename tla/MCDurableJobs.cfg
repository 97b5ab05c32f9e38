SPECIFICATION Spec
CONSTANTS
  Workers = {w1, w2}
  None = None
  j1 = j1
  j2 = j2
  plain = plain
  Jobs <- MCJobs
  JobTypes <- MCTypes
  TypeOf <- MCTypeOf
  AggregateOf <- MCAggregateOf
  Tokenless <- MCTokenless
  Deadlined <- MCDeadlined
  MaxAttempts = 2
  BatchLimit = 2
  MaxRequeues = 0
  MaxDefers = 0
SYMMETRY Symmetry
INVARIANTS
  OwnerFence
  NoStrandedJob
PROPERTIES
  LeaseRespected
  LedgerSpec
