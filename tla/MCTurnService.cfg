SPECIFICATION FairSpec
CONSTANTS
  r1 = r1
  r2 = r2
  r3 = r3
  r4 = r4
  a = a
  b = b
  Turns <- MCTurns
  Sessions = {a, b}
  SessionOf <- MCSessionOf
  MaxConcurrency = 2
  QueueCapacity = 1
  PoolSize = 3
INVARIANTS
  TypeOK
  AdmissionIsExact
  OverlapOnlyAfterTimeout
PROPERTIES
  NoGhostStart
  SessionOrder
  EveryTurnIsAnswered
CHECK_DEADLOCK FALSE
