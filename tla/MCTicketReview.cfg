SPECIFICATION FairSpec
CONSTANTS
  Workers = {reviewer}
  None = None
  Root = Root
  Repair = Repair
  Children = {mail}
  RepairChild = RepairChild
  Direct = Direct
  MaxTurns = 1
  MaxAttempts = 2
  MaxCrashes = 1
  MaxRestarts = 1
PROPERTIES
  ReviewsAreNotLost
  VerdictsNeedEvidence
  WorkerKeepsVerdicts
  EveryReviewEnds
  GuardedExecutionEnds
