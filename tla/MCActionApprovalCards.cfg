SPECIFICATION Spec
CONSTANTS
  Workers = {w1, w2}
  None = None
  p1 = p1
  Proposals <- MCProposals
  Local = {}
  MaxDeliveryAttempts = 2
  MaxExecutionAttempts = 1
  MaxOperatorCalls = 0
SYMMETRY Symmetry
INVARIANTS
  DecidedWasShown
  OutcomeStaysTrue
