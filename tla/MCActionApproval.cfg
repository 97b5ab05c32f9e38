SPECIFICATION FairSpec
CONSTANTS
  Workers = {w1, w2}
  None = None
  p1 = p1
  Proposals <- MCProposals
  Local = {p1}
  MaxDeliveryAttempts = 1
  MaxExecutionAttempts = 3
  MaxOperatorCalls = 1
INVARIANTS
  AtMostOneEffect
  WithdrawnIsInert
  ApprovedKeepsItsJob
PROPERTIES
  LifecycleSpec
  ApprovalIsResolved
