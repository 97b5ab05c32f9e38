SPECIFICATION Spec
CONSTANTS
  Workers = {w1, w2}
  None = None
  Docs = {d1}
  Routes = 1
  MaxAttempts = 2
  MaxPolls = 2
  MaxCrashes = 0
  Cancelled = {1}
SYMMETRY Symmetry
INVARIANTS
  SpoolUntilVerified
  CompleteIsShown
PROPERTIES
  ResultsAreFenced
