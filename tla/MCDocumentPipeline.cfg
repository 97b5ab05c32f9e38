SPECIFICATION FairSpec
CONSTANTS
  Workers = {w1}
  None = None
  Docs = {d1}
  Routes = 2
  MaxAttempts = 2
  MaxPolls = 0
  MaxCrashes = 1
  Cancelled = {}
PROPERTIES
  DeadLetterShown
  UploadIsProcessed
