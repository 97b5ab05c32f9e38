SPECIFICATION FairSpec
CONSTANTS
  live = live
  ocr = ocr
  mail = mail
  NoOne = NoOne
  Requests <- MCRequests
  Priority <- MCPriority
  Patient <- MCPatient
  Calls = 1
  MaxFaults = 1
INVARIANTS
  TablesAgree
  HandlerOwnsGpu
PROPERTIES
  PatientIsServed
