CONSTANTS
  Requests = {r1}
  Workers = {w1}
  None = None
  Inputs <- EveryInput
  NumDevices <- OneOfEach
  DriverErrors <- TableErrors
  IdRange = 4
  SegmentedBodies = FALSE
SPECIFICATION Spec
INVARIANTS HeapAccounting DriverSeesValidRequests HandlersNeverWait
PROPERTIES ErrorsPrecedeDriver IsAlpacaService
