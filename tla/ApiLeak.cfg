CONSTANTS
  Requests = {r1}
  Workers = {w1}
  None = None
  Inputs <- FewInputs
  NumDevices <- OneOfEach
  DriverErrors = {1024}
  IdRange = 2
  SegmentedBodies = FALSE
SPECIFICATION Spec
INVARIANT NothingLeaks
