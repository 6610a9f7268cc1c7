CONSTANTS
  Requests = {r1, r2, r3}
  Workers = {w1, w2}
  None = None
  Inputs <- FewInputs
  NumDevices <- OneOfEach
  DriverErrors = {1280}
  IdRange = 2
  SegmentedBodies = FALSE
SPECIFICATION FairSpec
INVARIANTS TypeOK UniqueTransactionIds OneHandler RepliesCarryOwnIds RepliesTellApart RepliesCountRequests
PROPERTIES IsAlpacaService EveryRequestAnswered
