CONSTANTS
  DeviceList <- MixedList
  Servers = {s1, s2}
  None = None
  SlotChoices = {2, 63, 64}
  LeftoverBytes = {0, 255}
  MaxRestarts = 1
SPECIFICATION FairSpec
INVARIANTS TypeOK RoutesLeadToTheirType EveryDeviceIsServed ListedIdsAreWritten NumbersSurvive AbortsOnlyWhenFull
PROPERTIES EventuallyServes
CHECK_DEADLOCK FALSE
