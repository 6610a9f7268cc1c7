CONSTANTS
  DeviceList <- Twins
  Servers = {s1}
  None = None
  SlotChoices = {64}
  LeftoverBytes = {0, 255}
  MaxRestarts = 0
SPECIFICATION Spec
INVARIANT IdsAreUnique
CHECK_DEADLOCK FALSE
