CONSTANTS
  DeviceList <- ExampleList
  Servers = {s1}
  None = None
  SlotChoices = {32}
  LeftoverBytes = {0, 255}
  MaxRestarts = 1
SPECIFICATION Spec
INVARIANT NeverAborts
CHECK_DEADLOCK FALSE
