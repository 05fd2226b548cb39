SPECIFICATION Spec
CONSTANTS
  Asic = {0, 2}
  Asked <- TopOnly
  FakeAsked <- NoFakes
  MaxCalls = 1
  Stops = {8}
  Faults <- NoFaults
INVARIANTS AmplitudeAllowed
