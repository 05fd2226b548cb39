SPECIFICATION Spec
CONSTANTS
  Asic = {0, 2}
  Asked <- PhysicsOnly
  FakeAsked <- NoFakes
  MaxCalls = 1
  Stops = {8}
  Faults <- NoFaults
INVARIANTS PlanesAsNamed
