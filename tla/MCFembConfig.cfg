SPECIFICATION Spec
CONSTANTS
  Asic = {0, 2}
  Asked <- MCAsked
  FakeAsked <- MCFakes
  MaxCalls = 2
  Stops = {4, 8}
  Faults <- MCFaults
INVARIANTS TypeOK AsicsAsAsked SourceAsAsked
PROPERTIES PulserOnly KeepsToCall
