\* Two callers, two devices and two ports.
CONSTANTS
  None = None
  Ports = {1, 2}
  Devices = {camera, phone}
  Callers = {x, y}
SYMMETRY Interchangeable
SPECIFICATION Spec
INVARIANTS
  TypeOK
  VerdictIsFresh
  StatusTellsPort
PROPERTIES
  RightPort
