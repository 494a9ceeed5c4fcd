CONSTANTS
  None = None
  Ports = {1, 2}
  Devices = {camera, phone}
  Callers = {x, y, z}
SYMMETRY Interchangeable
SPECIFICATION Spec
INVARIANTS
  JoinersAreSpared
