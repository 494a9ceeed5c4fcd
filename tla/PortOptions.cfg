\* Two labels, lists of up to three ports.
CONSTANTS
  Labels = {p, q}
  PortEntities = {e}
  MaxPorts = 3
  NoDialog = NoDialog
SYMMETRY SameLabels
SPECIFICATION Spec
INVARIANTS
  TypeOK
PROPERTIES
  MergeIsUpsert
