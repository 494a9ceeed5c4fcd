\* Three guards, two dialogs at a time.
CONSTANTS
  Guards = {a, b, c}
  Dialogs = {x, y}
  Fallible = {a, b, c}
  Unused = Unused
  Deleted = Deleted
  NoForm = NoForm
  NoEngine = NoEngine
  NoGuard = NoGuard
SYMMETRY Interchangeable
SPECIFICATION Spec
INVARIANTS
  TypeOK
  PartedStayApart
  EnginesAgree
  EnginesAreCurrent
  SearchFindsGroup
