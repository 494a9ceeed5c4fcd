\* One guard of each kind of health, two entities, lists of at most one port.
CONSTANTS
  s = s
  t = t
  e = e
  f = f
  StateGuards = {s}
  TemplateGuards = {t}
  Entities = {e, f}
  Sources <- MCSources
  SwitchGuards = {s}
  SwitchOf <- MCSwitchOf
  PoeGuards = {t}
  Labels = {p}
  PortEntities = {e}
  MaxPorts = 1
SPECIFICATION Spec
INVARIANTS
  TypeOK
  IssuesAreCurrent
