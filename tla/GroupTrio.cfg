\* Three linked guards, all alike, one attempt each, the driver's word decides.
CONSTANTS
  a = a
  b = b
  c = c
  NoGuard = NoGuard
  Guards = {a, b, c}
  NotifyOnly = {}
  HealthCheck = {}
  ReloadEntry = {}
  TemplateHealth = {}
  Cancellable = {}
  AttemptCap = 2
  MaxAttempts <- OneAttempt
  Partners <- AllLinked
SYMMETRY Interchangeable
SPECIFICATION Spec
INVARIANTS
  WorkMatchesState
  OneAutomaticLeader
  IdleStateTellsHealth
PROPERTIES
  CycleEndReleasesFollowers
