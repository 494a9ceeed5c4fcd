\* Two linked guards, the set-up of one of which may raise.  Their auto switches
\* stay on and nobody snoozes them.
CONSTANTS
  a = a
  b = b
  NoGuard = NoGuard
  NoRecord = NoRecord
  NoWrite = NoWrite
  Guards = {a, b}
  NotifyOnly = {}
  HealthCheck = {}
  ReloadEntry = {}
  TemplateHealth = {}
  Cancellable = {}
  AutoConfigured = {a, b}
  Fallible = {b}
  Switched = {}
  Durations = {}
  Horizon = 1
  AttemptCap = 2
  MaxAttempts <- OneAttempt
  Partners <- Linked
SPECIFICATION EntrySpec
INVARIANTS
  BootIsConsistent
  NoFreeRetry
  UnloadKeepsVerdicts
