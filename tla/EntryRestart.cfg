\* A recovering guard and a notify-only one whose set-up may raise; snoozes of
\* one tick on a clock of two.
CONSTANTS
  a = a
  b = b
  NoGuard = NoGuard
  NoRecord = NoRecord
  NoWrite = NoWrite
  Guards = {a, b}
  NotifyOnly = {b}
  HealthCheck = {}
  ReloadEntry = {}
  TemplateHealth = {}
  Cancellable = {}
  AutoConfigured = {a, b}
  Fallible = {b}
  Switched = {a}
  Durations = {1}
  Horizon = 2
  AttemptCap = 2
  MaxAttempts <- OneAttempt
  Partners <- Unlinked
SPECIFICATION EntrySpec
INVARIANTS
  BootIsConsistent
  CrashKeepsVerdicts
  NoFreeRetry
