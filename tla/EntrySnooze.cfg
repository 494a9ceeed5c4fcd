\* One guard that may be snoozed for one tick or two.
CONSTANTS
  a = a
  b = b
  NoGuard = NoGuard
  NoRecord = NoRecord
  NoWrite = NoWrite
  Guards = {a}
  NotifyOnly = {}
  HealthCheck = {}
  ReloadEntry = {}
  TemplateHealth = {}
  Cancellable = {}
  AutoConfigured = {a}
  Fallible = {}
  Switched = {a}
  Durations = {1, 2}
  Horizon = 3
  AttemptCap = 2
  MaxAttempts <- OneAttempt
  Partners <- Unlinked
SPECIFICATION EntrySpec
INVARIANTS
  SnoozeTimeKept
