\* Two linked guards, one with a health check and two attempts, one with a
\* template source, a reload, a driver that may be cancelled and no health check,
\* under fair scheduling.
CONSTANTS
  a = a
  b = b
  c = c
  NoGuard = NoGuard
  Guards = {a, b}
  NotifyOnly = {}
  HealthCheck = {a}
  ReloadEntry = {b}
  TemplateHealth = {b}
  Cancellable = {b}
  AttemptCap = 3
  MaxAttempts <- MixedAttempts
  Partners <- AllLinked
SPECIFICATION FairSpec
INVARIANTS
  TypeOK
  TimerMatchesState
  AttemptBudget
  WorkMatchesState
PROPERTIES
  AutoOffIsOff
  TasksEnd
  FaultIsAnswered
  RefinesTurns
