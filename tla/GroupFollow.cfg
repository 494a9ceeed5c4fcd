CONSTANTS
  a = a
  b = b
  c = c
  NoGuard = NoGuard
  Guards = {a, b}
  NotifyOnly = {}
  HealthCheck = {a}
  ReloadEntry = {b}
  TemplateHealth = {b}
  Cancellable = {}
  AttemptCap = 3
  MaxAttempts <- MixedAttempts
  Partners <- AllLinked
SPECIFICATION FairSpec
PROPERTIES
  FollowersAreReleased
