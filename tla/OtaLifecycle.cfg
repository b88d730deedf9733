SPECIFICATION FairSpec
CONSTANTS
  Httpd = httpd
  Supervisor = supervisor
  a1 = a1
  ApplyTask <- ApplyTasks
  MaxVersion = 3
  Threshold = 3
  VerifyPeriod = 2
  MaxAttempts = 2
INVARIANTS AlwaysBootable FallbackKept SingleFlight
PROPERTIES ImplementsGuarantee TrialDecided LockReleased
