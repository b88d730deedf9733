SPECIFICATION Spec
CONSTANTS
  Httpd = httpd
  Supervisor = supervisor
  a1 = a1
  ApplyTask <- ApplyTasks
  MaxVersion = 2
  Threshold = 3
  VerifyPeriod = 2
  MaxAttempts = 1
INVARIANT BootLoopIsOwn
