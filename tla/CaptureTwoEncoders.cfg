SPECIFICATION Spec
CONSTANTS
  httpd = httpd
  ota = ota
  Caller <- Callers
  MaxStarts = 2
  MaxSeq = 3
SYMMETRY CallerSymmetry
INVARIANT OneEncoder
CHECK_DEADLOCK FALSE
