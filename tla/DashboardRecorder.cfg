SPECIFICATION FairSpec
CONSTANTS
  r1 = r1
  r2 = r2
  Request <- Two
  MaxRecordings = 2
  MaxDatagrams = 2
INVARIANT CompleteIsWhole
PROPERTY StopIsFinal
CHECK_DEADLOCK FALSE
