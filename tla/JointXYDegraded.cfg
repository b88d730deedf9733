SPECIFICATION Spec
CONSTANTS
  A = A
  B = B
  C = C
  D = D
  ch1 = ch1
  ch2 = ch2
  Slot <- Slots4
  MinReceivers = 3
  Timeout = 2
  MaxPending = 2
  WindowPackets = 1
  Modulus = 8
  FirstSeq = 6
  Channel <- OneChannel
  MaxPackets = 3
  MaxTime = 3
  MaxBoots = 1
  MaxInputs = 5
SYMMETRY Slots4Symmetry
INVARIANT DegradedReachesRuntime
CHECK_DEADLOCK FALSE
