SPECIFICATION PositionSpec
CONSTANTS
  A = A
  B = B
  C = C
  D = D
  ch1 = ch1
  ch2 = ch2
  Slot <- Slots3
  MinReceivers = 2
  Timeout = 2
  MaxPending = 1
  WindowPackets = 2
  Modulus = 8
  FirstSeq = 6
  Channel <- TwoChannels
  MaxPackets = 3
  MaxTime = 2
  MaxBoots = 2
  MaxInputs = 4
  Node = {n1}
  Stream = {"home", "moved"}
  StreamOf <- Streams
  CutOf <- SteadyCut
  Needed = 1
  Window = 2
  Required = 2
  SeqModulus = 16
  MaxLossInv = 2
  MaxBoot = 2
  MaxSent = 3
  MaxGrams = 6
  MaxSwitch = 2
  None = None
  Zone = {z1, z2}
  NoZone = NoZone
  Receivers = 4
  MaxWeight = 3
SYMMETRY Slots3Symmetry
INVARIANTS JointMeansTogether OneBootPerReceiver NoGapUnnoticed ReadinessEarned FusionOrderFree
PROPERTY PollsDoNotTeach
CHECK_DEADLOCK FALSE
