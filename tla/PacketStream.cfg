SPECIFICATION PacketSpec
CONSTANTS
  httpd = httpd
  ota = ota
  Caller <- Callers
  MaxStarts = 2
  MaxSeq = 2
  d1 = d1
  Device <- OneDevice
  Modulus = 6
  MaxBoot = 2
  MaxSent = 7
  MaxReceived = 4
  MaxDelay = 2
  MaxWords = 11
  CsiLens = {0, 1}
  MaxOffered = 3
  MaxV2 = 1
  MaxTaken = 2
SYMMETRY CallerSymmetry
INVARIANTS ActiveMeansStreaming SeqsUnique SpanIsTrue LossBounded RecordedIsSent
CHECK_DEADLOCK FALSE
