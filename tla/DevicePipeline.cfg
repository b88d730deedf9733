SPECIFICATION PipelineSpec
CONSTANTS
  Capacity = 4
  Modulus = 8
  MaxFrames = 9
  MaxDrains = 1
  Torn = Torn
  Depth = 2
  FramesPerBatch = 2
  FlushTicks = 2
  Backoff = 2
  MaxBatches = 5
INVARIANTS TokensMatchFrames
PROPERTIES ImplementsLossyFifo FrameReachesEncoder ImplementsDropOldest BatchLeaves PartialIsFlushed
CHECK_DEADLOCK FALSE
