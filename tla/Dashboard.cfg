SPECIFICATION DashboardSpec
CONSTANTS
  Spot <- Zones
  Beside <- Neighbours
  Nowhere = Nowhere
  HoldTicks = 2
  MaxPublish = 3
  MaxTick = 3
  MaxBreak = 1
  MaxRestart = 1
  Receiver = {1, 2, 3}
  Slots = 2
  SlotIdLists <- IdLists
  MaxRecord = 2
  MaxCut = 1
  MaxEvents = 2
  LogRing = 2
  LogLimit = 1
  MaxLine = 2
  MaxOutage = 1
  MaxClick = 1
  MaxCutOff = 1
  MaxFeed = 2
INVARIANT HeldZoneIsRecent
PROPERTIES CardKeepsReceiver PageCatchesUp RecordingIsSeen TelemetryCatchesUp
CHECK_DEADLOCK FALSE
