SPECIFICATION WorkstationSpec
CONSTANTS
  SerialPath = {p1, p2}
  Opener = {c1, c2}
  MaxDevices = 1
  MaxBytes = 2
  Lead = {2}
  Noise = {4}
  MaxWritten = 5
  MaxUnplug = 1
  Board = {b1, b2}
  Host = {h1, h2}
  Tool = {t1, t2}
  MaxRun = 2
  MaxUpset = 1
  Releases = 3
  MaxDeploy = 4
  MaxLaunch = 2
  Call = {r1, r2}
  Path = {model}
  MaxModel = 3
  MaxZones = 4
  MaxEmpty = 2
  BaseSteps <- Bases
  MaxStart = 7
  MaxOther = 2
  MaxWalk = 3
SYMMETRY Interchangeable
INVARIANTS NoSilentGap ConfiguredTakesEffect ManifestIsBacked StatusTellsWhatRuns GuidanceAgrees CapturedIsRecorded
CHECK_DEADLOCK FALSE
