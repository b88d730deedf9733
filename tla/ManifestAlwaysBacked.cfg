SPECIFICATION PublishSpec
CONSTANTS
  Releases = 3
  MaxDeploy = 4
  MaxLaunch = 2
INVARIANT ManifestAlwaysBacked
CHECK_DEADLOCK FALSE
