SPECIFICATION AllSpec
CHECK_DEADLOCK FALSE
CONSTANTS
  Base = 1
  MaxDelay = 5
  Jitter = 1
  MaxCrashes = 4
INVARIANTS
  OneServer
  UpMeansServing
PROPERTIES
  CrashIsRestarted
  ShutdownCompletes
