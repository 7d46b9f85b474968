SPECIFICATION MCSpec
CHECK_DEADLOCK FALSE
CONSTANTS
  Buffer = 1
  MaxSamples = 2
  MaxReports = 1
  MaxAlarms = 2
  Deployments <- MCDeployments
  CellList <- MCCellList
  UEs = {"ue1", "ue2", "ue3"}
  CellOf <- MCCellOf
  GaugeLevels = {0, 1}
  MaxDN = 3
  MaxCount = 2
  MaxEvents = 3
  Resets = 1
  Rules = {"bad_signal_condition", "nas_signaling_loss", "high_bler", "bearer_congestion", "low_throughput"}
  Objects = {"node", "cell"}
  MetricsOf <- MCMetricsOf
  Levels <- MCLevels
  Default <- MCDefault
  File <- MCFile
  MaxTime = 3
  MaxEvaluations = 4
  Restarts = 1
INVARIANTS
  NoSendOnClosed
  ReportsAreReal
  AlarmsMatchReports
PROPERTIES
  SnapshotFollows
