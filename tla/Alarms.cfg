SPECIFICATION MCSpec
CHECK_DEADLOCK FALSE
CONSTANTS
  uds = uds
  netconf = netconf
  Tracked <- MCTracked
  Slack = 1
  Reports = {"up", "down"}
  Keys = {"first", "second"}
  Components = {"srsenb", "tca"}
  Of <- MCOf
  Severities = {"major"}
  Cap = 2
  MaxDrain = 1
  MaxID = 3
  Words = {"s1", "clear", "plain"}
  MaxWrites = 6
  Truncations = 1
  Restarts = 1
SYMMETRY Interchangeable
INVARIANTS
  ListIsKnown
  AlarmsFollowSources
PROPERTIES
  ImplementsFeed
