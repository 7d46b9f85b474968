SPECIFICATION Spec
CONSTANTS
  Slots = 2
  MaxSessions = 2
  Targets = {"candidate"}
  Anon = Anon
  None = None
  TTL = 7
  Period = 2
  Wait = 1
  MaxTurn = 1
  MaxMissed = 1
INVARIANTS
  LockIsOwn
  SlotsAreConnected
  ConnectedKeepsLock
PROPERTIES
  EndedIsNotRenewed
