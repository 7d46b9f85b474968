SPECIFICATION Spec
CHECK_DEADLOCK FALSE
CONSTANTS
  MaxLines = 4
  MaxItems = 3
  MaxCommits = 2
INVARIANTS
  OverlayIsFaithful
