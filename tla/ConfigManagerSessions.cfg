SPECIFICATION Spec
CONSTANTS
  Sessions = {s1}
  Anon = anon
  None = none
  Down = down
  p1 = p1
  p2 = p2
  Slots = {p1, p2}
  Calls <- MCSessionsCalls
  Artifacts = TRUE
  Recorded <- MCSessionsHistory
  tx_gain = tx_gain
  pci = pci
  enb_conf = enb_conf
  rr_conf = rr_conf
  Leaves = {tx_gain}
  Files = {enb_conf}
  Good = {low, high}
  OutOfRange = {}
  IllTyped = {}
  FileOf <- MCFileOf
  ReadBack <- MCReadBack
SYMMETRY MCSymmetry
CONSTRAINT SessionsUnexcused
INVARIANTS
  TypeOK
  HolderIsTracked
  OnlyHolderProceeds
  EditsHaveALiveOwner
  ArtifactsFollowStore
