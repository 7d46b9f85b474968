SPECIFICATION Spec
CONSTANTS
  Sessions = {}
  Anon = anon
  None = none
  Down = down
  p1 = p1
  p2 = p2
  Slots = {p1, p2}
  Calls <- MCFilesCalls
  Artifacts = FALSE
  Recorded <- MCFilesHistory
  tx_gain = tx_gain
  pci = pci
  enb_conf = enb_conf
  rr_conf = rr_conf
  Leaves = {tx_gain, pci}
  Files = {enb_conf, rr_conf}
  Good = {low, high}
  OutOfRange = {huge}
  IllTyped = {text}
  FileOf <- MCFileOf
  ReadBack <- MCReadBack
SYMMETRY MCSymmetry
CONSTRAINT FilesUnexcused
INVARIANTS
  FilesMatchRunning
  ENBRunsFiles
  ConfigIsValid
PROPERTIES
  ImplementsDatastore
