SPECIFICATION Spec
CONSTANTS
  tx_gain = tx_gain
  pci = pci
  enb = enb
  rr = rr
  low = low
  high = high
  fine = fine
  hash = hash
  huge = huge
  Leaves = {tx_gain, pci}
  Files = {enb, rr}
  Good = {low, high, fine, hash}
  OutOfRange = {huge}
  IllTyped = {text}
  FileOf <- MCFileOf
  Rank <- MCRank
  ReadBack <- MCReadBack
INVARIANTS
  TypeOK
  NothingInvalid
  EditsAreMarked
  CommitIsAllOrNothing
PROPERTIES
  RunningIsOnDisk
  ImplementsDatastore
