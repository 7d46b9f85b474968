SPECIFICATION FairSpec
CONSTANTS
  Sessions = {s1, s2}
  Anon = anon
  None = none
  TTL = 2
  MaxLag = 1
INVARIANTS
  TypeOK
  SessionOutlivesItsLocks
PROPERTIES
  FreshLockIsKept
  ImplementsLease
  AgingLeaseEnds
