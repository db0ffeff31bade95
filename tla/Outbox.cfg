CONSTANTS
  Message = {m1, m2, m3}
  Relay = {k1, k2}
  Batch = 2
SPECIFICATION FairSpec
INVARIANTS
  TypeOK
  NothingLost
  CausalOrder
PROPERTIES
  Drained
  ImplementsDelivery
CHECK_DEADLOCK FALSE
