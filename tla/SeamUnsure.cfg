CONSTANTS
  r1 = r1
  r2 = r2
  s1 = s1
  s2 = s2
  Ref = {r1, r2}
  SKU = {s1, s2}
  Order <- Overlapping
  Quantities = {1}
  TTL = 1
  Batch = 2
  MaxTime = 2
  Supply = {1}
  Opening <- OneInAll
  Relay = {k1}
  Rows = 2
SPECIFICATION Spec
INVARIANT StoredKeepsStock
CHECK_DEADLOCK FALSE
