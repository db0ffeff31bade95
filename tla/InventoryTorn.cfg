CONSTANTS
  r1 = r1
  r2 = r2
  s1 = s1
  s2 = s2
  Ref = {r1, r2}
  SKU = {s1, s2}
  Order <- MCOrder
  Quantities = {1, 2}
  TTL = 2
  Batch = 1
  MaxTime = 4
  Supply = {0, 1, 2, 3}
  Opening <- Unstocked
SPECIFICATION Spec
INVARIANT ConfirmedWhole
CHECK_DEADLOCK FALSE
