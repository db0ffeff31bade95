CONSTANTS
  r1 = r1
  r2 = r2
  r3 = r3
  s1 = s1
  s2 = s2
  reqA = reqA
  reqB = reqB
  reqC = reqC
  reqD = reqD
  reqE = reqE
  Ref = {r1, r2, r3}
  SKU = {s1, s2}
  Request = {reqA}
  Cmd <- Alone
  LinesOf <- Crossed
  Opening <- TwoEach
  TTL = 1
  Batch = 1
  MaxAttempts = 3
  MaxTime = 2
SPECIFICATION Spec
INVARIANT ReservedInFull
CHECK_DEADLOCK FALSE
