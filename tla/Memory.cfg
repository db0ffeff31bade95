CONSTANTS
  r1 = r1
  r2 = r2
  r3 = r3
  s1 = s1
  s2 = s2
  reqA = reqA
  reqB = reqB
  reqC = reqC
  reqD = reqD
  reqE = reqE
  Ref = {r1, r2, r3}
  SKU = {s1, s2}
  Request = {reqA, reqB, reqC, reqD, reqE}
  Cmd <- Rivals
  LinesOf <- Crossed
  Opening <- TwoEach
  TTL = 1
  Batch = 1
  MaxAttempts = 2
  MaxTime = 1
SPECIFICATION Spec
INVARIANTS
  TypeOK
  RowsAddUp
CHECK_DEADLOCK FALSE
