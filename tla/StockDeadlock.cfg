CONSTANTS
  r1 = r1
  r2 = r2
  r3 = r3
  s1 = s1
  s2 = s2
  s3 = s3
  reserve1 = reserve1
  reserve2 = reserve2
  release1 = release1
  add1 = add1
  sweep = sweep
  confirm1 = confirm1
  new1 = new1
  new2 = new2
  reserve3 = reserve3
  None = None
  Ref = {r1, r2, r3}
  SKU = {s1, s2, s3}
  Request = {reserve1, reserve2, release1, add1, sweep, confirm1,
             new1, new2, reserve3}
  Cmd <- Calls
  LinesOf <- Orders
  Opening <- OpeningStock
  Workload <- Trio
  TTL = 1
  Batch = 1
  MaxAttempts = 3
SPECIFICATION Spec
INVARIANT FinalErrorsAreFinal
CHECK_DEADLOCK FALSE
