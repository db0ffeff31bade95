CONSTANTS
  o1 = o1
  o2 = o2
  s1 = s1
  s2 = s2
  t1 = t1
  t2 = t2
  place1 = place1
  place2 = place2
  cancel1 = cancel1
  cancel2 = cancel2
  cancel3 = cancel3
  prepare1 = prepare1
  prepare2 = prepare2
  ship1 = ship1
  ship2 = ship2
  None = None
  Order = {o1, o2}
  Shipment = {s1, s2}
  Tracking = {t1, t2}
  Request = {place1, place2, cancel1, cancel2, cancel3, prepare1,
             prepare2, ship1, ship2}
  Cmd <- Cmds
  Amount <- Amounts
  Half = 8
  MaxAttempts = 3
  Backends = {"postgres", "memory"}
  Workload <- AllWorkloads
SPECIFICATION FairSpec
INVARIANTS
  TypeOK
  AnswersTrue
  NoConflictAnswered
  NothingDropped
PROPERTIES
  ImplementsOrderLife
  RequestsEnd
CHECK_DEADLOCK FALSE
