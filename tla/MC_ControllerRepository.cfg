CONSTANTS
  o1 = o1
  o2 = o2
  init = init
  k1 = k1
  t1 = t1
  r1 = r1
  r2 = r2
  Null = Null
  NoRequest = NoRequest
  Owner <- MCOwner
  Key <- MCKey
  InitKey = init
  TickKey <- MCTickKey
  Request <- MCRequest
  TickRequest = r1
  LeaseTtl = 2
  MaxTime = 3
SPECIFICATION Spec
SYMMETRY MCOwnersAlike
INVARIANTS
  TypeOK
  ExactlyOnce
  FencedHistory
  LostToTicksOnly
PROPERTIES
  NoPreemption
  ImplementsRunLedger
\* Every process starts once: when all have stopped nothing is left to do.
CHECK_DEADLOCK FALSE
