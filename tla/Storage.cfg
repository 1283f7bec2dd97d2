SPECIFICATION Spec
CONSTANTS
  orders = orders
  lines = lines
  logs = logs
  o1 = o1
  o2 = o2
  db1 = db1
  db2 = db2
  j1 = j1
  j2 = j2
  AllModels <- MCModels
  Headers = orders
  Lines = lines
  Keys <- MCKeys
  Targets <- MCTargets
  Jobs <- MCJobs
  NoTable = NoTable
  MaxWrites = 3
  MaxCrashes = 1
INVARIANT NothingLost
INVARIANT OrdersHaveLines
PROPERTY JobEnds
CHECK_DEADLOCK FALSE
