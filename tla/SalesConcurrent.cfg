SPECIFICATION Spec
CONSTANTS
  m1 = m1
  m2 = m2
  o1 = o1
  o2 = o2
  o3 = o3
  o4 = o4
  c1 = c1
  c2 = c2
  q1 = q1
  q2 = q2
  Materials = {m1}
  Rows = {1, 2}
  MatOf <- MCMatOf
  InitPresent <- MCFirstRow
  InitQty <- MCFirstRowQty
  Movements <- MCUnitMovements
  MaxStock = 2
  Orders = {o1, o2, o3}
  Need <- MCNeed
  Amount <- MCAmount
  Customers = {c1}
  CustOf <- MCCustOf
  AuditPassed = {c1}
  CreditLimit <- MCLimitOfTwo
  Requests = {q1, q2}
  Endpoints = {"approve", "cancel", "delete", "moveIn", "moveOut", "editCustomer"}
SYMMETRY Goroutines
INVARIANT ReservationLedger
INVARIANT ApprovedAtMostOnce
INVARIANT CreditOvershootBounded
PROPERTY ClosedStaysClosed
PROPERTY KeepsPoolPromise
