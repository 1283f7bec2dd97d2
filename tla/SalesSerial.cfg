SPECIFICATION Spec
CONSTANTS
  m1 = m1
  m2 = m2
  o1 = o1
  o2 = o2
  o3 = o3
  o4 = o4
  c1 = c1
  c2 = c2
  q1 = q1
  q2 = q2
  Materials = {m1, m2}
  Rows = {1, 2, 3}
  MatOf <- MCMatOf
  InitPresent <- MCInitPresent
  InitQty <- MCInitQty
  Movements <- MCMovements
  MaxStock = 3
  Orders = {o1, o2, o3, o4}
  Need <- MCNeed
  Amount <- MCSerialAmount
  Customers = {c1, c2}
  CustOf <- MCCustOf
  AuditPassed = {c1, c2}
  CreditLimit <- MCCreditLimit
  Requests = {q1}
  Endpoints = {"approve", "cancel", "delete", "moveIn", "editCustomer"}
INVARIANT HeldWhileApproved
INVARIANT UsedCreditIsExposure
INVARIANT LockedWithinQuantity
