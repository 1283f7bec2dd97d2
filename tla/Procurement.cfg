SPECIFICATION Spec
\* The system stops once its only order has been deleted.
CHECK_DEADLOCK FALSE
CONSTANTS
  m1 = m1
  p1 = p1
  s1 = s1
  s2 = s2
  q1 = q1
  q2 = q2
  Materials = {m1}
  Rows = {1, 2}
  MatOf <- MCMatOf
  InitPresent = {1}
  InitQty <- MCInitQty
  Movements = {}
  MaxStock = 9
  POs = {p1}
  Lines = {1, 2}
  LineRow <- MCLineRow
  Contents <- MCContents
  Rounds <- MCRounds
  ExplicitNumbers = {2}
  Suppliers = {s1, s2}
  AuditPassed = {s1}
  SettableStatuses = {"APPROVED", "CANCELLED"}
  Requests = {q1, q2}
  Endpoints = {"setStatus", "updateFull", "updateHeader", "delete", "receive"}
  MaxEdits = 1
  MaxReceipts = 3
SYMMETRY Goroutines
INVARIANT NoOverReceipt
INVARIANT ReceivedIsAccepted
INVARIANT ReceiptsExplainStock
PROPERTY ReceivedWhileOpen
PROPERTY DeletedStaysDeleted
