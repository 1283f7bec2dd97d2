SPECIFICATION Spec
CONSTANTS
  po = po
  so = so
  t1 = t1
  t2 = t2
  u1 = u1
  u2 = u2
  q1 = q1
  q2 = q2
  PurchaseOrders = {po}
  SalesOrders = {so}
  Tasks = {t1}
  Users = {u1, u2}
  Groupings <- MCGroupings
  Requests = {q1, q2}
  OneWriter = FALSE
INVARIANT AllActedIsDecided
