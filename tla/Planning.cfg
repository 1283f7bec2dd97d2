SPECIFICATION Spec
\* With its demands deleted and no result left there is nothing to plan.
CHECK_DEADLOCK FALSE
CONSTANTS
  m1 = m1
  d1 = d1
  d2 = d2
  q1 = q1
  q2 = q2
  x = x
  Materials = {m1}
  MinStock <- MCMinStock
  InitStock <- MCInitStock
  Demands = {d1, d2}
  Forms <- MCForms
  ExplicitNumbers = {x}
  Requests = {q1, q2}
  Batches = {1}
  MaxResults = 2
  MaxOrders = 2
  MaxRows = 4
  MaxEdits = 1
  MaxStock = 1
SYMMETRY Interchangeable
INVARIANT PlannedOnce
INVARIANT ConvertedOnce
PROPERTY SupplyCountedOnce
