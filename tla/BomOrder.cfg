SPECIFICATION OrderingSpec
\* After the last confirmation and the last change nothing more is asked of the system.
CHECK_DEADLOCK FALSE
CONSTANTS
  q1 = q1
  q2 = q2
  Suppliers = {1, 2}
  NumMaterials = 2
  Needs <- MCNeeds
  MaxRel = 3
  InitRels <- MCInitRels
  Prices = {1, 2}
  Forms <- MCForms
  s1 = s1
  s2 = s2
  Stamps = {s1, s2}
  Handlers = {q1, q2}
  MaxConfirmations = 2
  MaxChanges = 1
SYMMETRY Interchangeable
INVARIANT OneConfirmationPerStamp
INVARIANT SuccessIsComplete
