SPECIFICATION Spec
\* Once every version is obsolete, deleted or released nothing more may be done.
CHECK_DEADLOCK FALSE
CONSTANTS
  p1 = p1
  p2 = p2
  b1 = b1
  b2 = b2
  b3 = b3
  c1 = c1
  c2 = c2
  q1 = q1
  q2 = q2
  Products = {p1, p2}
  Boms = {b1, b2, b3}
  Components = {c1, c2}
  Requests = {q1, q2}
  ReadCommitted = FALSE
SYMMETRY Interchangeable
INVARIANT OneDefault
PROPERTY ReleasedIsFinal
