SPECIFICATION Spec
CONSTANTS
  a1 = a1
  k1 = k1
  q1 = q1
  q2 = q2
  pw1 = pw1
  pw2 = pw2
  Accounts <- MCAccounts
  Keys <- MCKeys
  Requests <- MCRequests
  Passwords <- MCPasswords
  Edits <- MCEdits
  GivenRoles <- MCGivenRoles
  MaxCrashes = 1
  MaxRequests = 2
INVARIANTS
  AssignmentsSurvive
  AccessFollowsTable
  LastWordStands
PROPERTY EventuallyServes
CHECK_DEADLOCK FALSE
