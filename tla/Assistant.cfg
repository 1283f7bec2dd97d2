SPECIFICATION TurnSpec
CONSTANTS
  s1 = s1
  buyer = buyer
  manager = manager
  Calls <- MCCalls
  Partners <- MCPartners
  Roles <- MCRoles
  PerResponse <- MCPerResponse
  MaxIters = 2
  MaxRepeatExact = 3
  MaxRepeatPage = 3
  ChunkSize = 1
  MaxOthers = 1
INVARIANT NoRunaway
INVARIANT ToldWhatWasWritten
PROPERTY AlwaysAnswers
CHECK_DEADLOCK FALSE
