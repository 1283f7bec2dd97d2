\* Turns of 2, 3 and 2 bytes with their newlines; a log of one turn may be archived.
SPECIFICATION MemorySpec
CONSTANTS
  Turns <- MCTurns
  Size <- MCSize
  MaxBytes = 2
  TailChunk = 2
  Interval = 1
  Workers = {w1, w2}
  MaxTorn = 1
  MaxStores = 1
  MaxImport = 1
SYMMETRY Symmetry
INVARIANTS
  StoredIsPendingOrDone
  CountedOnce
  TornCostsOne
  HistoryShowsLast
  ClearForgets
