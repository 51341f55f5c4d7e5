CONSTANTS
  Hours = 1
  Minutes = 1
  RefreshTicks = 1
  MaxStep = 2
  RolloverStep = 1
  Word = 64
  MaxNow = 2
  MaxStarts = 2
SPECIFICATION HSpec
INVARIANTS BoundedOvercount OneStaleReload
PROPERTY UndoneOnce
