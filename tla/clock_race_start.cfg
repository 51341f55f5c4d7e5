CONSTANTS
  Hours = 1
  Minutes = 1
  RefreshTicks = 1
  MaxStep = 2
  RolloverStep = 1
  Word = 64
  MaxNow = 3
  MaxStarts = 1
SPECIFICATION HSpec
INVARIANT Accurate
