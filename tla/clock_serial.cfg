CONSTANTS
  Hours = 2
  Minutes = 1
  RefreshTicks = 2
  MaxStep = 2
  RolloverStep = 1
  Word = 64
  MaxNow = 3
  MaxStarts = 1
SPECIFICATION SerialSpec
INVARIANTS Accurate ResetSticks QuietScreen
PROPERTY EditKept
