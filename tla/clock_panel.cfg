CONSTANTS
  Hours = 2
  Minutes = 1
  RefreshTicks = 1
  MaxStep = 2
  RolloverStep = 1
  Word = 4
  MaxNow = 2
SPECIFICATION FairSpec
INVARIANT TypeOK
PROPERTIES ImplementsPanel ScreenRecovers
