CONSTANTS
  Threads = {main, isr}
  Main = main
  Pages = {4, 8}
  Lows = {0}
  Data = {1, 2}
  Timeout = 2
  Tries = 2
  None = None
SPECIFICATION FairLockedSpec
PROPERTIES ImplementsRegisters WritesAsAsked CallsReturn
