CONSTANTS
  StartTimes <- MCStartTimes
  SetTimes <- MCSetTimes
  MaxJump = 3
  MaxSec = 3
  MaxSets = 3
SPECIFICATION HSpec
INVARIANTS TypeOK BoundedLead SetTakes
CHECK_DEADLOCK FALSE
