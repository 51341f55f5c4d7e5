CONSTANTS
  Hours = {19, 20}
  Minutes = {0}
  Readings = {0, 123450}
  Positions = {0, 2}
  MaxFaults = 0
SPECIFICATION Spec
INVARIANT HoursBlink
CHECK_DEADLOCK FALSE
