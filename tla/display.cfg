CONSTANTS
  Hours = {19, 20}
  Minutes = {0}
  Readings = {0, 123450}
  Positions = {2, 3}
  MaxFaults = 1
SPECIFICATION Spec
INVARIANTS TypeOK InPlace Drawn
PROPERTY FaceRecovers
CHECK_DEADLOCK FALSE
