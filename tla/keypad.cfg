CONSTANTS
  Keys = {1}
  Tries = 2
  MaxEvents = 3
  MaxFaults = 3
SPECIFICATION Spec
INVARIANTS TypeOK ExactlyOnce Accounted DeafOnlyInError
PROPERTY EventServed
CHECK_DEADLOCK FALSE
