CONSTANT Faults = TRUE
SPECIFICATION FairSpec
INVARIANTS TypeOK ServiceSafe
PROPERTIES SignalExits TimerServed
CHECK_DEADLOCK FALSE
