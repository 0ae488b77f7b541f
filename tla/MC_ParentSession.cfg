\* Three processes: one that is dead and two that compete to replace it.  Four
\* events: a launch and three of further launches, controls and faults.
SPECIFICATION Spec
CONSTANTS
  Processes = {1, 2, 3}
  Parents = {1, 2}
  Asks <- MCAsks
  MaxEvents = 4
  None = None
INVARIANTS
  TypeOK
  RunningIsReachable
  QuarantineHolds
  FirstLaunchOnce
PROPERTIES
  DeferredLaunchHappens
CHECK_DEADLOCK FALSE
