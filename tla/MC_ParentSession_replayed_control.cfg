\* Four events: a launch and three controls, a pause, a resume and a pause.
SPECIFICATION Spec
CONSTANTS
  Processes = {1, 2}
  Parents = {1, 2}
  Asks <- MCAsks
  MaxEvents = 4
  None = None
PROPERTIES
  ControlTakesEffect
CHECK_DEADLOCK FALSE
