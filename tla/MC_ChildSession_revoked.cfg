CONSTANTS
  Actions = {"operation-completed"}
  MaxReports = 2
  MaxSessions = 1
  MaxDrops = 1
  MaxCrashes = 0
SPECIFICATION FairSpec
PROPERTIES
  RefusalKeepsCapability
CHECK_DEADLOCK FALSE
