CONSTANTS
  Actions = {"operation-completed", "agent-blocked", "candidate-ready"}
  MaxReports = 4
  MaxSessions = 2
  MaxDrops = 1
  MaxCrashes = 1
SPECIFICATION FairSpec
INVARIANTS
  TypeOK
  ReportsInOrder
  NoReportLost
  ClosedIsOver
  RestIsSeen
PROPERTIES
  ReportsSettle
  ClosingEnds
CHECK_DEADLOCK FALSE
