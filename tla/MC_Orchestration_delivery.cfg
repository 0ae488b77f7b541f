CONSTANTS
  s1 = s1
  s2 = s2
  None = None
  StoryOrder <- TwoStories
  Dependencies <- OneAfterOther
  Team <- NoTeam
  MaxAgents = 4
  MaxRetry = 0
  RequiresApproval = FALSE
  Faults = {}
  Messages = {"session-started", "operation-started", "candidate-ready", "review-submitted", "session-shutdown"}
  Verdicts = {"approved"}
  Controls = {}
SPECIFICATION FairSpec
INVARIANTS
  DependenciesKept
PROPERTIES
  RunDelivered
CHECK_DEADLOCK FALSE
