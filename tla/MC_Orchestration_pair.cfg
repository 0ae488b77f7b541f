CONSTANTS
  s1 = s1
  s2 = s2
  None = None
  StoryOrder <- TwoStories
  Dependencies <- NoDependency
  Team <- WholeTeam
  MaxAgents = 4
  MaxRetry = 0
  RequiresApproval = FALSE
  Faults = {"crash", "launch"}
  Messages = {"session-started", "operation-started", "candidate-ready", "review-submitted", "session-shutdown"}
  Verdicts = {"approved"}
  Controls = {}
SPECIFICATION Spec
INVARIANTS
  MergedAsReviewed
  MergedIsOnMainline
  CapacityKept
PROPERTIES
  ImplementsIntegration
CHECK_DEADLOCK FALSE
